---------------------------- MODULE MCRepository ----------------------------
(***************************************************************************)
(* Instances of Clone, PackIngest and Connectivity, one of which each       *)
(* behaviour is about: the repositories of a database with clones that race *)
(* for one root, the packs of a repository, the object graph of a fetch.    *)
(***************************************************************************)
EXTENDS Clone, PackIngest, Connectivity

VARIABLE scenario

Registries ==
  [clones |-> [roots |-> {"/a"}, calls |-> Clones, repo |-> 2, checkout |-> 2, clock |-> 3, stores |-> 5],
   checkouts |-> [roots |-> {"/a", "/b"}, calls |-> {}, repo |-> 2, checkout |-> 3, clock |-> 0, stores |-> 6],
   both |-> [roots |-> {"/a", "/b"}, calls |-> {CHOOSE k \in Clones : TRUE},
             repo |-> 2, checkout |-> 2, clock |-> 2, stores |-> 5]]
Play == Registries[scenario]

Played ==
  /\ sequence'.repo <= Play.repo /\ sequence'.checkout <= Play.checkout /\ clock' <= Play.clock
  /\ memory'.nextStore <= Play.stores
  /\ \A c \in DOMAIN checkouts' : checkouts'[c].root \in Play.roots
  /\ \A k \in Clones \ Play.calls : calls'[k] = NoCall

\* packs with forward and backward deltas, a cycle, and too long a chain
Full(oid) == [oid |-> oid, kind |-> "full", base |-> 0]
Ofs(oid, base) == [oid |-> oid, kind |-> "ofs", base |-> base]
Ref(oid, base) == [oid |-> oid, kind |-> "ref", base |-> base]
MCIncoming ==
  {<< Full("a") >>,
   << Ref("c", "b"), Ref("b", "a"), Full("a"), Ofs("d", 1) >>,
   << Full("a"), Ref("b", "c"), Ref("c", "b") >>,
   << Full("a"), Ofs("b", 1), Ofs("c", 2), Ofs("d", 3) >>}

\* a line of three commits that share a tree, and a tag on the first; a pack
\* without the blob of its tree, as a partial clone asks for
MCType == [c1 |-> "commit", c2 |-> "commit", c3 |-> "commit", t1 |-> "tree", b1 |-> "blob", g1 |-> "tag"]
MCLinks == [c1 |-> {"t1"}, c2 |-> {"t1", "c1"}, c3 |-> {"t1", "c2"}, t1 |-> {"b1"}, b1 |-> {}, g1 |-> {"c1"}]
MCPacks == {{"c1", "t1", "b1"}, {"c1"}, {"c2"}, {"c1", "t1"}, {"c2", "t1", "b1"}, {"c3"}, {"g1"},
            {"c1", "c2", "c3", "t1", "b1"}}
MCResponses == {[shallow |-> {}, unshallow |-> {}], [shallow |-> {"c2"}, unshallow |-> {}],
                [shallow |-> {}, unshallow |-> {"c2"}], [shallow |-> {}, unshallow |-> {"c3"}],
                [shallow |-> {"c2"}, unshallow |-> {"c3"}]}

MCInit ==
  /\ CloneInit /\ PackIngestInit /\ ConnectivityInit
  /\ scenario \in DOMAIN Registries \cup {"ingest", "graph"}

Kept(a, b) == UNCHANGED a /\ UNCHANGED b
RegistryPart == scenario \in DOMAIN Registries /\ CloneNext /\ Played /\ Kept(ingestVars, graphVars)
IngestPart == scenario = "ingest" /\ PackIngestNext /\ Kept(cloneVars, graphVars)
GraphPart == scenario = "graph" /\ ConnectivityNext /\ Kept(cloneVars, ingestVars)

\* maintenance that does not collect while a fetch is in flight
Sequential == transfer.phase # "idle" => present \subseteq present'

MCNext == RegistryPart \/ IngestPart \/ (GraphPart /\ Sequential)
MCSpec == MCInit /\ [][MCNext /\ UNCHANGED scenario]_<<cloneVars, ingestVars, graphVars, scenario>>

\* the same with maintenance at any time
RaceInit == CloneInit /\ PackIngestInit /\ ConnectivityInit /\ scenario = "graph"
RaceSpec == RaceInit /\ [][GraphPart /\ UNCHANGED scenario]_<<cloneVars, ingestVars, graphVars, scenario>>
=============================================================================
