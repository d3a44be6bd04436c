---------------------------- MODULE Connectivity ----------------------------
(***************************************************************************)
(* What a fetch may add to the object graph.  Every received pack is        *)
(* checked as it is published: its references resolve in the packs of the   *)
(* fetch, among what the refs reached when the fetch began, or among        *)
(* present blobs and trees.  The refs follow in a later transaction.  Local *)
(* commits, ref deletions and the collection of garbage go on in between.   *)
(***************************************************************************)
EXTENDS Naturals, FiniteSets

CONSTANTS Type,      \* object -> "commit", "tree", "blob" or "tag"
          Links,     \* object -> the objects it names
          Packs,     \* what a server may send
          Responses, \* the shallow parts of the answers of the server
          RefNames,
          None

ASSUME ConnectivityAssumption ==
  /\ DOMAIN Type = DOMAIN Links
  /\ \A o \in DOMAIN Links : Links[o] \subseteq DOMAIN Type

VARIABLES present,    \* objects of loose storage and of complete packs
          promised,   \* git_promised_blobs
          boundary,   \* git_shallow
          heads,      \* refs and checkout heads
          aged,       \* unreachable objects whose grace period has passed
          transfer    \* the fetch in flight

graphVars == << present, promised, boundary, heads, aged, transfer >>

Oids == DOMAIN Type
Commits == {o \in Oids : Type[o] = "commit"}
Tags == {o \in Oids : Type[o] = "tag"}
Trees == {o \in Oids : Type[o] = "tree"}
Blobs == {o \in Oids : Type[o] = "blob"}
Tips(refs) == {refs[r] : r \in RefNames} \ {None}

\* what an object names, the parents of a shallow commit left out
Names(o, shallow) == IF o \in shallow THEN Links[o] \ Commits ELSE Links[o]

\* everything that is reached from roots through the objects of via
Reaches(roots, shallow, via) ==
  LET wave[n \in 0..Cardinality(Oids)] ==
        IF n = 0 THEN roots
        ELSE LET seen == wave[n - 1]
             IN seen \cup UNION {Names(o, shallow) : o \in seen \cap via}
  IN wave[Cardinality(Oids)]

NoTransfer == [phase |-> "idle", tips |-> {}, fresh |-> FALSE, filtered |-> FALSE,
               packs |-> 0, accepted |-> {}, shallow |-> {}, unshallow |-> {}]

ConnectivityInit ==
  /\ present = {} /\ promised = {} /\ boundary = {}
  /\ heads = [r \in RefNames |-> None]
  /\ aged = {}
  /\ transfer = NoTransfer

\* beginFetchConnectivity
BeginConnectivity(filtered) ==
  /\ transfer.phase = "idle"
  /\ transfer' = [NoTransfer EXCEPT !.phase = "transfer", !.tips = Tips(heads),
                                    !.fresh = (present = {} /\ promised = {}),
                                    !.filtered = filtered]
  /\ UNCHANGED << present, promised, boundary, heads, aged >>

ReachedAnywhere == (Commits \cup Tags) \cap present

\* RefReachability.reached: commits and tags that the starting refs reach
Reached == (Commits \cup Tags)
             \cap present \cap Reaches(transfer.tips, boundary, present)

ResponseBoundary(shallow, unshallow) == (boundary \ unshallow) \cup shallow

\* the references of a pack that its own objects do not resolve
OutOfPack(pack, shallow) == UNION {Names(o, shallow) : o \in pack} \ pack

TreeClosure(tree) == Reaches({tree}, {}, present) \cap (Trees \cup Blobs)
Available(o) == o \in present \/ (Type[o] = "blob" /\ o \in promised)
Closed(tree) == \A o \in TreeClosure(tree) : Available(o)

\* ExternalReferenceCheck: the references of a pack into the rest of the store
ExternalResolves(external) ==
  LET commits == external \cap Commits
      proven == UNION {TreeClosure(t) : t \in UNION {Links[c] \cap Trees : c \in commits}}
  IN
  /\ external \cap (Commits \cup Tags) \subseteq Reached
  /\ external \cap Trees \subseteq present
  /\ \A t \in external \cap Trees : t \in proven \/ Closed(t)
  /\ external \cap Blobs \subseteq present \cup promised
       \cup IF transfer.filtered THEN Oids ELSE {}

\* a fresh store resolves nothing outside the packs of the fetch
FreshResolves(external) == external \subseteq IF transfer.filtered THEN Blobs ELSE {}

\* transferPack with the connectivity check in the publication of the pack: the
\* first request, and the one that completes followed tags.  The blobs of the
\* pack are promised no longer, and a filtered fetch promises those it lacks.
\* The server sends what an unshallowed commit was cut off from.
ReceivePack(pack, shallow, unshallow) ==
  LET relative == (transfer.shallow \ unshallow) \cup shallow
      cancelled == (transfer.unshallow \ shallow) \cup unshallow
      cut == ResponseBoundary(relative, cancelled)
      external == OutOfPack(pack, cut) \ transfer.accepted
  IN
  /\ transfer.phase = "transfer" /\ transfer.packs < 2
  /\ UNION {Links[o] \cap Commits : o \in unshallow} \subseteq pack
  /\ IF transfer.fresh THEN FreshResolves(external) ELSE ExternalResolves(external)
  /\ promised' = (promised \ pack)
                   \cup IF transfer.filtered THEN (external \cap Blobs) \ present ELSE {}
  /\ present' = present \cup pack
  /\ aged' = aged \ pack
  /\ transfer' = [transfer EXCEPT !.packs = @ + 1, !.accepted = @ \cup pack,
                                  !.shallow = relative, !.unshallow = cancelled]
  /\ UNCHANGED << boundary, heads >>

\* connectedObjects
Connected == (transfer.accepted \cap present) \cup IF transfer.fresh THEN {} ELSE Reached

\* authenticateShallowTransition: every commit down to the new boundary is
\* there, and what is newly cut off is part of the fetched history
ShallowAuthentic(root, proposed) ==
  LET walked == Reaches({root} \cup (boundary \ proposed), proposed, Commits \cup Tags)
                  \cap Commits
  IN walked \subseteq present /\ proposed \ boundary \subseteq walked

\* validateFetchedConnectivity and publishFetchRefs in one transaction
PublishHeads(r, root) ==
  LET proposed == ResponseBoundary(transfer.shallow, transfer.unshallow)
  IN
  /\ transfer.phase = "transfer"
  /\ Type[root] \in {"commit", "tag"}
  /\ {root} \cup (IF Type[root] = "tag" THEN Links[root] ELSE {}) \subseteq Connected
  /\ proposed # boundary => ShallowAuthentic(root, proposed)
  /\ heads' = [heads EXCEPT ![r] = root]
  /\ boundary' = proposed
  /\ aged' = aged \ Reaches(Tips(heads'), boundary', Oids)
  /\ transfer' = NoTransfer
  /\ UNCHANGED << present, promised >>

\* The fetch fails and its packs stay.
AbandonTransfer ==
  /\ transfer.phase = "transfer"
  /\ transfer' = NoTransfer
  /\ UNCHANGED << present, promised, boundary, heads, aged >>

\* a local commit on history the refs reach, with its whole tree
CommitLocally(r, c) ==
  LET new == {c} \cup Reaches(Links[c] \cap Trees, {}, Oids)
  IN
  /\ Type[c] = "commit"
  /\ Links[c] \cap Commits \subseteq Reaches(Tips(heads), boundary, present) \cap present
  /\ present' = present \cup new
  /\ promised' = promised \ new
  /\ heads' = [heads EXCEPT ![r] = c]
  /\ aged' = aged \ (new \cup Reaches(Tips(heads'), boundary, Oids))
  /\ UNCHANGED << boundary, transfer >>

\* hydratePromisedBlobs: a blob comes in a pack of its own, which is not checked
HydrateBlob(o) ==
  /\ o \in promised \ present
  /\ present' = present \cup {o}
  /\ promised' = promised \ {o}
  /\ UNCHANGED << boundary, heads, aged, transfer >>

DeleteHead(r) ==
  /\ heads[r] # None
  /\ heads' = [heads EXCEPT ![r] = None]
  /\ UNCHANGED << present, promised, boundary, aged, transfer >>

\* The grace period is longer than a fetch, so it never runs out during one for
\* an object that became unreachable, or arrived, after the fetch began.
Age(o) ==
  /\ transfer.phase = "idle"
  /\ o \in present \ (aged \cup Reaches(Tips(heads), boundary, Oids))
  /\ aged' = aged \cup {o}
  /\ UNCHANGED << present, promised, boundary, heads, transfer >>

\* maintenance removes the aged objects in no particular order
SweepObject(o) ==
  /\ o \in aged
  /\ present' = present \ {o}
  /\ aged' = aged \ {o}
  /\ transfer' = [transfer EXCEPT !.accepted = @ \ {o}]
  /\ UNCHANGED << promised, boundary, heads >>

ConnectivityNext ==
  \/ \E filtered \in BOOLEAN : BeginConnectivity(filtered)
  \/ \E pack \in Packs, cut \in Responses : ReceivePack(pack, cut.shallow, cut.unshallow)
  \/ \E r \in RefNames, o \in Oids : PublishHeads(r, o) \/ CommitLocally(r, o)
  \/ AbandonTransfer
  \/ \E r \in RefNames : DeleteHead(r)
  \/ \E o \in Oids : HydrateBlob(o) \/ Age(o) \/ SweepObject(o)

ConnectivitySpec == ConnectivityInit /\ [][ConnectivityNext]_graphVars

-----------------------------------------------------------------------------
\* Everything the refs reach down to the shallow boundary is present, or is a
\* blob that a partial clone was promised: refs are never published onto a
\* graph with holes, whatever packs arrived and whatever failed fetches left.
RefsClosed ==
  \A o \in Reaches(Tips(heads), boundary, Oids) : Available(o)
=============================================================================
