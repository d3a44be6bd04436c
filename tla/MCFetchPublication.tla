-------------------------- MODULE MCFetchPublication --------------------------
(* Instances of FetchPublication.  A remote's heads are named by the tracking  *)
(* names that they lower to.  Commit c1 is the parent of c2 and c3.            *)
(*                                                                             *)
(* Every behaviour of the main run plays one of the scenarios, which only      *)
(* choose who may ask for what: a call never looks at the scenario.            *)
EXTENDS FetchPublication, FiniteSets, TLC

VARIABLE scenario

OpsSymmetry == Permutations(Ops)

MCAncestors == [x \in Oids |-> IF x = "c1" THEN {"c1"} ELSE {"c1", x}]

Fetch(p, map) == [kind |-> "fetch", remote |-> p, map |-> map, mapped |-> FALSE, forced |-> {},
                  prune |-> FALSE, head |-> FALSE, follow |-> FALSE, deepens |-> FALSE]
Same(names) == [n \in names |-> n]
Push(p, targets) == [kind |-> "push", remote |-> p, targets |-> targets, leased |-> {}, forced |-> {}]
Tracking(p, name) == [kind |-> "track", remote |-> p, name |-> name]
Holds(names, targets, heads_) ==
  {[refs |-> [s \in Advertisable |-> IF s \in names THEN f[s] ELSE None], head |-> h, version |-> 0]
     : f \in [names -> targets], h \in heads_}
Advert(names, oids, heads_) == Holds(names, oids \cup {None}, heads_)

(* Two nested namespaces, and one apart from them.                             *)
MCPrefixes == {"a/", "a/b/", "o/"}
MCUnder == [p \in MCPrefixes |-> CASE p = "a/" -> {"a/HEAD", "a/b/m", "a/b/HEAD"}
                                   [] p = "a/b/" -> {"a/b/m", "a/b/HEAD"}
                                   [] p = "o/" -> {"o/m", "o/n", "o/HEAD"}]
MCHead == [p \in MCPrefixes |-> CASE p = "a/" -> "a/HEAD" [] p = "a/b/" -> "a/b/HEAD"
                                  [] p = "o/" -> "o/HEAD"]

Silent == [p \in MCPrefixes |-> Holds({}, {}, {None})]
Scenario(requests, remotes, puts, heads_, oids, calls, issues, revisions, versions) ==
  [requests |-> requests, remotes |-> remotes, puts |-> puts, heads |-> heads_, oids |-> oids,
   calls |-> calls, issues |-> issues, revisions |-> revisions, versions |-> versions]

(* Fetches and a push in overlapping and in disjoint namespaces.               *)
Nested ==
  Scenario({Fetch("a/", Same({"a/b/m"})), Fetch("a/b/", Same({"a/b/m"})),
            Fetch("o/", Same({"o/m"})), Push("a/b/", [n \in {"a/b/m"} |-> "c1"])},
           [Silent EXCEPT !["o/"] = Advert({"o/m"}, {"c1"}, {None}),
                          !["a/"] = Holds({"a/b/m"}, {"c1", "c2"}, {None}),
                          !["a/b/"] = Holds({"a/b/m"}, {"c1", "c2"}, {None})],
           {"a/b/m"} \X {"c2", None}, FALSE, {"c1", "c2"}, 2, 2, 2, 0)

(* Branches and tags of the repository as destinations, and a checkout.        *)
Exact ==
  Scenario({[Fetch("o/", [n \in {"main"} |-> "o/m"]) EXCEPT !.mapped = TRUE],
            [Fetch("o/", [n \in {"v1"} |-> "v1"]) EXCEPT !.mapped = TRUE],
            [Fetch("o/", Same({"o/m"})) EXCEPT !.follow = TRUE]},
           [Silent EXCEPT !["o/"] = Advert({"o/m", "v1"}, {"c2", "c3"}, {None})],
           ({"main"} \X {"c2", "c3"}) \cup {<<"v1", "c2">>}, TRUE, {"c2", "c3"}, 1, 2, 2, 0)

(* Deepening fetches of two remotes.                                           *)
Deepening ==
  Scenario({[Fetch("o/", Same({"o/m"})) EXCEPT !.deepens = TRUE],
            [Fetch("a/b/", Same({"a/b/m"})) EXCEPT !.deepens = TRUE]},
           [Silent EXCEPT !["o/"] = Advert({"o/m"}, {"c2"}, {None}),
                          !["a/b/"] = Advert({"a/b/m"}, {"c2"}, {None})],
           {}, FALSE, {"c1", "c2"}, 2, 3, 3, 0)

(* Two branches of a remote whose HEAD moves, fetched with and without prune.  *)
MovingHead ==
  Scenario({[Fetch("o/", Same({"o/m", "o/n"})) EXCEPT !.head = TRUE],
            [Fetch("o/", Same({"o/m"})) EXCEPT !.head = TRUE, !.prune = TRUE],
            [Fetch("o/", Same({"o/m", "o/n"})) EXCEPT !.head = TRUE, !.prune = TRUE]},
           [Silent EXCEPT !["o/"] = Advert({"o/m", "o/n"}, {"c1"}, {"o/m", "o/n", None})],
           {<<"o/n", None>>}, FALSE, {"c1"}, 1, 2, 2, 1)

(* Pushes with and without lease, beside tracking publications.                *)
Pushes ==
  Scenario({[Push("o/", [n \in {"o/m"} |-> "c2"]) EXCEPT !.leased = {"o/m"}],
            [Push("o/", [n \in {"o/m"} |-> None]) EXCEPT !.leased = {"o/m"}, !.forced = {"o/m"}],
            Tracking("o/", "o/m")},
           [Silent EXCEPT !["o/"] = Advert({"o/m"}, {"c1", "c2"}, {None})],
           {<<"o/m", "c1">>}, FALSE, {"c1", "c2", "c3"}, 2, 2, 2, 2)

Scenarios == [nested |-> Nested, exact |-> Exact, deepening |-> Deepening, head |-> MovingHead,
              pushes |-> Pushes]
Play == Scenarios[scenario]

MCRequests == UNION {Scenarios[s].requests : s \in DOMAIN Scenarios}
MCRemotes == [p \in MCPrefixes |-> UNION {Scenarios[s].remotes[p] : s \in DOMAIN Scenarios}]
MCPuts == UNION {Scenarios[s].puts : s \in DOMAIN Scenarios}

MCInit ==
  /\ scenario \in DOMAIN Scenarios
  /\ remote \in [MCPrefixes -> UNION {Play.remotes[p] : p \in MCPrefixes}]
  /\ \A p \in MCPrefixes : remote[p] \in Play.remotes[p]
  /\ Init

(* What else the scenario lets happen.                                         *)
Played ==
  /\ Cardinality({o \in Ops : pc'[o] # "idle"}) <= Play.calls
  /\ \A p \in MCPrefixes :
       remote'[p] # remote[p] /\ pc' = pc =>
         [remote'[p] EXCEPT !.version = 0] \in Play.remotes[p]
  /\ \A p \in MCPrefixes : remote'[p].version <= Play.versions
  /\ heads' # heads => Play.heads
  /\ \A o \in Ops : pc'[o] = "publish" => plan'[o].boundary \subseteq Play.oids
  /\ Len(issued') <= Play.issues
  /\ \A p \in MCPrefixes : namespaces'[p].revision <= Play.revisions
  /\ \A n \in TrackingNames :
       trackingRevisions'[n] # None => trackingRevisions'[n] <= Play.revisions
  /\ checkoutRevision' <= Play.revisions /\ shallowRevision' <= Play.revisions

MCSpec == MCInit /\ [][StepOf(Play.requests, Play.puts) /\ Played /\ UNCHANGED scenario]_<<vars, scenario>>

(* One push of two branches.                                                   *)
OnePrefix == {"o/"}
OneHead == [p \in OnePrefix |-> "o/HEAD"]
TwoUnder == [p \in OnePrefix |-> {"o/m", "o/n", "o/HEAD"}]
UnionRequests == {Push("o/", [n \in {"o/m", "o/n"} |-> IF n = "o/m" THEN "c2" ELSE "c3"])}
UnionRemotes == [p \in OnePrefix |-> Advert({"o/m", "o/n"}, {"c1", "c2", "c3"}, {None})]
PushSpec == scenario = "push" /\ Init /\ [][Next /\ UNCHANGED scenario]_<<vars, scenario>>
=============================================================================
