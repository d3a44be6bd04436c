--------------------------- MODULE MCMaintenance ---------------------------
(* Small instances of Maintenance for TLC. *)
EXTENDS Maintenance

VARIABLE scenario

NoTargets == [s \in RowSources |-> {}]

\* blob 1, tree 2 over it, commit 3, its child commit 4 over the same tree, and
\* tree 5 with the blob and commit 3 as a gitlink
MCType == <<"blob", "tree", "commit", "commit", "tree">>
MCChildren == <<{}, {1}, {2}, {2, 3}, {1, 3}>>

Scenario(batches, contents, targets, trees, packs, transferIds, time, epoch, generation) ==
  [batches |-> batches, contents |-> contents, targets |-> targets, trees |-> trees, packs |-> packs,
   transfers |-> transferIds, time |-> time, epoch |-> epoch, generation |-> generation]

\* Every behaviour of the main run plays one of these.  They only choose what
\* the foreground may write: maintenance never looks at the scenario.
Scenarios ==
  [ \* a loose closure that is rooted, unrooted and collected
    loose |-> Scenario({{1, 2, 3}, {1}}, {}, [NoTargets EXCEPT !["refs"] = {3}], {2}, 0, {}, 2, 2, 2),
    \* a blob that is collected, written again and nominated anew
    rewritten |-> Scenario({{1}}, {}, NoTargets, {}, 0, {}, 3, 1, 3),
    \* packs that overlap, so that canonical ownership moves
    packs |-> Scenario({}, {{1}, {1, 3}}, [NoTargets EXCEPT !["refs"] = {1}], {}, 3, {}, 1, 1, 3),
    \* commit 4 becomes and stops being a shallow boundary
    shallow |-> Scenario({{3}}, {{1, 2, 4}},
                         [NoTargets EXCEPT !["refs"] = {4}, !["shallow"] = {4}], {}, 1, {}, 1, 3, 2),
    \* the blob may be promised, the gitlink absent
    promises |-> Scenario({{1}, {3}}, {{5}},
                          [NoTargets EXCEPT !["index"] = {3}, !["index-baseline"] = {5}],
                          {5}, 1, {}, 1, 2, 2),
    \* a head and transfers root one object in turn
    transfers |-> Scenario({{1}}, {}, [NoTargets EXCEPT !["heads"] = {1}],
                           {}, 0, {1, 2}, 2, 3, 1) ]
Play == Scenarios[scenario]

MCBatches == UNION {Scenarios[s].batches : s \in DOMAIN Scenarios}
MCContents == UNION {Scenarios[s].contents : s \in DOMAIN Scenarios}
MCTargets == [r \in RowSources |-> UNION {Scenarios[s].targets[r] : s \in DOMAIN Scenarios}]

MCInit == Init /\ scenario \in DOMAIN Scenarios

MCNext ==
  /\ \/ /\ ForegroundOf(Play.batches, Play.contents, Play.targets, Play.transfers)
        /\ rootEpoch' <= Play.epoch /\ sourceGeneration' <= Play.generation
        /\ lastPackId' <= Play.packs /\ projected' \subseteq projected \cup Play.trees
     \/ now < Play.time /\ Tick
     \/ Maintain
  /\ UNCHANGED scenario

MCSpec == MCInit /\ [][MCNext]_<<vars, scenario>>

\* The chain of blob 1, tree 2 and commit 3.
ChainType == <<"blob", "tree", "commit">>
ChainChildren == <<{}, {1}, {2}>>
ChainTargets == [NoTargets EXCEPT !["refs"] = {3}]
ChainBatches == {{1, 2, 3}, {1}}

\* The foreground falls silent after the first instant, maintenance is called
\* again and again, and the clock only moves while a run of the current
\* instant is finished or the last run waits for its eligibility.
LiveTick == run.phase = "finish" /\ (Waiting \/ run.started = now) /\ Tick

LiveNext ==
  \/ now = 0 /\ Foreground /\ CountersBounded
  \/ LiveTick
  \/ Maintain

LiveInit == Init /\ scenario = "loose"

LiveSpec ==
  /\ LiveInit /\ [][LiveNext /\ UNCHANGED scenario]_<<vars, scenario>>
  /\ WF_vars(Maintain) /\ SF_vars(LiveTick)

ChainSpec == LiveInit /\ [][Next /\ UNCHANGED scenario]_<<vars, scenario>>

\* A root whose closure was partly collected makes every call fail.
Intact ==
  \A o \in Reachable : \A c \in Edges(o, roots["shallow"]) :
    c \in Readable \/ EdgeSkippedWhenAbsent(o, c)

\* Once the foreground is silent, every loose object and every pack that the
\* live roots do not need is eventually gone for good.
GarbageCollected ==
  []Intact => <>[](/\ loose \subseteq Reachable
                   /\ \A p \in CompletePacks : packObjects[p] \cap Reachable # {})

\* "Maintenance state is resumable": in every state the next call succeeds.
MaintenanceResumable == ENABLED Maintain
=============================================================================
