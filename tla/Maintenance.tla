---------------------------- MODULE Maintenance ----------------------------
(***************************************************************************)
(* Resumable garbage collection of one repository                          *)
(* (packages/git/src/store/maintenance, packages/git/src/ops/repository/   *)
(* maintenance.ts) together with every foreground transaction that it can  *)
(* interleave with.  A maintenance call is one SQLite transaction: it      *)
(* releases at most one expired transfer, then takes one bounded slice of  *)
(* the current run (one root page, one mark expansion, one loose page, one *)
(* pack page, or one transition).  Between two calls any foreground        *)
(* transaction may write objects, publish packs or move roots.             *)
(*                                                                         *)
(* Objects are positive integers because the code orders them (keyset      *)
(* pages and the mark queue go in OID order).  What an object refers to is *)
(* part of its content, so Type and Children are constants.                *)
(***************************************************************************)
EXTENDS Integers, FiniteSets, Sequences, Keyset

CONSTANTS
  MaxObject,      \* objects are 1 .. MaxObject
  Type,           \* Type[o] is "blob", "tree" or "commit"
  Children,       \* Children[o]: the objects that the content of o names
  MaxPack,        \* pack ids are 1 .. MaxPack, handed out once each
  MaxTransfer,    \* transfers are 1 .. MaxTransfer
  RootTargets,    \* RootTargets[s]: the objects that source s may name
  Batches,        \* the sets of objects that one transaction may write
  PackContents,   \* the sets of objects that one pack may deliver
  GC_GRACE,       \* GC_GRACE_MS
  RETENTION,      \* REFLOG_RETENTION_SECONDS
  TRANSFER_TTL,   \* TRANSFER_TTL_MS
  PAGE_ROWS,      \* rows of one root page and of one sweep page
  EDGE_PAGE,      \* edges of one expansion
  MaxTime,        \* bound on the clock
  MaxEpoch,       \* bound on the root epoch (MAX_SAFE_INTEGER)
  MaxGeneration   \* bound on the source generation (MAX_SAFE_INTEGER)

Objects == 1 .. MaxObject
PackIds == 1 .. MaxPack
TransferIds == 1 .. MaxTransfer

\* The order in which a run reads its root tables; the entry after the last
\* one is "done".
ROOT_SOURCES ==
  << "refs", "heads", "reflogs", "index", "index-baseline", "shallow",
     "operations", "transfers" >>

Done == Len(ROOT_SOURCES) + 1

\* Tables whose rows are roots as they stand.  A reflog row is a root while
\* it is retained, a transfer's root while the transfer is not released.
RowSources ==
  {"refs", "heads", "index", "index-baseline", "shallow", "operations"}

NoTime == -1

Blobs == {o \in Objects : Type[o] = "blob"}
Trees == {o \in Objects : Type[o] = "tree"}
Commits == {o \in Objects : Type[o] = "commit"}

ASSUME ObjectsAssumption ==
  /\ MaxObject \in Nat
  /\ Type \in [Objects -> {"blob", "tree", "commit"}]
  /\ Children \in [Objects -> SUBSET Objects]

ASSUME IdsAssumption ==
  /\ MaxPack \in Nat
  /\ MaxTransfer \in Nat
  /\ RootTargets \in [RowSources -> SUBSET Objects]
  /\ RootTargets["index"] \subseteq Blobs \cup Commits
  /\ RootTargets["shallow"] \subseteq Commits
  /\ Batches \subseteq SUBSET Objects
  /\ PackContents \subseteq SUBSET Objects

ASSUME BoundsAssumption ==
  /\ GC_GRACE \in Nat \ {0}
  /\ RETENTION \in Nat
  /\ TRANSFER_TTL \in Nat \ {0}
  /\ PAGE_ROWS \in Nat \ {0}
  /\ EDGE_PAGE \in Nat \ {0}
  /\ MaxTime \in Nat
  /\ MaxEpoch \in Nat
  /\ MaxGeneration \in Nat

VARIABLES
  now,              \* the clock a call reads once
  loose,            \* git_objects
  packState,        \* git_pack_meta.state, "absent" without a row
  packObjects,      \* git_pack_entries of each pack
  lastPackId,       \* the highest pack id handed out
  promised,         \* git_promised_blobs
  roots,            \* rows of the RowSources tables
  reflog,           \* newest reflog time naming an object, or NoTime
  transfers,        \* git_transfers with its root
  projected,        \* git_tree_sources with complete = 1
  rootEpoch,        \* git_maintenance_control.root_epoch
  sourceGeneration, \* git_repositories.source_generation
  run,              \* git_maintenance_runs
  marked,           \* git_maintenance_objects
  expanded,         \* those with expanded = 1
  boundary,         \* those with shallow_boundary = 1
  edgeCursor,       \* their edge_cursor
  looseSince,       \* git_loose_gc_candidates.unreachable_since_ms
  packSince,        \* git_pack_gc_candidates.unreachable_since_ms
  arrived           \* history: when an object last became readable

storage == << loose, packState, packObjects, lastPackId, promised >>
rootRows == << roots, reflog >>
marks == << marked, expanded, boundary, edgeCursor >>
candidates == << looseSince, packSince >>
vars == << now, loose, packState, packObjects, lastPackId, promised, roots,
           reflog, transfers, projected, rootEpoch, sourceGeneration, run,
           marked, expanded, boundary, edgeCursor, looseSince, packSince,
           arrived >>

-----------------------------------------------------------------------------
(***************************************************************************)
(* Helpers                                                                 *)
(***************************************************************************)
\* The least set that holds S and follows the function E.
Closure(S, E) ==
  {o \in Objects :
     \A C \in SUBSET Objects :
       (S \subseteq C /\ \A c \in C : E[c] \subseteq C) => o \in C}

CompletePacks == {p \in PackIds : packState[p] = "complete"}
PacksWith(o) == {p \in CompletePacks : o \in packObjects[p]}

\* An object is readable from a loose row or from a complete pack.
Readable == {o \in Objects : o \in loose \/ PacksWith(o) # {}}

\* canonicalPackEntrySql: the lowest complete pack owns an object.
CanonicalPack(o) == MinOf(PacksWith(o))

Subtrees == [t \in Objects |-> IF t \in Trees THEN Children[t] \cap Trees ELSE {}]

\* Edges of an object as the mark sees them: a shallow boundary keeps its
\* tree and loses its parents.
Edges(o, cut) ==
  IF o \in cut /\ o \in Commits THEN Children[o] \ Commits ELSE Children[o]

-----------------------------------------------------------------------------
(***************************************************************************)
(* Foreground transactions                                                 *)
(***************************************************************************)
BumpEpoch(changed) ==
  rootEpoch' = IF changed THEN rootEpoch + 1 ELSE rootEpoch

BumpGeneration(changed) ==
  sourceGeneration' = IF changed THEN sourceGeneration + 1 ELSE sourceGeneration

\* A counter at its end refuses the transaction, which rolls back.  Only the
\* foreground is held back by the bounds, so that they never stop a run.
CountersBounded == rootEpoch' <= MaxEpoch /\ sourceGeneration' <= MaxGeneration

RecordArrival ==
  arrived' = [o \in Objects |->
                IF o \in Readable' \ Readable THEN now ELSE arrived[o]]

\* Promises that remain once these objects have been stored.
PromisesLeft(stored) == promised \ stored

\* writeObject, writeObjectStream and the batch flush.  Objects that are
\* already readable are not written again and no candidate is refreshed.  A
\* blob that fulfils a promise is a new root edge; a loose tree is projected
\* with its whole subtree closure, which must be present.
WriteObjects(batch) ==
  LET fresh == batch \ Readable
      closure == Closure(fresh \cap Trees, Subtrees)
  IN /\ fresh # {}
     /\ closure \subseteq Readable \cup fresh
     /\ loose' = loose \cup fresh
     /\ promised' = PromisesLeft(batch)
     /\ projected' = projected \cup closure
     /\ BumpEpoch(promised \cap batch # {})
     /\ BumpGeneration(TRUE)
     /\ UNCHANGED << now, packState, packObjects, lastPackId, rootRows,
                     transfers, run, marks, candidates >>
     /\ RecordArrival

\* reservePending: the next ingest reclaims every abandoned pending pack and
\* takes a pack id that was never used.
ReservePack(content) ==
  LET pack == lastPackId + 1
      abandoned == {p \in PackIds : packState[p] = "pending"}
  IN /\ pack \in PackIds
     /\ packState' = [p \in PackIds |->
                        IF p = pack THEN "pending"
                        ELSE IF p \in abandoned THEN "absent" ELSE packState[p]]
     /\ packObjects' = [p \in PackIds |->
                          IF p = pack THEN content
                          ELSE IF p \in abandoned THEN {} ELSE packObjects[p]]
     /\ packSince' = [p \in PackIds |->
                        IF p \in abandoned THEN NoTime ELSE packSince[p]]
     /\ lastPackId' = pack
     /\ UNCHANGED << now, loose, promised, rootRows, transfers, projected,
                     rootEpoch, sourceGeneration, run, marks, looseSince,
                     arrived >>

\* The final transaction of an ingest: the pack becomes complete, a filtered
\* fetch promises the blobs that it left out, and promises that the pack
\* fulfils are dropped.
PublishPack(pack, unresolved) ==
  /\ packState[pack] = "pending"
  /\ packState' = [packState EXCEPT ![pack] = "complete"]
  /\ promised' = PromisesLeft(packObjects[pack])
                   \cup (unresolved \ (Readable \cup packObjects[pack]))
  /\ BumpEpoch(promised \cap packObjects[pack] # {})
  /\ BumpGeneration(TRUE)
  /\ UNCHANGED << now, loose, packObjects, lastPackId, rootRows, transfers,
                  projected, run, marks, candidates >>
  /\ RecordArrival

\* An ingest that failed leaves no visible object behind.
DiscardPack(pack) ==
  /\ packState[pack] = "pending"
  /\ packState' = [packState EXCEPT ![pack] = "absent"]
  /\ packObjects' = [packObjects EXCEPT ![pack] = {}]
  /\ packSince' = [packSince EXCEPT ![pack] = NoTime]
  /\ UNCHANGED << now, loose, lastPackId, promised, rootRows, transfers,
                  projected, rootEpoch, sourceGeneration, run, marks,
                  looseSince, arrived >>

\* mutateRefs: rows move, both ends are logged, and log rows past their
\* retention are pruned.  It takes any object id: that the target of a ref is
\* readable is what its callers see to (a branch peels its start point, a commit
\* and a fetch put the objects first).  No one checks what the target refers to.
MutateRefs(put, deleted) ==
  /\ put \subseteq Readable /\ deleted \subseteq roots["refs"]
  /\ put \cup deleted # {}
  /\ roots' = [roots EXCEPT !["refs"] = (@ \ deleted) \cup put]
  /\ reflog' = [o \in Objects |->
                  IF o \in put \cup deleted THEN now
                  ELSE IF reflog[o] < now - RETENTION THEN NoTime
                  ELSE reflog[o]]
  /\ BumpEpoch(TRUE)
  /\ UNCHANGED << now, storage, transfers, projected, sourceGeneration, run,
                  marks, candidates, arrived >>

\* What a row of a checkout, index, tracker or journal table may name when it
\* is written: an index row may also name a gitlink or a promised blob.
MayName(source, o) ==
  \/ o \in Readable
  \/ source = "index" /\ (o \in Commits \/ o \in promised)

\* Detached heads, index rows, index baselines and operation journals.
MutateRows(source, put, deleted) ==
  /\ \A o \in put : MayName(source, o)
  /\ deleted \subseteq roots[source]
  /\ roots' = [roots EXCEPT ![source] = (@ \ deleted) \cup put]
  /\ BumpEpoch(TRUE)
  /\ UNCHANGED << now, storage, reflog, transfers, projected,
                  sourceGeneration, run, marks, candidates, arrived >>

UpdateShallowSilently(add, remove) ==
  /\ add \subseteq Readable
  /\ remove \subseteq roots["shallow"]
  /\ \A o \in remove : Children[o] \subseteq Readable
  /\ add \cup remove # {}
  /\ roots' = [roots EXCEPT !["shallow"] = (@ \ remove) \cup add]
  /\ UNCHANGED << now, storage, reflog, transfers, projected, rootEpoch,
                  sourceGeneration, run, marks, candidates, arrived >>

\* Shallow boundaries move with the fetch that delivered the commits on
\* their new side.  The table takes any commit id; that both sides are readable
\* is what the fetch proves before it publishes (authenticateShallowTransition).
UpdateShallow(add, remove) ==
  /\ add \subseteq Readable
  /\ remove \subseteq roots["shallow"]
  /\ \A o \in remove : Children[o] \subseteq Readable
  /\ add \cup remove # {}
  /\ roots' = [roots EXCEPT !["shallow"] = (@ \ remove) \cup add]
  /\ BumpEpoch(TRUE)
  /\ UNCHANGED << now, storage, reflog, transfers, projected,
                  sourceGeneration, run, marks, candidates, arrived >>

\* A tree walk projects the closure of its root when it has no row yet.
ProjectTree(tree) ==
  LET closure == Closure({tree}, Subtrees)
  IN /\ tree \in Readable \ projected
     /\ closure \subseteq Readable
     /\ projected' = projected \cup closure
     /\ UNCHANGED << now, storage, rootRows, transfers, rootEpoch,
                     sourceGeneration, run, marks, candidates, arrived >>

NoTransfer == [state |-> "absent", expires |-> 0, root |-> 0]

CreateTransferSilently(t, o) ==
  /\ transfers[t] = NoTransfer /\ o \in Readable
  /\ transfers' = [transfers EXCEPT ![t] =
                     [state |-> "live", expires |-> now + TRANSFER_TTL, root |-> o]]
  /\ UNCHANGED << now, storage, rootRows, projected, rootEpoch, sourceGeneration,
                  run, marks, candidates, arrived >>

\* createTransfer: only a complete repository serves, and the root is there.
CreateTransfer(t, o) ==
  /\ transfers[t] = NoTransfer
  /\ roots["shallow"] = {} /\ promised = {}
  /\ o \in Readable
  /\ transfers' = [transfers EXCEPT ![t] =
                     [state |-> "live", expires |-> now + TRANSFER_TTL, root |-> o]]
  /\ BumpEpoch(TRUE)
  /\ UNCHANGED << now, storage, rootRows, projected, sourceGeneration, run,
                  marks, candidates, arrived >>

\* renewTransfer: an expired or released transfer is ESTALE.
RenewTransfer(t) ==
  /\ transfers[t].state = "live" /\ now < transfers[t].expires
  /\ transfers' = [transfers EXCEPT ![t].expires = now + TRANSFER_TTL]
  /\ UNCHANGED << now, storage, rootRows, projected, rootEpoch,
                  sourceGeneration, run, marks, candidates, arrived >>

ReleaseTransfer(t) ==
  /\ transfers[t].state = "live"
  /\ transfers' = [transfers EXCEPT ![t].state = "released"]
  /\ BumpEpoch(TRUE)
  /\ UNCHANGED << now, storage, rootRows, projected, sourceGeneration, run,
                  marks, candidates, arrived >>

Tick ==
  /\ now < MaxTime
  /\ now' = now + 1
  /\ UNCHANGED << storage, rootRows, transfers, projected, rootEpoch,
                  sourceGeneration, run, marks, candidates, arrived >>

-----------------------------------------------------------------------------
(***************************************************************************)
(* cleanupTransfers, the first half of a maintenance call: release the     *)
(* first expired transfer, or else delete the first released one.          *)
(***************************************************************************)
ExpiredTransfers ==
  {t \in TransferIds : transfers[t].state = "live" /\ transfers[t].expires <= now}

ReleasedTransfers == {t \in TransferIds : transfers[t].state = "released"}

FirstToExpire(S) ==
  CHOOSE t \in S :
    \A u \in S : \/ transfers[t].expires < transfers[u].expires
                 \/ transfers[t].expires = transfers[u].expires /\ t <= u

CleanedTransfers ==
  IF ExpiredTransfers # {}
  THEN [transfers EXCEPT ![FirstToExpire(ExpiredTransfers)].state = "released"]
  ELSE IF ReleasedTransfers # {}
  THEN [transfers EXCEPT ![FirstToExpire(ReleasedTransfers)] = NoTransfer]
  ELSE transfers

CleanedEpoch == IF ExpiredTransfers # {} THEN rootEpoch + 1 ELSE rootEpoch

-----------------------------------------------------------------------------
(***************************************************************************)
(* advanceMaintenance, the second half: one bounded slice of the run.  It  *)
(* reads the transfers and the epoch as cleanupTransfers left them.        *)
(***************************************************************************)
NoRun ==
  [phase |-> "none", source |-> 1, cursor |-> 0, epoch |-> 0, generation |-> 0,
   started |-> 0, nextEligible |-> NoTime, queued |-> 0, reachable |-> 0]

FreshRun ==
  [NoRun EXCEPT !.phase = "roots", !.epoch = CleanedEpoch,
                !.generation = sourceGeneration, !.started = now]

\* restartRun keeps the identity of the run and the time that it started.
RestartedRun == [FreshRun EXCEPT !.started = run.started]

\* A run carries the root epoch and the source generation that it observed.
Drifted ==
  run.epoch # CleanedEpoch \/ run.generation # sourceGeneration

\* rootsFromTransfers ignores expiry: only a release drops the root.
TransferRoots(ts) == {ts[t].root : t \in {u \in TransferIds : ts[u].state = "live"}}

\* rootsFromReflogs counts retention from the start of the run.
ReflogRoots(started) ==
  {o \in Objects : reflog[o] # NoTime /\ reflog[o] >= started - RETENTION}

SourceRowsRetainedLess(source, started, ts) ==
  CASE source = "reflogs" -> {o \in ReflogRoots(started) : reflog[o] > started - RETENTION}
    [] source = "transfers" -> TransferRoots(ts)
    [] OTHER -> roots[source]

SourceRows(source, started, ts) ==
  CASE source = "reflogs" -> ReflogRoots(started)
    [] source = "transfers" -> TransferRoots(ts)
    [] OTHER -> roots[source]

\* validateObjectRoots: an absent gitlink is skipped, so is an absent promised
\* blob; any other absent root is corruption and fails the call.
SkippedWhenAbsent(source, o) ==
  source = "index" /\ (o \in Commits \/ o \in promised)

ClearMarks ==
  /\ marked' = {}
  /\ expanded' = {}
  /\ boundary' = {}
  /\ edgeCursor' = [o \in Objects |-> 0]

\* One root page of run r on top of the marks that r already holds.
RootPage(r, held, cut) ==
  LET source == ROOT_SOURCES[r.source]
      rest == {o \in SourceRows(source, r.started, CleanedTransfers) : o > r.cursor}
      page == LowestPage(PAGE_ROWS, rest)
      found == page \cap Readable
  IN /\ \A o \in page \ found : SkippedWhenAbsent(source, o)
     /\ marked' = held \cup found
     /\ boundary' = IF source = "shallow" THEN cut \cup found ELSE cut
     /\ expanded' = {}
     /\ edgeCursor' = [o \in Objects |-> 0]
     /\ run' =
          IF page # rest THEN [r EXCEPT !.cursor = MaxOf(page)]
          ELSE IF r.source + 1 # Done
          THEN [r EXCEPT !.source = r.source + 1, !.cursor = 0]
          ELSE [r EXCEPT !.phase = "mark", !.source = Done, !.cursor = 0,
                         !.queued = Cardinality(marked')]

\* What every slice but a sweep leaves alone.
NothingSwept ==
  UNCHANGED << loose, packState, packObjects, sourceGeneration, projected,
               candidates >>

StartRun ==
  /\ run.phase = "none"
  /\ RootPage(FreshRun, {}, {})
  /\ NothingSwept

\* Drift during discovery: forget the marks and read the first page again.
RestartRun ==
  /\ run.phase \in {"roots", "mark"}
  /\ Drifted
  /\ RootPage(RestartedRun, {}, {})
  /\ NothingSwept

\* Drift during the sweep: back to discovery before any further deletion.
ResetRun ==
  /\ run.phase \in {"loose", "packs"}
  /\ Drifted
  /\ run' = RestartedRun
  /\ ClearMarks
  /\ NothingSwept

WaitingForever == run.epoch = CleanedEpoch /\ run.nextEligible # NoTime

\* A finished run only compares the epoch: new garbage waits for the next
\* eligibility boundary, a new root does not.
Waiting ==
  /\ run.epoch = CleanedEpoch
  /\ run.nextEligible # NoTime
  /\ now < run.nextEligible

WaitForEligibility ==
  /\ run.phase = "finish" /\ Waiting
  /\ UNCHANGED << run, marks >>
  /\ NothingSwept

RollOverKeepingSource ==
  /\ run.phase = "finish" /\ ~Waiting
  /\ run' = [FreshRun EXCEPT !.source = run.source]
  /\ ClearMarks
  /\ NothingSwept

\* rolloverMaintenanceRun
RollOver ==
  /\ run.phase = "finish" /\ ~Waiting
  /\ run' = FreshRun
  /\ ClearMarks
  /\ NothingSwept

SnapshotRoots ==
  /\ run.phase = "roots"
  /\ ~Drifted
  /\ RootPage(run, marked, boundary)
  /\ NothingSwept

(***************************************************************************)
(* Mark                                                                    *)
(***************************************************************************)
Queue == marked \ expanded

\* validateEdgeTargets: an absent gitlink is skipped, an absent promised blob
\* is a leaf; any other absent target is corruption and fails the call.
EdgeSkippedWhenAbsent(o, c) ==
  o \in Trees /\ (c \in Commits \/ c \in promised)

\* The queued roots count as reachable on the first expansion.
CountedReachable == IF run.reachable = 0 THEN run.queued ELSE run.reachable

\* One page of edges of the lowest unexpanded object.
ExpandMark ==
  /\ run.phase = "mark"
  /\ ~Drifted
  /\ Queue # {}
  /\ LET o == MinOf(Queue)
         rest == {c \in Edges(o, boundary) : c > edgeCursor[o]}
         page == LowestPage(EDGE_PAGE, rest)
         found == page \cap Readable
         complete == page = rest
         discovered == Cardinality(found \ marked)
     IN /\ o \in Readable
        /\ \A c \in page \ found : EdgeSkippedWhenAbsent(o, c)
        /\ marked' = marked \cup found
        /\ expanded' = IF complete THEN expanded \cup {o} ELSE expanded
        /\ edgeCursor' = [edgeCursor EXCEPT ![o] = IF page = {} THEN @ ELSE MaxOf(page)]
        /\ run' = [run EXCEPT
                     !.queued = @ + discovered - (IF complete THEN 1 ELSE 0),
                     !.reachable = CountedReachable + discovered]
        /\ UNCHANGED boundary
  /\ NothingSwept

FinishMark ==
  /\ run.phase = "mark"
  /\ ~Drifted
  /\ Queue = {}
  /\ run' = [run EXCEPT !.phase = "loose"]
  /\ UNCHANGED marks
  /\ NothingSwept

(***************************************************************************)
(* Sweep                                                                   *)
(***************************************************************************)
EligibleAt(since) == since + GC_GRACE

\* min(unreachable_since_ms) + grace over the candidates of one table
NextEligible(since, ids) ==
  LET listed == {since[i] : i \in {j \in ids : since[j] # NoTime}}
  IN IF listed = {} THEN NoTime ELSE EligibleAt(MinOf(listed))

\* readLooseActions: rows whose candidate entry is wrong or whose grace ended.
LooseActions ==
  {o \in loose :
     /\ o > run.cursor
     /\ IF o \in marked THEN looseSince[o] # NoTime
        ELSE looseSince[o] = NoTime \/ EligibleAt(looseSince[o]) <= now}

\* A slice that deleted storage adopts the generation that it bumped itself.
Swept(generation) == [run EXCEPT !.generation = generation]

\* stripUnmarkedTreeProjections
ProjectionsMarked == projected \cap marked

\* Candidates after a page: a row that is gone or marked has none.
LooseCandidatesOutliveRows(page, doomed) ==
  [o \in Objects |-> IF o \notin page \/ o \in doomed THEN looseSince[o]
                     ELSE IF o \in marked THEN NoTime ELSE now]
LooseCandidates(page, doomed) ==
  [o \in Objects |-> IF o \notin page THEN looseSince[o]
                     ELSE IF o \in marked \cup doomed THEN NoTime ELSE now]

SweepLoose ==
  /\ run.phase = "loose"
  /\ ~Drifted
  /\ LooseActions # {}
  /\ LET page == LowestPage(PAGE_ROWS, LooseActions)
         doomed == {o \in page \ marked : looseSince[o] # NoTime}
     IN /\ loose' = loose \ doomed
        /\ looseSince' = LooseCandidates(page, doomed)
        /\ BumpGeneration(doomed # {})
        /\ run' = [Swept(sourceGeneration') EXCEPT !.cursor = MaxOf(page)]
        /\ projected' = IF doomed = {} THEN projected ELSE ProjectionsMarked
  /\ UNCHANGED << packState, packObjects, packSince, marks >>

FinishLoose ==
  /\ run.phase = "loose"
  /\ ~Drifted
  /\ LooseActions = {}
  /\ run' = [run EXCEPT !.phase = "packs", !.cursor = 0,
                        !.nextEligible = NextEligible(looseSince, Objects)]
  /\ UNCHANGED marks
  /\ NothingSwept

\* A complete pack is kept while it is the canonical owner of a marked object.
MarkedPack(p) == \E o \in packObjects[p] \cap marked : PacksWith(o) # {} /\ CanonicalPack(o) = p

Collectable(p) == packState[p] = "complete" /\ ~MarkedPack(p)

\* readPackPage
PackActions ==
  {p \in PackIds :
     /\ packState[p] # "absent"
     /\ p > run.cursor
     /\ IF Collectable(p)
        THEN packSince[p] = NoTime \/ EligibleAt(packSince[p]) <= now
        ELSE packSince[p] # NoTime}

AuditedWithoutWithdrawal(examined) ==
  [p \in PackIds |-> IF p \in examined /\ Collectable(p) THEN now ELSE packSince[p]]

\* Nominations and withdrawals of the packs that one call examined.
Audited(examined) ==
  [p \in PackIds |->
     IF p \notin examined THEN packSince[p]
     ELSE IF Collectable(p) THEN now ELSE NoTime]

DoomedPacks ==
  {p \in LowestPage(PAGE_ROWS, PackActions) : Collectable(p) /\ packSince[p] # NoTime}

\* Trees whose last copy leaves with pack p.
LastCopies(p) ==
  {t \in packObjects[p] \cap Trees :
     t \notin loose /\ \A q \in PackIds \ {p} : t \notin packObjects[q]}

\* A call deletes at most one pack: the first eligible one of its page.
SweepPack ==
  /\ run.phase = "packs"
  /\ ~Drifted
  /\ DoomedPacks # {}
  /\ LET doomed == MinOf(DoomedPacks)
         before == {p \in LowestPage(PAGE_ROWS, PackActions) : p < doomed}
     IN /\ packState' = [packState EXCEPT ![doomed] = "absent"]
        /\ packObjects' = [packObjects EXCEPT ![doomed] = {}]
        /\ packSince' = [Audited(before) EXCEPT ![doomed] = NoTime]
        /\ BumpGeneration(TRUE)
        /\ run' = [Swept(sourceGeneration') EXCEPT !.cursor = doomed]
        /\ projected' = ProjectionsMarked \ LastCopies(doomed)
  /\ UNCHANGED << loose, looseSince, marks >>

\* A page without a deletion: a full page moves the cursor, a short one ends
\* the pass and the run, unless a candidate that must not be one is left
\* (nextPackEligibility reports corruption).
AuditPacks ==
  /\ run.phase = "packs"
  /\ ~Drifted
  /\ DoomedPacks = {}
  /\ LET page == LowestPage(PAGE_ROWS, PackActions)
         eligible == {t \in {run.nextEligible, NextEligible(packSince', PackIds)} :
                        t # NoTime}
     IN /\ packSince' = Audited(page)
        /\ \/ Cardinality(page) = PAGE_ROWS
           \/ \A p \in PackIds : packSince'[p] # NoTime => Collectable(p)
        /\ run' = IF Cardinality(page) = PAGE_ROWS
                  THEN [run EXCEPT !.cursor = MaxOf(page)]
                  ELSE [run EXCEPT !.phase = "finish", !.cursor = 0,
                          !.nextEligible = IF eligible = {} THEN NoTime
                                           ELSE MinOf(eligible)]
  /\ UNCHANGED << loose, packState, packObjects, sourceGeneration, projected,
                  looseSince, marks >>

AdvanceMaintenance ==
  \/ StartRun \/ RestartRun \/ ResetRun \/ WaitForEligibility \/ RollOver
  \/ SnapshotRoots \/ ExpandMark \/ FinishMark
  \/ SweepLoose \/ FinishLoose \/ SweepPack \/ AuditPacks

\* maintainRepository: one call, one transaction.
Maintain ==
  /\ transfers' = CleanedTransfers
  /\ rootEpoch' = CleanedEpoch
  /\ AdvanceMaintenance
  /\ UNCHANGED << now, lastPackId, promised, rootRows, arrived >>

-----------------------------------------------------------------------------
Init ==
  /\ now = 0
  /\ loose = {}
  /\ packState = [p \in PackIds |-> "absent"]
  /\ packObjects = [p \in PackIds |-> {}]
  /\ lastPackId = 0
  /\ promised = {}
  /\ roots = [s \in RowSources |-> {}]
  /\ reflog = [o \in Objects |-> NoTime]
  /\ transfers = [t \in TransferIds |-> NoTransfer]
  /\ projected = {}
  /\ rootEpoch = 0
  /\ sourceGeneration = 0
  /\ run = NoRun
  /\ marked = {} /\ expanded = {} /\ boundary = {}
  /\ edgeCursor = [o \in Objects |-> 0]
  /\ looseSince = [o \in Objects |-> NoTime]
  /\ packSince = [p \in PackIds |-> NoTime]
  /\ arrived = [o \in Objects |-> 0]

ForegroundOf(batches, contents, targets, transferIds) ==
  \/ \E batch \in batches : WriteObjects(batch)
  \/ \E content \in contents : ReservePack(content)
  \/ \E pack \in PackIds, unresolved \in SUBSET Blobs : PublishPack(pack, unresolved)
  \/ \E pack \in PackIds : DiscardPack(pack)
  \/ \E put \in SUBSET targets["refs"], deleted \in SUBSET targets["refs"] :
       MutateRefs(put, deleted)
  \/ \E source \in RowSources \ {"refs", "shallow"} :
       \E put \in SUBSET targets[source], deleted \in SUBSET targets[source] :
         MutateRows(source, put, deleted)
  \/ \E add \in SUBSET targets["shallow"], remove \in SUBSET targets["shallow"] :
       UpdateShallow(add, remove)
  \/ \E t \in transferIds, o \in Objects : CreateTransfer(t, o)
  \/ \E t \in transferIds : RenewTransfer(t) \/ ReleaseTransfer(t)
  \/ \E tree \in Trees : ProjectTree(tree)

Foreground == ForegroundOf(Batches, PackContents, RootTargets, TransferIds)

Next ==
  \/ Foreground /\ CountersBounded
  \/ Tick
  \/ Maintain

Spec == Init /\ [][Next]_vars

-----------------------------------------------------------------------------
(***************************************************************************)
(* Properties                                                              *)
(***************************************************************************)
TimesOrNone == Nat \cup {NoTime}

RunType ==
  [phase : {"none", "roots", "mark", "loose", "packs", "finish"},
   source : 1 .. Done, cursor : Nat, epoch : Nat, generation : Nat,
   started : Nat, nextEligible : TimesOrNone, queued : Int, reachable : Int]

TransferType ==
  [state : {"absent", "live", "released"}, expires : Nat, root : Objects \cup {0}]

\* Every table holds what its schema allows, no pack has an id that was not
\* handed out, and a run that reads roots is inside the root source list.
TypeOK ==
  /\ now \in Nat
  /\ loose \subseteq Objects
  /\ packState \in [PackIds -> {"absent", "pending", "complete"}]
  /\ packObjects \in [PackIds -> SUBSET Objects]
  /\ lastPackId \in Nat
  /\ \A p \in PackIds : p > lastPackId => packState[p] = "absent"
  /\ promised \subseteq Blobs
  /\ roots \in [RowSources -> SUBSET Objects]
  /\ reflog \in [Objects -> TimesOrNone]
  /\ transfers \in [TransferIds -> TransferType]
  /\ projected \subseteq Trees
  /\ rootEpoch \in Nat
  /\ sourceGeneration \in Nat
  /\ run \in RunType
  /\ run.phase = "roots" => run.source < Done
  /\ marked \subseteq Objects
  /\ expanded \subseteq marked
  /\ boundary \subseteq marked
  /\ edgeCursor \in [Objects -> Nat]
  /\ looseSince \in [Objects -> TimesOrNone]
  /\ packSince \in [PackIds -> TimesOrNone]
  /\ arrived \in [Objects -> Nat]

\* The roots as the tables stand now.
LiveRoots ==
  UNION {roots[s] : s \in RowSources} \cup ReflogRoots(now) \cup TransferRoots(transfers)

\* Readable objects that the live roots reach.
Reachable ==
  Closure(LiveRoots \cap Readable,
          [o \in Objects |-> Edges(o, roots["shallow"]) \cap Readable])

\* No step of any transaction makes an object unreadable that a live root
\* reaches: a stale snapshot never authorizes a deletion
\* (sweep-loose.ts deleteLooseObjects, sweep-packs.ts deletePackStorage).
NoReachableLost == [][\A o \in Readable \ Readable' : o \notin Reachable]_vars

\* The stored graph is closed under what the code follows without looking: every
\* root row resolves, except index rows of gitlinks and of promised blobs
\* (validateObjectRoots would report corruption); a readable blob is not promised
\* any more (fulfillLoosePromises, addUnresolvedBlobs); a projected tree is
\* readable with its projected closure, since a sweep strips every unmarked
\* projection before it deletes storage.
StoreClosed ==
  /\ \A s \in RowSources : \A o \in roots[s] :
       o \in Readable \/ SkippedWhenAbsent(s, o)
  /\ ReflogRoots(now) \cup TransferRoots(transfers) \subseteq Readable
  /\ promised \cap Readable = {}
  /\ \A t \in projected : t \in Readable /\ Subtrees[t] \subseteq projected

\* An object that was written is not collected before its grace ended, even
\* when an older copy of it had been nominated (unreachable_since_ms goes away
\* with the row it belongs to).
GraceFromArrival ==
  [][\A o \in Readable \ Readable' : arrived[o] + GC_GRACE <= now]_vars

\* A foreign transaction changed roots or sources behind the run.
Stale == run.epoch # rootEpoch \/ run.generation # sourceGeneration

\* A run never observed a later repository than the one there is.
RunObserved ==
  /\ run.epoch <= rootEpoch
  /\ run.generation <= sourceGeneration
  /\ run.started <= now

\* Every readable root row that the run has passed is marked, and marked as a
\* boundary when it is a shallow row.
RootsMarked ==
  \A i \in 1 .. Done - 1 :
    \A o \in SourceRows(ROOT_SOURCES[i], run.started, transfers) \cap Readable :
      \/ run.phase # "roots"
      \/ i < run.source
      \/ i = run.source /\ o <= run.cursor
      => o \in marked /\ (ROOT_SOURCES[i] = "shallow" => o \in boundary)

\* Every readable edge that the run has passed leads to a marked object.
EdgesMarked ==
  \A o \in Objects : \A c \in Edges(o, boundary) \cap Readable :
    o \in expanded \/ c <= edgeCursor[o] => c \in marked

\* A run that nobody disturbed holds all it has read, across any number of
\* calls, and it sweeps only with an exhausted queue.
MarkSound ==
  (~Stale /\ run.phase \in {"roots", "mark", "loose", "packs"}) =>
    /\ RootsMarked
    /\ EdgesMarked
    /\ boundary \subseteq roots["shallow"]
    /\ run.phase = "roots" => expanded = {} /\ \A o \in Objects : edgeCursor[o] = 0
    /\ run.phase \in {"loose", "packs"} => expanded = marked

\* The pack pass is monotone: deleting a pack never turns a verdict that the
\* pass already gave, so its end finds no candidate that must not be one.
PackVerdictsStand ==
  (run.phase = "packs" /\ ~Stale) =>
    \A p \in PackIds : (p <= run.cursor /\ packSince[p] # NoTime) => Collectable(p)
=============================================================================
