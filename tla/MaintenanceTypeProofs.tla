----------------------- MODULE MaintenanceTypeProofs -----------------------
(* Type correctness of Maintenance, and what its pages and calls do to the *)
(* types of the run. *)
EXTENDS Maintenance, TLAPS

\* A step that names no prover is tried with each of these in turn.
USE SMT, ZenonT(60), SMTT(60)

(***************************************************************************)
(* The facts about the keyset helpers that the proofs use.  MaintenanceProofs *)
(* proves them, from the library's theorems on finite sets and well-founded   *)
(* relations.  Until there they are a hypothesis, so that the library is in   *)
(* the context of the proofs about pages only.                                *)
(***************************************************************************)
KeysetFacts ==
  /\ \A S \in SUBSET Nat :
       S # {} => MinOf(S) \in S /\ \A y \in S : MinOf(S) <= y
  /\ \A n \in Nat : \A S \in SUBSET (1 .. n) :
       /\ Cardinality(S) \in Nat
       /\ S # {} => MaxOf(S) \in S /\ \A y \in S : y <= MaxOf(S)
  /\ \A m \in Nat : \A S \in SUBSET (1 .. m) : \A n \in Nat \ {0} :
       /\ LowestPage(n, S) \subseteq S
       /\ \A x \in S, y \in LowestPage(n, S) : x <= y => x \in LowestPage(n, S)
       /\ S # {} => LowestPage(n, S) # {}
  /\ Cardinality({}) = 0

\* The least key of a set of rows.
LEMMA LeastKey ==
  ASSUME KeysetFacts, NEW S \in SUBSET Nat, S # {}
  PROVE  MinOf(S) \in S /\ \A y \in S : MinOf(S) <= y
BY DEF KeysetFacts

\* The greatest key of a page.
LEMMA GreatestKey ==
  ASSUME KeysetFacts, NEW n \in Nat, NEW S \in SUBSET (1 .. n), S # {}
  PROVE  MaxOf(S) \in S /\ \A y \in S : y <= MaxOf(S)
BY ZenonT(60) DEF KeysetFacts

\* A page holds the lowest keys of its rows.
LEMMA PagePrefix ==
  ASSUME KeysetFacts, NEW m \in Nat, NEW S \in SUBSET (1 .. m), NEW n \in Nat \ {0}
  PROVE  /\ LowestPage(n, S) \subseteq S
         /\ \A x \in S, y \in LowestPage(n, S) : x <= y => x \in LowestPage(n, S)
         /\ S # {} => LowestPage(n, S) # {}
BY ZenonT(60) DEF KeysetFacts

\* The number of root sources.
LEMMA DoneIs9 == Done = 9
BY DEF Done, ROOT_SOURCES

\* Sets of objects can be counted.
LEMMA ObjectsCounted ==
  ASSUME KeysetFacts, NEW S \in SUBSET Objects
  PROVE  Cardinality(S) \in Nat
BY ObjectsAssumption, ZenonT(60) DEF KeysetFacts, Objects

\* The closure lies inside every closed set that holds its start.
LEMMA ClosureLeast ==
  ASSUME NEW S, NEW E, NEW C \in SUBSET Objects, S \subseteq C,
         \A c \in C : E[c] \subseteq C
  PROVE  Closure(S, E) \subseteq C
BY DEF Closure

\* The closure of trees over their subtrees holds trees only.
LEMMA TreeClosure ==
  ASSUME NEW S \in SUBSET Trees
  PROVE  Closure(S, Subtrees) \subseteq Trees
<1>1. Trees \in SUBSET Objects /\ \A c \in Trees : Subtrees[c] \subseteq Trees
  BY DEF Subtrees, Trees
<1> QED
  BY <1>1, ClosureLeast

\* The initial state has its type.
LEMMA InitTypeOK == Init => TypeOK
BY ObjectsAssumption, IdsAssumption, DoneIs9
   DEF Init, TypeOK, RunType, NoRun, NoTransfer, TransferType, TimesOrNone, NoTime, Objects, PackIds

\* Foreground transactions keep the types.
LEMMA ForegroundTypeOK ==
  ASSUME TypeOK, Foreground
  PROVE  TypeOK'
<1> USE ObjectsAssumption, IdsAssumption, BoundsAssumption
<1> USE DEF TypeOK, storage, rootRows, marks, candidates, TimesOrNone, NoTime
<1>1. ASSUME NEW batch \in Batches, WriteObjects(batch)
      PROVE  TypeOK'
  <2>1. Closure((batch \ Readable) \cap Trees, Subtrees) \subseteq Trees
    BY TreeClosure
  <2>2. loose' \subseteq Objects /\ promised' \subseteq Blobs /\ projected' \subseteq Trees
    BY <1>1, <2>1, ZenonT(60) DEF WriteObjects, PromisesLeft
  <2>3. arrived' \in [Objects -> Nat]
    BY <1>1 DEF WriteObjects, RecordArrival
  <2>4. rootEpoch' \in Nat /\ sourceGeneration' \in Nat
    BY <1>1 DEF WriteObjects, BumpEpoch, BumpGeneration
  <2>5. UNCHANGED << now, packState, packObjects, lastPackId, roots, reflog,
                     transfers, run, marked, expanded, boundary, edgeCursor,
                     looseSince, packSince >>
    BY <1>1 DEF WriteObjects
  <2> QED
    BY <2>2, <2>3, <2>4, <2>5
<1>2. ASSUME NEW content \in PackContents, ReservePack(content)
      PROVE  TypeOK'
  BY <1>2 DEF ReservePack, PackIds
<1>3. ASSUME NEW pack \in PackIds, NEW unresolved \in SUBSET Blobs,
             PublishPack(pack, unresolved)
      PROVE  TypeOK'
  BY <1>3 DEF PublishPack, PromisesLeft, BumpEpoch, BumpGeneration, RecordArrival
<1>4. ASSUME NEW pack \in PackIds, DiscardPack(pack)
      PROVE  TypeOK'
  BY <1>4, ZenonT(60) DEF DiscardPack
<1>5. ASSUME NEW put \in SUBSET RootTargets["refs"],
             NEW deleted \in SUBSET RootTargets["refs"], MutateRefs(put, deleted)
      PROVE  TypeOK'
  BY <1>5 DEF MutateRefs, BumpEpoch, RowSources
<1>6. ASSUME NEW source \in RowSources \ {"refs", "shallow"},
             NEW put \in SUBSET RootTargets[source],
             NEW deleted \in SUBSET RootTargets[source],
             MutateRows(source, put, deleted)
      PROVE  TypeOK'
  BY <1>6 DEF MutateRows, BumpEpoch
<1>7. ASSUME NEW add \in SUBSET RootTargets["shallow"],
             NEW remove \in SUBSET RootTargets["shallow"], UpdateShallow(add, remove)
      PROVE  TypeOK'
  BY <1>7 DEF UpdateShallow, BumpEpoch, RowSources
<1>8. ASSUME NEW t \in TransferIds, NEW o \in Objects, CreateTransfer(t, o)
      PROVE  TypeOK'
  BY <1>8 DEF CreateTransfer, BumpEpoch, TransferType
<1>9. ASSUME NEW t \in TransferIds, RenewTransfer(t) \/ ReleaseTransfer(t)
      PROVE  TypeOK'
  <2>1. transfers[t] \in TransferType
    OBVIOUS
  <2>2. CASE RenewTransfer(t)
    <3>1. [transfers[t] EXCEPT !.expires = now + TRANSFER_TTL] \in TransferType
      BY <2>1 DEF TransferType
    <3> QED
      BY <2>2, <3>1 DEF RenewTransfer
  <2>3. CASE ReleaseTransfer(t)
    <3>1. [transfers[t] EXCEPT !.state = "released"] \in TransferType
      BY <2>1, ZenonT(60) DEF TransferType
    <3> QED
      BY <2>3, <3>1 DEF ReleaseTransfer, BumpEpoch
  <2> QED
    BY <1>9, <2>2, <2>3
<1>10. ASSUME NEW tree \in Trees, ProjectTree(tree)
      PROVE  TypeOK'
  <2>1. Closure({tree}, Subtrees) \subseteq Trees
    BY <1>10, TreeClosure
  <2> QED
    BY <1>10, <2>1, ZenonT(60) DEF ProjectTree
<1> QED
  BY <1>1, <1>2, <1>3, <1>4, <1>5, <1>6, <1>7, <1>8, <1>9, <1>10, ZenonT(60) DEF Foreground, ForegroundOf

-----------------------------------------------------------------------------
LEMMA RootSourceNames ==
  /\ \A i \in 1 .. Done - 1 :
       ROOT_SOURCES[i] \in RowSources \cup {"reflogs", "transfers"}
  /\ \A s \in RowSources \cup {"reflogs", "transfers"} :
       \E i \in 1 .. Done - 1 : ROOT_SOURCES[i] = s
<1>1. Done - 1 = 8
  BY DoneIs9
<1>2. /\ ROOT_SOURCES[1] = "refs" /\ ROOT_SOURCES[2] = "heads"
      /\ ROOT_SOURCES[3] = "reflogs" /\ ROOT_SOURCES[4] = "index"
      /\ ROOT_SOURCES[5] = "index-baseline" /\ ROOT_SOURCES[6] = "shallow"
      /\ ROOT_SOURCES[7] = "operations" /\ ROOT_SOURCES[8] = "transfers"
  BY DEF ROOT_SOURCES
<1>3. \A i \in 1 .. 8 : \/ i = 1 \/ i = 2 \/ i = 3 \/ i = 4
                        \/ i = 5 \/ i = 6 \/ i = 7 \/ i = 8
  OBVIOUS
<1>4. \A i \in 1 .. 8 : ROOT_SOURCES[i] \in RowSources \cup {"reflogs", "transfers"}
  BY <1>2, <1>3 DEF RowSources
<1>5. \A s \in RowSources \cup {"reflogs", "transfers"} :
        \E i \in 1 .. 8 : ROOT_SOURCES[i] = s
  BY <1>2 DEF RowSources
<1> QED
  BY <1>1, <1>4, <1>5

\* cleanupTransfers keeps the table typed, never adds a root, and bumps the
\* epoch when it releases.
LEMMA Cleanup ==
  ASSUME TypeOK
  PROVE  /\ CleanedTransfers \in [TransferIds -> TransferType]
         /\ CleanedEpoch \in Nat
         /\ rootEpoch <= CleanedEpoch
         /\ TransferRoots(CleanedTransfers) \subseteq TransferRoots(transfers)
<1> DEFINE e == FirstToExpire(ExpiredTransfers)
           d == FirstToExpire(ReleasedTransfers)
<1>1. /\ transfers \in [TransferIds -> TransferType]
      /\ rootEpoch \in Nat
  BY DEF TypeOK
<1>2. \A t \in TransferIds : [transfers[t] EXCEPT !.state = "released"] \in TransferType
  BY <1>1 DEF TransferType
<1>3. \A t \in TransferIds : [transfers[t] EXCEPT !.state = "released"].state = "released"
  BY <1>1 DEF TransferType
<1>4. NoTransfer \in TransferType /\ NoTransfer.state = "absent"
  BY DEF NoTransfer, TransferType
<1>5. CASE ExpiredTransfers # {}
  <2>1. CleanedTransfers = [transfers EXCEPT ![e] = [@ EXCEPT !.state = "released"]]
    BY <1>5, ZenonT(60) DEF CleanedTransfers
  <2> HIDE DEF e
  <2>2. \A t \in TransferIds : t # e => CleanedTransfers[t] = transfers[t]
    BY <1>1, <2>1
  <2>3. e \in TransferIds => CleanedTransfers[e].state = "released"
    BY <1>1, <1>3, <2>1
  <2>4. TransferRoots(CleanedTransfers) \subseteq TransferRoots(transfers)
    BY <2>2, <2>3 DEF TransferRoots
  <2>5. CleanedTransfers \in [TransferIds -> TransferType]
    BY <1>1, <1>2, <2>1, ZenonT(60)
  <2> QED
    BY <1>1, <1>5, <2>4, <2>5 DEF CleanedEpoch
<1>6. CASE ExpiredTransfers = {} /\ ReleasedTransfers # {}
  <2>1. CleanedTransfers = [transfers EXCEPT ![d] = NoTransfer]
    BY <1>6 DEF CleanedTransfers
  <2> HIDE DEF d
  <2>2. \A t \in TransferIds : t # d => CleanedTransfers[t] = transfers[t]
    BY <1>1, <2>1
  <2>3. d \in TransferIds => CleanedTransfers[d].state = "absent"
    BY <1>1, <1>4, <2>1
  <2>4. TransferRoots(CleanedTransfers) \subseteq TransferRoots(transfers)
    BY <2>2, <2>3 DEF TransferRoots
  <2>5. CleanedTransfers \in [TransferIds -> TransferType]
    BY <1>1, <1>4, <2>1, ZenonT(60)
  <2> QED
    BY <1>1, <1>6, <2>4, <2>5 DEF CleanedEpoch
<1>7. CASE ExpiredTransfers = {} /\ ReleasedTransfers = {}
  BY <1>1, <1>7 DEF CleanedTransfers, CleanedEpoch
<1> QED
  BY <1>5, <1>6, <1>7

\* The rows of every root source are objects.
LEMMA SourceRowsAreObjects ==
  ASSUME TypeOK, NEW i \in 1 .. Done - 1, NEW started \in Nat
  PROVE  \A o \in SourceRows(ROOT_SOURCES[i], started, CleanedTransfers) :
           o \in Objects \cup {0}
<1>1. ReflogRoots(started) \subseteq Objects
  BY DEF ReflogRoots
<1>2. \A o \in TransferRoots(CleanedTransfers) : o \in Objects \cup {0}
  BY Cleanup DEF TransferRoots, TransferType
<1>3. \A s \in RowSources : roots[s] \subseteq Objects
  BY DEF TypeOK
<1> QED
  BY <1>1, <1>2, <1>3, RootSourceNames DEF SourceRows

\* What one root page does to the run and its marks.
LEMMA RootPageTyped ==
  ASSUME KeysetFacts, TypeOK, NEW r \in RunType, r.phase = "roots", r.source < Done,
         NEW held \in SUBSET Objects, NEW cut \in SUBSET held,
         RootPage(r, held, cut)
  PROVE  /\ run' \in RunType
         /\ run'.phase = "roots" => run'.source < Done
         /\ marked' \subseteq Objects
         /\ expanded' \subseteq marked'
         /\ boundary' \subseteq marked'
         /\ edgeCursor' \in [Objects -> Nat]
<1> DEFINE source == ROOT_SOURCES[r.source]
           rest == {o \in SourceRows(source, r.started, CleanedTransfers) : o > r.cursor}
           page == LowestPage(PAGE_ROWS, rest)
<1>1. /\ r.source \in 1 .. Done - 1 /\ r.source \in Nat /\ r.started \in Nat
      /\ r.cursor \in Nat
  BY DoneIs9 DEF RunType
<1>2. rest \in SUBSET Objects
  BY <1>1, SourceRowsAreObjects DEF Objects
<1>3. page \subseteq rest /\ (rest # {} => page # {})
  <2> HIDE DEF rest
  <2> QED
    BY <1>2, PagePrefix, ObjectsAssumption, BoundsAssumption, ZenonT(60) DEF Objects
<1>4. page # rest => MaxOf(page) \in Nat
  <2> HIDE DEF page, rest
  <2>1. page \in SUBSET (1 .. MaxObject) /\ MaxObject \in Nat
    BY <1>2, <1>3, ObjectsAssumption DEF Objects
  <2>2. page # {} => MaxOf(page) \in page
    BY <2>1, GreatestKey, ZenonT(60)
  <2>3. page # rest => page # {}
    BY <1>3
  <2>4. page # rest => MaxOf(page) \in 1 .. MaxObject
    BY <2>1, <2>2, <2>3, ZenonT(60)
  <2> QED
    BY <2>1, <2>4
<1>5. /\ marked' = held \cup (page \cap Readable)
      /\ boundary' = IF source = "shallow" THEN cut \cup (page \cap Readable) ELSE cut
      /\ expanded' = {}
      /\ edgeCursor' = [o \in Objects |-> 0]
      /\ run' = IF page # rest THEN [r EXCEPT !.cursor = MaxOf(page)]
                ELSE IF r.source + 1 # Done
                THEN [r EXCEPT !.source = r.source + 1, !.cursor = 0]
                ELSE [r EXCEPT !.phase = "mark", !.source = Done, !.cursor = 0,
                               !.queued = Cardinality(marked')]
  BY DEF RootPage
<1> HIDE DEF page, rest, source
<1>6. marked' \in SUBSET Objects /\ Cardinality(marked') \in Int
  BY <1>2, <1>3, <1>5, ObjectsCounted
<1>7. run' \in RunType /\ (run'.phase = "roots" => run'.source < Done)
  <2>1. CASE page # rest
    <3>1. run' = [r EXCEPT !.cursor = MaxOf(page)]
      BY <1>5, <2>1
    <3> QED
      BY <1>4, <2>1, <3>1 DEF RunType
  <2>2. CASE page = rest /\ r.source + 1 # Done
    <3>1. run' = [r EXCEPT !.source = r.source + 1, !.cursor = 0]
      BY <1>5, <2>2
    <3>2. r.source + 1 \in 1 .. Done /\ r.source + 1 < Done
      BY <1>1, <2>2, DoneIs9
    <3>3. run' \in RunType
      BY <3>1, <3>2, ZenonT(60) DEF RunType
    <3>4. run'.source = r.source + 1
      BY <3>1 DEF RunType
    <3> QED
      BY <3>2, <3>3, <3>4
  <2>3. CASE page = rest /\ r.source + 1 = Done
    <3>1. run' = [r EXCEPT !.phase = "mark", !.source = Done, !.cursor = 0,
                           !.queued = Cardinality(marked')]
      BY <1>5, <2>3
    <3>2. Done \in 1 .. Done
      BY DoneIs9
    <3>3. run' \in RunType
      BY <1>6, <3>1, <3>2, ZenonT(60) DEF RunType
    <3>4. run'.phase = "mark"
      BY <3>1 DEF RunType
    <3> QED
      BY <3>3, <3>4
  <2> QED
    BY <2>1, <2>2, <2>3
<1> QED
  BY <1>5, <1>6, <1>7

\* The parts of TypeOK that a slice decides: the run with its marks, and what
\* it sweeps.
RunTyped ==
  /\ run \in RunType
  /\ run.phase = "roots" => run.source < Done
  /\ marked \subseteq Objects
  /\ expanded \subseteq marked
  /\ boundary \subseteq marked
  /\ edgeCursor \in [Objects -> Nat]

SweptTyped ==
  /\ loose \subseteq Objects
  /\ packState \in [PackIds -> {"absent", "pending", "complete"}]
  /\ packObjects \in [PackIds -> SUBSET Objects]
  /\ \A p \in PackIds : p > lastPackId => packState[p] = "absent"
  /\ projected \subseteq Trees
  /\ sourceGeneration \in Nat
  /\ looseSince \in [Objects -> TimesOrNone]
  /\ packSince \in [PackIds -> TimesOrNone]

\* A run that starts has its type.
LEMMA FreshRunTyped ==
  ASSUME TypeOK
  PROVE  /\ FreshRun \in RunType /\ FreshRun.phase = "roots" /\ FreshRun.source = 1
         /\ RestartedRun \in RunType /\ RestartedRun.phase = "roots"
         /\ RestartedRun.source = 1
<1>1. CleanedEpoch \in Nat /\ sourceGeneration \in Nat /\ now \in Nat /\ run.started \in Nat
  BY Cleanup DEF TypeOK, RunType
<1>2. 1 \in 1 .. Done
  BY DoneIs9
<1>3. NoRun \in RunType
  BY <1>2 DEF NoRun, RunType, TimesOrNone
<1>4. FreshRun \in RunType /\ FreshRun.phase = "roots" /\ FreshRun.source = 1
  <2>1. NoRun.source = 1
    BY DEF NoRun
  <2> QED
    BY <1>1, <1>3, <2>1, ZenonT(60) DEF FreshRun, RunType
<1> QED
  BY <1>1, <1>4 DEF RestartedRun, RunType

\* Discovery keeps the types.
LEMMA DiscoveryTyped ==
  ASSUME KeysetFacts, TypeOK,
         StartRun \/ RestartRun \/ ResetRun \/ WaitForEligibility \/ RollOver
           \/ SnapshotRoots \/ FinishMark
  PROVE  RunTyped'
<1>1. CASE StartRun
  <2>1. /\ FreshRun \in RunType /\ FreshRun.phase = "roots" /\ FreshRun.source < Done
        /\ {} \in SUBSET Objects
    BY FreshRunTyped, DoneIs9
  <2>2. RootPage(FreshRun, {}, {})
    BY <1>1 DEF StartRun
  <2> QED
    BY <2>1, <2>2, RootPageTyped DEF RunTyped
<1>2. CASE RestartRun
  <2>1. /\ RestartedRun \in RunType /\ RestartedRun.phase = "roots" /\ RestartedRun.source < Done
        /\ {} \in SUBSET Objects
    BY FreshRunTyped, DoneIs9
  <2>2. RootPage(RestartedRun, {}, {})
    BY <1>2 DEF RestartRun
  <2> QED
    BY <2>1, <2>2, RootPageTyped DEF RunTyped
<1>3. CASE SnapshotRoots
  <2>1. run \in RunType /\ run.phase = "roots" /\ run.source < Done
        /\ marked \in SUBSET Objects /\ boundary \in SUBSET marked
    BY <1>3 DEF SnapshotRoots, TypeOK
  <2> QED
    BY <1>3, <2>1, RootPageTyped, ZenonT(60) DEF SnapshotRoots, RunTyped
<1>4. CASE ResetRun
  BY <1>4, FreshRunTyped, DoneIs9 DEF ResetRun, ClearMarks, RunTyped
<1>5. CASE RollOver
  BY <1>5, FreshRunTyped, DoneIs9 DEF RollOver, ClearMarks, RunTyped
<1>6. CASE WaitForEligibility
  BY <1>6 DEF WaitForEligibility, marks, RunTyped, TypeOK
<1>7. CASE FinishMark
  BY <1>7 DEF FinishMark, marks, RunTyped, TypeOK, RunType
<1> QED
  BY <1>1, <1>2, <1>3, <1>4, <1>5, <1>6, <1>7

\* Expanding marks keeps the types.
LEMMA ExpandMarkTyped ==
  ASSUME KeysetFacts, TypeOK, ExpandMark
  PROVE  RunTyped'
<1> DEFINE o == MinOf(Queue)
           rest == {c \in Edges(o, boundary) : c > edgeCursor[o]}
           page == LowestPage(EDGE_PAGE, rest)
           found == page \cap Readable
           discovered == Cardinality(found \ marked)
<1>1. o \in Queue /\ o \in Objects
  <2>1. Queue \in SUBSET Objects /\ Queue \in SUBSET Nat /\ Queue # {}
    BY DEF ExpandMark, Queue, TypeOK, Objects
  <2> QED
    BY <2>1, LeastKey, ZenonT(60)
<1>2. rest \in SUBSET (1 .. MaxObject) /\ MaxObject \in Nat
  BY <1>1, ObjectsAssumption DEF Edges, Objects
<1>3. page \subseteq rest
  <2> HIDE DEF rest
  <2> QED
    BY <1>2, PagePrefix, BoundsAssumption, ZenonT(60)
<1>4. page # {} => MaxOf(page) \in Nat
  <2> HIDE DEF page, rest
  <2>1. page \in SUBSET (1 .. MaxObject)
    BY <1>2, <1>3
  <2>2. page # {} => MaxOf(page) \in 1 .. MaxObject
    BY <1>2, <2>1, GreatestKey, ZenonT(60)
  <2> QED
    BY <1>2, <2>2
<1>5. /\ marked' = marked \cup found
      /\ expanded' = IF page = rest THEN expanded \cup {o} ELSE expanded
      /\ edgeCursor' = [edgeCursor EXCEPT ![o] = IF page = {} THEN @ ELSE MaxOf(page)]
      /\ run' = [run EXCEPT
                   !.queued = @ + discovered - (IF page = rest THEN 1 ELSE 0),
                   !.reachable = CountedReachable + discovered]
      /\ boundary' = boundary
      /\ run.phase = "mark"
  BY DEF ExpandMark
<1> HIDE DEF rest, page, o
<1>6. found \subseteq Objects /\ discovered \in Int
  <2>1. found \ marked \in SUBSET Objects
    BY <1>2, <1>3, ZenonT(60) DEF Objects
  <2> HIDE DEF found
  <2>2. discovered \in Int
    BY <2>1, ObjectsCounted
  <2>3. found \subseteq Objects
    BY <1>2, <1>3, ZenonT(60) DEF Objects, found
  <2> HIDE DEF discovered
  <2> QED
    BY <2>2, <2>3
<1> HIDE DEF discovered, found
<1>7. run' \in RunType /\ run'.phase = "mark"
  <2>1. run.queued \in Int /\ CountedReachable \in Int
    BY DEF CountedReachable, TypeOK, RunType
  <2>2. /\ run.queued + discovered - (IF page = rest THEN 1 ELSE 0) \in Int
        /\ CountedReachable + discovered \in Int
    BY <1>6, <2>1
  <2> QED
    BY <1>5, <2>2, ZenonT(60) DEF TypeOK, RunType
<1>8. edgeCursor' \in [Objects -> Nat]
  BY <1>4, <1>5, ZenonT(60) DEF TypeOK
<1>9. marked' \subseteq Objects /\ expanded' \subseteq marked' /\ boundary' \subseteq marked'
  BY <1>1, <1>5, <1>6 DEF Queue, TypeOK
<1> QED
  BY <1>7, <1>8, <1>9 DEF RunTyped

\* The next time a run may start has its type.
LEMMA NextEligibleTyped ==
  ASSUME KeysetFacts, NEW ids, NEW since \in [ids -> TimesOrNone]
  PROVE  NextEligible(since, ids) \in TimesOrNone
<1> DEFINE listed == {since[i] : i \in {j \in ids : since[j] # NoTime}}
<1>1. listed \in SUBSET Nat
  BY DEF TimesOrNone
<1>2. NextEligible(since, ids) = IF listed = {} THEN NoTime ELSE EligibleAt(MinOf(listed))
  BY DEF NextEligible
<1> HIDE DEF listed
<1>3. listed # {} => MinOf(listed) \in Nat
  BY <1>1, LeastKey, ZenonT(60)
<1>4. listed # {} => EligibleAt(MinOf(listed)) \in Nat
  BY <1>3, BoundsAssumption DEF EligibleAt
<1> QED
  BY <1>2, <1>4 DEF TimesOrNone

\* The sweep of loose objects keeps the types.
LEMMA SweepLooseTyped ==
  ASSUME KeysetFacts, TypeOK, SweepLoose, UNCHANGED lastPackId
  PROVE  RunTyped' /\ SweptTyped'
<1> DEFINE page == LowestPage(PAGE_ROWS, LooseActions)
<1>1. LooseActions \in SUBSET (1 .. MaxObject) /\ MaxObject \in Nat /\ LooseActions # {}
  BY ObjectsAssumption DEF LooseActions, TypeOK, Objects, SweepLoose
<1>2. page \in SUBSET (1 .. MaxObject) /\ page # {}
  BY <1>1, PagePrefix, BoundsAssumption, ZenonT(60)
<1>3. MaxOf(page) \in Nat
  <2> HIDE DEF page
  <2>1. MaxOf(page) \in 1 .. MaxObject
    BY <1>1, <1>2, GreatestKey, ZenonT(60)
  <2> QED
    BY <1>1, <2>1
<1>4. sourceGeneration' \in Nat
  BY DEF SweepLoose, BumpGeneration, TypeOK
<1>5. run' \in RunType /\ run'.phase = "loose"
  <2>1. run' = [Swept(sourceGeneration') EXCEPT !.cursor = MaxOf(page)] /\ run.phase = "loose"
    BY DEF SweepLoose
  <2> HIDE DEF page
  <2> QED
    BY <1>3, <1>4, <2>1, ZenonT(60) DEF Swept, TypeOK, RunType
<1>6. looseSince' \in [Objects -> TimesOrNone]
  BY DEF SweepLoose, LooseCandidates, TypeOK, TimesOrNone
<1>7. loose' \subseteq Objects /\ projected' \subseteq Trees
  BY DEF SweepLoose, ProjectionsMarked, TypeOK
<1>8. UNCHANGED << packState, packObjects, packSince, marked, expanded, boundary, edgeCursor >>
  BY DEF SweepLoose, marks
<1> QED
  BY <1>4, <1>5, <1>6, <1>7, <1>8, ZenonT(60) DEF RunTyped, SweptTyped, TypeOK

\* A page of packs has its type.
LEMMA PackPageTyped ==
  ASSUME KeysetFacts, TypeOK
  PROVE  /\ PackActions \in SUBSET (1 .. MaxPack)
         /\ LowestPage(PAGE_ROWS, PackActions) \in SUBSET (1 .. MaxPack)
         /\ MaxPack \in Nat
<1>1. PackActions \in SUBSET (1 .. MaxPack) /\ MaxPack \in Nat
  BY IdsAssumption DEF PackActions, PackIds
<1> QED
  BY <1>1, PagePrefix, BoundsAssumption, ZenonT(60)

\* What the audit of a pack records has its type.
LEMMA AuditedTyped ==
  ASSUME TypeOK, NEW examined
  PROVE  Audited(examined) \in [PackIds -> TimesOrNone]
BY DEF Audited, TypeOK, TimesOrNone

\* The sweep of packs keeps the types.
LEMMA SweepPackTyped ==
  ASSUME KeysetFacts, TypeOK, SweepPack, UNCHANGED lastPackId
  PROVE  RunTyped' /\ SweptTyped'
<1> DEFINE doomed == MinOf(DoomedPacks)
           before == {p \in LowestPage(PAGE_ROWS, PackActions) : p < doomed}
<1>1. doomed \in DoomedPacks /\ doomed \in PackIds /\ doomed \in Nat
  <2>1. DoomedPacks \in SUBSET PackIds /\ DoomedPacks \in SUBSET Nat /\ DoomedPacks # {}
    BY PackPageTyped DEF DoomedPacks, PackIds, SweepPack
  <2> QED
    BY <2>1, LeastKey, ZenonT(60)
<1>2. /\ packState' = [packState EXCEPT ![doomed] = "absent"]
      /\ packObjects' = [packObjects EXCEPT ![doomed] = {}]
      /\ packSince' = [Audited(before) EXCEPT ![doomed] = NoTime]
      /\ sourceGeneration' = sourceGeneration + 1
      /\ run' = [Swept(sourceGeneration') EXCEPT !.cursor = doomed]
      /\ projected' \subseteq projected
      /\ run.phase = "packs"
      /\ UNCHANGED << loose, looseSince, marked, expanded, boundary, edgeCursor >>
  BY DEF SweepPack, ProjectionsMarked, BumpGeneration, marks
<1> HIDE DEF doomed, before
<1>3. packSince' \in [PackIds -> TimesOrNone]
  BY <1>2, AuditedTyped, ZenonT(60) DEF TimesOrNone
<1>4. sourceGeneration' \in Nat
  BY <1>2 DEF TypeOK
<1>5. run' \in RunType /\ run'.phase = "packs"
  BY <1>1, <1>2, <1>4, ZenonT(60) DEF Swept, TypeOK, RunType
<1> QED
  BY <1>2, <1>3, <1>4, <1>5 DEF RunTyped, SweptTyped, TypeOK

\* The audit of packs keeps the types.
LEMMA AuditPacksTyped ==
  ASSUME KeysetFacts, TypeOK, AuditPacks, UNCHANGED lastPackId
  PROVE  RunTyped' /\ SweptTyped'
<1> DEFINE page == LowestPage(PAGE_ROWS, PackActions)
           eligible == {t \in {run.nextEligible, NextEligible(packSince', PackIds)} :
                          t # NoTime}
<1>1. /\ packSince' = Audited(page)
      /\ run' = IF Cardinality(page) = PAGE_ROWS
                THEN [run EXCEPT !.cursor = MaxOf(page)]
                ELSE [run EXCEPT !.phase = "finish", !.cursor = 0,
                        !.nextEligible = IF eligible = {} THEN NoTime
                                         ELSE MinOf(eligible)]
      /\ run.phase = "packs"
      /\ UNCHANGED << loose, packState, packObjects, sourceGeneration, projected,
                      looseSince, marked, expanded, boundary, edgeCursor >>
  BY DEF AuditPacks, marks
<1>2. packSince' \in [PackIds -> TimesOrNone]
  BY <1>1, AuditedTyped
<1>3. Cardinality(page) = PAGE_ROWS => MaxOf(page) \in Nat
  <2>1. page \in SUBSET (1 .. MaxPack) /\ MaxPack \in Nat
    BY PackPageTyped
  <2> HIDE DEF page
  <2>2. Cardinality(page) = PAGE_ROWS => page # {}
    BY BoundsAssumption DEF KeysetFacts
  <2>3. page # {} => MaxOf(page) \in 1 .. MaxPack
    BY <2>1, GreatestKey, ZenonT(60)
  <2> QED
    BY <2>1, <2>2, <2>3
<1>4. (IF eligible = {} THEN NoTime ELSE MinOf(eligible)) \in TimesOrNone
  <2>1. eligible \in SUBSET Nat
    BY <1>2, NextEligibleTyped DEF TypeOK, RunType, TimesOrNone
  <2> HIDE DEF eligible
  <2>2. eligible # {} => MinOf(eligible) \in Nat
    BY <2>1, LeastKey, ZenonT(60)
  <2> QED
    BY <2>2 DEF TimesOrNone
<1> HIDE DEF page, eligible
<1>5. run' \in RunType /\ run'.phase # "roots"
  BY <1>1, <1>3, <1>4, ZenonT(60) DEF TypeOK, RunType
<1> QED
  BY <1>1, <1>2, <1>5 DEF RunTyped, SweptTyped, TypeOK

\* Every call of maintenance keeps the types.
LEMMA MaintainTypeOK ==
  ASSUME KeysetFacts, TypeOK, Maintain
  PROVE  TypeOK'
<1>1. RunTyped' /\ SweptTyped'
  <2>1. NothingSwept => SweptTyped'
    BY DEF Maintain, NothingSwept, candidates, SweptTyped, TypeOK
  <2>2. CASE StartRun \/ RestartRun \/ ResetRun \/ WaitForEligibility \/ RollOver
               \/ SnapshotRoots \/ FinishMark
    BY <2>1, <2>2, DiscoveryTyped
       DEF StartRun, RestartRun, ResetRun, WaitForEligibility, RollOver,
           SnapshotRoots, FinishMark
  <2>3. CASE ExpandMark
    BY <2>1, <2>3, ExpandMarkTyped DEF ExpandMark
  <2>4. CASE FinishLoose
    <3>1. NextEligible(looseSince, Objects) \in TimesOrNone
      BY NextEligibleTyped DEF TypeOK
    <3>2. run' \in RunType /\ run'.phase = "packs"
      BY <2>4, <3>1, ZenonT(60) DEF FinishLoose, TypeOK, RunType
    <3> QED
      BY <2>1, <2>4, <3>2, ZenonT(60) DEF FinishLoose, marks, RunTyped, TypeOK
  <2> QED
    BY <2>2, <2>3, <2>4, SweepLooseTyped, SweepPackTyped, AuditPacksTyped, ZenonT(60)
       DEF Maintain, AdvanceMaintenance
<1>2. transfers' \in [TransferIds -> TransferType] /\ rootEpoch' \in Nat
  BY Cleanup DEF Maintain
<1>3. UNCHANGED << now, lastPackId, promised, roots, reflog, arrived >>
  BY DEF Maintain, rootRows
<1> QED
  BY <1>1, <1>2, <1>3 DEF RunTyped, SweptTyped, TypeOK

\* Every step keeps the types.
LEMMA NextTypeOK == KeysetFacts /\ TypeOK /\ [Next]_vars => TypeOK'
<1> SUFFICES ASSUME KeysetFacts, TypeOK, [Next]_vars PROVE TypeOK'
  BY ZenonT(60)
<1>1. CASE Tick
  BY <1>1 DEF Tick, storage, rootRows, marks, candidates, TypeOK
<1>2. CASE UNCHANGED vars
  BY <1>2 DEF vars, TypeOK
<1> QED
  BY <1>1, <1>2, ForegroundTypeOK, MaintainTypeOK DEF Next

-----------------------------------------------------------------------------
LEMMA SameStorage ==
  ASSUME UNCHANGED << loose, packState, packObjects >>
  PROVE  Readable' = Readable
BY DEF Readable, PacksWith, CompletePacks

\* The stored graph stays closed.  The closure that a projection enters is
\* closed under subtrees.
LEMMA ClosureClosed ==
  ASSUME NEW S \in SUBSET Trees
  PROVE  \A t \in Closure(S, Subtrees) : Subtrees[t] \subseteq Closure(S, Subtrees)
<1>1. \A t \in Objects : Subtrees[t] \subseteq Objects
  BY ObjectsAssumption DEF Subtrees, Trees
<1> QED
  BY <1>1 DEF Closure

\* A transaction that only adds to storage keeps what was closed: a promise is
\* dropped when its blob is there.
RowsResolve ==
  \A s \in RowSources : \A o \in roots[s] : o \in Readable \/ SkippedWhenAbsent(s, o)
ProjectionsClosed == \A t \in projected : t \in Readable /\ Subtrees[t] \subseteq projected

\* What is stored stays stored when storage grows.
LEMMA GrowingKeepsRows ==
  ASSUME RowsResolve, Readable \subseteq Readable', promised \subseteq promised' \cup Readable',
         NEW s \in RowSources, NEW o \in roots[s]
  PROVE  o \in Readable' \/ SkippedWhenAbsent(s, o)'
BY DEF RowsResolve, SkippedWhenAbsent

\* What the reflog and the live transfers root changes only with their rows.
LEMMA RootsStay ==
  ASSUME UNCHANGED << now, reflog, transfers >>
  PROVE  /\ ReflogRoots(now)' = ReflogRoots(now)
         /\ TransferRoots(transfers)' = TransferRoots(transfers)
  BY DEF ReflogRoots, TransferRoots

\* Writing objects keeps the store closed.
LEMMA WriteKeepsClosed ==
  ASSUME TypeOK, StoreClosed, NEW batch \in Batches, WriteObjects(batch)
  PROVE  StoreClosed'
<1> DEFINE fresh == batch \ Readable
           closure == Closure(fresh \cap Trees, Subtrees)
<1>1. batch \subseteq Objects
  BY IdsAssumption
<1>2. /\ loose' = loose \cup fresh /\ promised' = promised \ batch /\ projected' = projected \cup closure
      /\ closure \subseteq Readable \cup fresh
      /\ UNCHANGED << now, packState, packObjects, roots, reflog, transfers >>
  BY ZenonT(60) DEF WriteObjects, PromisesLeft, rootRows
<1>3. Readable' = Readable \cup batch
  BY <1>1, <1>2, ZenonT(60) DEF Readable, PacksWith, CompletePacks
<1>4. \A t \in closure : t \in Readable' /\ Subtrees[t] \subseteq closure
  BY <1>2, <1>3, ClosureClosed, ZenonT(60)
<1> HIDE DEF fresh, closure
<1>5. RowsResolve'
  BY <1>2, <1>3, GrowingKeepsRows, ZenonT(60) DEF StoreClosed, RowsResolve
<1>6. ProjectionsClosed'
  BY <1>2, <1>3, <1>4, ZenonT(60) DEF StoreClosed, ProjectionsClosed
<1>7. ReflogRoots(now)' \cup TransferRoots(transfers)' \subseteq Readable'
  BY <1>2, <1>3, RootsStay, ZenonT(60) DEF StoreClosed
<1> QED
  BY <1>2, <1>3, <1>5, <1>6, <1>7, ZenonT(60) DEF StoreClosed, RowsResolve, ProjectionsClosed

\* Publishing a pack keeps the store closed.
LEMMA PublishKeepsClosed ==
  ASSUME TypeOK, StoreClosed, NEW pack \in PackIds, NEW unresolved \in SUBSET Blobs,
         PublishPack(pack, unresolved)
  PROVE  StoreClosed'
<1> DEFINE new == packObjects[pack]
<1>1. new \subseteq Objects
  BY ZenonT(60) DEF TypeOK
<1>2. /\ packState' = [packState EXCEPT ![pack] = "complete"]
      /\ promised' = (promised \ new) \cup (unresolved \ (Readable \cup new))
      /\ UNCHANGED << now, loose, packObjects, roots, reflog, transfers, projected >>
  BY ZenonT(60) DEF PublishPack, PromisesLeft, rootRows
<1>3. \A p \in PackIds : packState'[p] = IF p = pack THEN "complete" ELSE packState[p]
  BY <1>2 DEF TypeOK
<1>4. Readable' = Readable \cup new
  BY <1>1, <1>2, <1>3, ZenonT(60) DEF Readable, PacksWith, CompletePacks
<1> HIDE DEF new
<1>5. RowsResolve'
  BY <1>2, <1>4, GrowingKeepsRows, ZenonT(60) DEF StoreClosed, RowsResolve
<1>6. ReflogRoots(now)' \cup TransferRoots(transfers)' \subseteq Readable'
  BY <1>2, <1>4, RootsStay, ZenonT(60) DEF StoreClosed
<1> QED
  BY <1>2, <1>4, <1>5, <1>6, ZenonT(60) DEF StoreClosed, RowsResolve

\* A reserved or discarded pack changes nothing that can be read.
LEMMA ReservedOrDiscarded ==
  ASSUME TypeOK, (\E content \in PackContents : ReservePack(content))
                   \/ (\E pack \in PackIds : DiscardPack(pack))
  PROVE  /\ Readable' = Readable
         /\ UNCHANGED << now, promised, roots, reflog, transfers, projected >>
<1>1. /\ \A p \in PackIds : /\ packState[p] = "complete" <=> packState'[p] = "complete"
                            /\ packState[p] = "complete" => packObjects'[p] = packObjects[p]
      /\ UNCHANGED << now, loose, promised, roots, reflog, transfers, projected >>
  <2>1. ASSUME NEW content \in PackContents, ReservePack(content)
        PROVE  <1>1!:
    <3>1. lastPackId + 1 \in PackIds /\ packState[lastPackId + 1] = "absent"
      <4>1. lastPackId + 1 \in PackIds
        BY <2>1, ZenonT(60) DEF ReservePack
      <4>2. lastPackId \in Nat /\ \A p \in PackIds : p > lastPackId => packState[p] = "absent"
        BY ZenonT(60) DEF TypeOK
      <4>3. lastPackId + 1 > lastPackId
        BY <4>2
      <4> QED
        BY <4>1, <4>2, <4>3, ZenonT(60)
    <3> QED
      BY <2>1, <3>1, ZenonT(60) DEF ReservePack, rootRows
  <2>2. ASSUME NEW pack \in PackIds, DiscardPack(pack)
        PROVE  <1>1!:
    BY <2>2, ZenonT(60) DEF DiscardPack, TypeOK, rootRows
  <2> QED
    BY <2>1, <2>2, ZenonT(60)
<1> QED
  BY <1>1, ZenonT(60) DEF Readable, PacksWith, CompletePacks

\* Rows are written about objects that are there.
LEMMA RowsKeepClosed ==
  ASSUME TypeOK, StoreClosed, Readable' = Readable, promised' = promised, projected' = projected,
         RowsResolve', ReflogRoots(now)' \subseteq Readable, TransferRoots(transfers)' \subseteq Readable
  PROVE  StoreClosed'
BY ZenonT(60) DEF StoreClosed, RowsResolve

\* Moving a ref keeps the store closed.
LEMMA MutationKeepsClosed ==
  ASSUME TypeOK, StoreClosed, UNCHANGED << storage, transfers, projected, now >>,
         NEW source \in RowSources, NEW put \in SUBSET Objects, NEW deleted,
         roots' = [roots EXCEPT ![source] = (@ \ deleted) \cup put],
         \A o \in put : MayName(source, o), ReflogRoots(now)' \subseteq Readable
  PROVE  StoreClosed'
<1>1. /\ UNCHANGED << loose, packState, packObjects, promised, transfers, projected >>
      /\ Readable' = Readable
  BY SameStorage, ZenonT(60) DEF storage
<1>2. TransferRoots(transfers)' \subseteq Readable
  BY <1>1, ZenonT(60) DEF StoreClosed, TransferRoots
<1>3. RowsResolve'
  <2> SUFFICES ASSUME NEW s \in RowSources, NEW o \in roots'[s]
               PROVE  o \in Readable' \/ SkippedWhenAbsent(s, o)'
    BY ZenonT(60) DEF RowsResolve
  <2>1. o \in roots[s] \/ (s = source /\ o \in put)
    BY DEF TypeOK
  <2> QED
    BY <1>1, <2>1, ZenonT(60) DEF StoreClosed, MayName, SkippedWhenAbsent
<1> QED
  BY <1>1, <1>2, <1>3, RowsKeepClosed

\* Both ends of a moved ref are logged, and both were readable.
LEMMA RefsKeepClosed ==
  ASSUME TypeOK, StoreClosed, NEW put \in SUBSET RootTargets["refs"],
         NEW deleted \in SUBSET RootTargets["refs"], MutateRefs(put, deleted)
  PROVE  StoreClosed'
<1>1. /\ UNCHANGED << storage, transfers, projected, now >>
      /\ roots' = [roots EXCEPT !["refs"] = (@ \ deleted) \cup put]
      /\ put \subseteq Readable /\ deleted \subseteq roots["refs"]
  BY ZenonT(60) DEF MutateRefs
<1>2. deleted \subseteq Readable
  BY <1>1 DEF StoreClosed, SkippedWhenAbsent, RowSources
<1>3. ReflogRoots(now)' \subseteq Readable
  <2>1. \A o \in Objects : o \in put \cup deleted \/ reflog'[o] = NoTime \/ reflog'[o] = reflog[o]
    BY ZenonT(60) DEF MutateRefs
  <2> QED
    BY <1>1, <1>2, <2>1, ZenonT(60) DEF ReflogRoots, StoreClosed
<1>4. "refs" \in RowSources /\ put \in SUBSET Objects /\ \A o \in put : MayName("refs", o)
  BY <1>1 DEF RowSources, MayName, Readable
<1> QED
  BY <1>1, <1>3, <1>4, MutationKeepsClosed, ZenonT(60)

\* Index rows, journals and boundaries keep the store closed.
LEMMA OtherRowsKeepClosed ==
  ASSUME TypeOK, StoreClosed, UNCHANGED << storage, transfers, projected, now, reflog >>,
         NEW source \in RowSources, NEW put \in SUBSET RootTargets[source], NEW deleted,
         roots' = [roots EXCEPT ![source] = (@ \ deleted) \cup put],
         \A o \in put : MayName(source, o)
  PROVE  StoreClosed'
<1>1. put \in SUBSET Objects
  BY IdsAssumption
<1>2. ReflogRoots(now)' \subseteq Readable
  BY ZenonT(60) DEF ReflogRoots, StoreClosed
<1> QED
  BY <1>1, <1>2, MutationKeepsClosed, ZenonT(60)

\* A transfer row keeps the store closed.
LEMMA TransfersKeepClosed ==
  ASSUME TypeOK, StoreClosed, UNCHANGED << storage, roots, reflog, projected, now >>,
         NEW t \in TransferIds, NEW after,
         transfers' = [transfers EXCEPT ![t] = after],
         after.state = "live" => after.root \in Readable
  PROVE  StoreClosed'
<1>1. /\ UNCHANGED << loose, packState, packObjects, promised, projected >>
      /\ Readable' = Readable
  BY SameStorage, ZenonT(60) DEF storage
<1>2. TransferRoots(transfers)' \subseteq Readable
  <2>1. \A u \in TransferIds : transfers'[u] = IF u = t THEN after ELSE transfers[u]
    BY ZenonT(60) DEF TypeOK
  <2> QED
    BY <2>1, ZenonT(60) DEF StoreClosed, TransferRoots
<1>3. ReflogRoots(now)' \subseteq Readable
  BY ZenonT(60) DEF ReflogRoots, StoreClosed
<1>4. RowsResolve'
  BY <1>1 DEF RowsResolve, StoreClosed, SkippedWhenAbsent
<1> QED
  BY <1>1, <1>2, <1>3, <1>4, RowsKeepClosed, ZenonT(60)

\* Creating, renewing and releasing transfers keeps the store closed.
LEMMA TransferCallsKeepClosed ==
  ASSUME TypeOK, StoreClosed, NEW t \in TransferIds,
         (\E o \in Objects : CreateTransfer(t, o)) \/ RenewTransfer(t) \/ ReleaseTransfer(t)
  PROVE  StoreClosed'
<1>1. UNCHANGED << storage, roots, reflog, projected, now >>
  BY ZenonT(60) DEF CreateTransfer, RenewTransfer, ReleaseTransfer, rootRows
<1>2. transfers[t].state = "live" => transfers[t].root \in Readable
  BY ZenonT(60) DEF StoreClosed, TransferRoots
<1>3. transfers[t] \in TransferType
  BY DEF TypeOK
<1>4. \E after : /\ transfers' = [transfers EXCEPT ![t] = after]
                 /\ after.state = "live" => after.root \in Readable
  <2>1. ASSUME NEW o \in Objects, CreateTransfer(t, o) PROVE <1>4!:
    <3> DEFINE made == [state |-> "live", expires |-> now + TRANSFER_TTL, root |-> o]
    <3>1. transfers' = [transfers EXCEPT ![t] = made] /\ made.root \in Readable
      BY <2>1, ZenonT(60) DEF CreateTransfer
    <3> QED
      BY <3>1, ZenonT(60)
  <2>2. CASE RenewTransfer(t)
    <3> DEFINE renewed == [transfers[t] EXCEPT !.expires = now + TRANSFER_TTL]
    <3>1. transfers' = [transfers EXCEPT ![t] = renewed]
      BY <2>2 DEF RenewTransfer
    <3>2. renewed.state = transfers[t].state /\ renewed.root = transfers[t].root
      BY <1>3 DEF TransferType
    <3> QED
      BY <1>2, <3>1, <3>2, ZenonT(60)
  <2>3. CASE ReleaseTransfer(t)
    <3> DEFINE released == [transfers[t] EXCEPT !.state = "released"]
    <3>1. transfers' = [transfers EXCEPT ![t] = released]
      BY <2>3 DEF ReleaseTransfer
    <3>2. released.state = "released"
      BY <1>3 DEF TransferType
    <3> QED
      BY <3>1, <3>2, ZenonT(60)
  <2> QED
    BY <2>1, <2>2, <2>3
<1> QED
  BY <1>1, <1>4, TransfersKeepClosed, ZenonT(60)

\* Projecting a tree keeps the store closed.
LEMMA ProjectKeepsClosed ==
  ASSUME TypeOK, StoreClosed, NEW tree \in Trees, ProjectTree(tree)
  PROVE  StoreClosed'
<1> DEFINE closure == Closure({tree}, Subtrees)
<1>1. /\ closure \subseteq Readable /\ projected' = projected \cup closure
      /\ UNCHANGED << now, loose, packState, packObjects, promised, roots, reflog, transfers >>
  BY DEF ProjectTree, storage, rootRows
<1>2. Readable' = Readable
  BY <1>1, SameStorage
<1>3. \A t \in closure : t \in Readable' /\ Subtrees[t] \subseteq closure
  BY <1>1, <1>2, ClosureClosed, ZenonT(60)
<1> HIDE DEF closure
<1>4. ProjectionsClosed'
  BY <1>1, <1>2, <1>3, ZenonT(60) DEF StoreClosed, ProjectionsClosed
<1>5. ReflogRoots(now)' \cup TransferRoots(transfers)' \subseteq Readable'
  BY <1>1, <1>2, RootsStay, ZenonT(60) DEF StoreClosed
<1> QED
  BY <1>1, <1>2, <1>4, <1>5, ZenonT(60) DEF StoreClosed, ProjectionsClosed, SkippedWhenAbsent

\* Every foreground transaction keeps the store closed.
LEMMA ForegroundKeepsClosed ==
  ASSUME TypeOK, StoreClosed, Foreground
  PROVE  StoreClosed'
<1>1. CASE (\E content \in PackContents : ReservePack(content))
             \/ (\E pack \in PackIds : DiscardPack(pack))
  <2>1. /\ Readable' = Readable
        /\ UNCHANGED << now, promised, roots, reflog, transfers, projected >>
    BY <1>1, ReservedOrDiscarded, ZenonT(60)
  <2>2. ReflogRoots(now)' = ReflogRoots(now) /\ TransferRoots(transfers)' = TransferRoots(transfers)
    BY <2>1 DEF ReflogRoots, TransferRoots
  <2> QED
    BY <2>1, <2>2, ZenonT(60) DEF StoreClosed, SkippedWhenAbsent
<1>2. ASSUME NEW source \in RowSources, NEW put \in SUBSET RootTargets[source],
             NEW deleted \in SUBSET RootTargets[source], MutateRows(source, put, deleted)
      PROVE  StoreClosed'
  <2>1. /\ UNCHANGED << storage, transfers, projected, now, reflog >>
        /\ roots' = [roots EXCEPT ![source] = (@ \ deleted) \cup put]
        /\ \A o \in put : MayName(source, o)
    BY <1>2, ZenonT(60) DEF MutateRows
  <2> QED
    BY <2>1, OtherRowsKeepClosed, ZenonT(60)
<1>3. ASSUME NEW add \in SUBSET RootTargets["shallow"],
             NEW remove \in SUBSET RootTargets["shallow"], UpdateShallow(add, remove)
      PROVE  StoreClosed'
  <2>1. /\ UNCHANGED << storage, transfers, projected, now, reflog >>
        /\ roots' = [roots EXCEPT !["shallow"] = (@ \ remove) \cup add]
        /\ \A o \in add : MayName("shallow", o)
    BY <1>3, ZenonT(60) DEF UpdateShallow, MayName
  <2>2. "shallow" \in RowSources
    BY DEF RowSources
  <2> QED
    BY <2>1, <2>2, OtherRowsKeepClosed, ZenonT(60)
<1>4. \/ \E batch \in Batches : WriteObjects(batch)
      \/ (\E content \in PackContents : ReservePack(content))
           \/ (\E pack \in PackIds : DiscardPack(pack))
      \/ \E pack \in PackIds, unresolved \in SUBSET Blobs : PublishPack(pack, unresolved)
      \/ \E put \in SUBSET RootTargets["refs"], deleted \in SUBSET RootTargets["refs"] :
           MutateRefs(put, deleted)
      \/ \E source \in RowSources :
           \E put \in SUBSET RootTargets[source], deleted \in SUBSET RootTargets[source] :
             MutateRows(source, put, deleted)
      \/ \E add \in SUBSET RootTargets["shallow"], remove \in SUBSET RootTargets["shallow"] :
           UpdateShallow(add, remove)
      \/ \E t \in TransferIds :
           (\E o \in Objects : CreateTransfer(t, o)) \/ RenewTransfer(t) \/ ReleaseTransfer(t)
      \/ \E tree \in Trees : ProjectTree(tree)
  BY ZenonT(60) DEF Foreground, ForegroundOf
<1> QED
  BY <1>1, <1>2, <1>3, <1>4, WriteKeepsClosed, PublishKeepsClosed, RefsKeepClosed,
     TransferCallsKeepClosed, ProjectKeepsClosed, ZenonT(60)
=============================================================================
