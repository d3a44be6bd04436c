----------------------- MODULE MaintenanceMarkProofs -----------------------
(* The marks: what a run that is still current holds of the roots and the edges *)
(* that it has passed, and that every step keeps it.                            *)
EXTENDS MaintenanceTypeProofs

\* A step that names no prover is tried with each of these in turn.
USE SMT, ZenonT(60), SMTT(60)

-----------------------------------------------------------------------------
(***************************************************************************)
(* No reachable object is lost.  The inductive invariant says that a run   *)
(* whose epoch and generation are current holds every root and every edge  *)
(* that it has passed; RunObserved makes "current" mean that nothing has   *)
(* happened since, because the two counters only grow.                     *)
(***************************************************************************)
IInv == TypeOK /\ RunObserved /\ MarkSound

\* What the foreground may do to storage and roots without telling the run.
Quiet ==
  /\ Readable' = Readable
  /\ roots' = roots /\ reflog' = reflog
  /\ TransferRoots(transfers') = TransferRoots(transfers)
  /\ rootEpoch' = rootEpoch /\ sourceGeneration' = sourceGeneration

\* Keys of a bounded range are natural numbers.
LEMMA KeysAreNat ==
  ASSUME NEW n, NEW S \in SUBSET (1 .. n)
  PROVE  S \in SUBSET Nat /\ \A y \in S : y \in Nat
OBVIOUS

\* The counters of a run and of storage are natural numbers.
LEMMA CountersAreNat ==
  ASSUME TypeOK
  PROVE  /\ run.epoch \in Nat /\ run.generation \in Nat /\ run.started \in Nat
         /\ rootEpoch \in Nat /\ sourceGeneration \in Nat /\ now \in Nat
BY DEF TypeOK, RunType

\* Equal counters are not ahead of each other.
LEMMA EqualNotAhead ==
  ASSUME NEW a \in Nat, NEW b \in Nat, a = b
  PROVE  a <= b
OBVIOUS

\* A step that leaves storage, roots and run alone keeps the invariant.
LEMMA QuietSound ==
  ASSUME IInv, Quiet, now <= now', TypeOK',
         UNCHANGED << run, marked, expanded, boundary, edgeCursor >>
  PROVE  IInv'
<1>1. \A s, started : SourceRows(s, started, transfers)' = SourceRows(s, started, transfers)
  BY DEF Quiet, SourceRows, ReflogRoots
<1>2. Stale' = Stale
  BY DEF Stale, Quiet
<1>3. RootsMarked => RootsMarked'
  BY <1>1 DEF RootsMarked, Quiet
<1>4. EdgesMarked => EdgesMarked'
  BY DEF EdgesMarked, Quiet
<1>5. MarkSound'
  BY <1>2, <1>3, <1>4 DEF IInv, MarkSound, Quiet
<1>6. RunObserved'
  <2>1. /\ run.epoch \in Nat /\ run.generation \in Nat /\ run.started \in Nat
        /\ now \in Nat /\ now' \in Nat
    BY CountersAreNat DEF IInv, TypeOK
  <2> QED
    BY <2>1 DEF IInv, RunObserved, Quiet
<1> QED
  BY <1>5, <1>6 DEF IInv

\* A counter that moved makes the run stale for good.
LEMMA BumpSound ==
  ASSUME IInv, TypeOK', UNCHANGED << now, run >>,
         rootEpoch <= rootEpoch', sourceGeneration <= sourceGeneration',
         rootEpoch < rootEpoch' \/ sourceGeneration < sourceGeneration'
  PROVE  IInv'
<1>1. run.epoch \in Nat /\ run.generation \in Nat /\ rootEpoch \in Nat
      /\ sourceGeneration \in Nat /\ rootEpoch' \in Nat /\ sourceGeneration' \in Nat
  BY DEF IInv, TypeOK, RunType
<1>2. RunObserved' /\ Stale'
  BY <1>1 DEF IInv, RunObserved, Stale
<1> QED
  BY <1>2 DEF IInv, MarkSound

\* Every foreground transaction keeps the invariant.
LEMMA ForegroundSound ==
  ASSUME IInv, Foreground
  PROVE  IInv'
<1>1. TypeOK /\ TypeOK'
  BY ForegroundTypeOK DEF IInv
<1>0. rootEpoch \in Nat /\ sourceGeneration \in Nat /\ now \in Nat
      /\ packState = [p \in PackIds |-> packState[p]]
      /\ packObjects = [p \in PackIds |-> packObjects[p]]
  BY <1>1 DEF TypeOK
<1> USE DEF storage, rootRows, marks, candidates
<1>2. ASSUME NEW batch \in Batches, WriteObjects(batch)
      PROVE  IInv'
  <2>1. UNCHANGED << now, run >> /\ BumpGeneration(TRUE)
        /\ BumpEpoch(promised \cap batch # {})
    BY <1>2, ZenonT(60) DEF WriteObjects
  <2>2. rootEpoch <= rootEpoch' /\ sourceGeneration < sourceGeneration'
        /\ sourceGeneration <= sourceGeneration'
    BY <1>0, <2>1 DEF BumpEpoch, BumpGeneration
  <2> QED
    BY <1>1, <2>1, <2>2, BumpSound
<1>3. ASSUME NEW content \in PackContents, ReservePack(content)
      PROVE  IInv'
  <2>1. \A p \in PackIds : /\ packState[p] = "complete" <=> packState'[p] = "complete"
                           /\ packState[p] = "complete" => packObjects'[p] = packObjects[p]
    <3>1. ASSUME lastPackId + 1 \in PackIds PROVE packState[lastPackId + 1] = "absent"
      BY <1>1, <3>1 DEF TypeOK
    <3> QED
      BY <1>3, <3>1, ZenonT(60) DEF ReservePack
  <2>2. Readable' = Readable
    BY <1>3, <2>1 DEF ReservePack, Readable, PacksWith, CompletePacks
  <2>3. Quiet /\ now <= now' /\ UNCHANGED << run, marked, expanded, boundary, edgeCursor >>
    BY <1>0, <1>3, <2>2 DEF ReservePack, Quiet
  <2> QED
    BY <1>1, <2>3, QuietSound, ZenonT(60)
<1>4. ASSUME NEW pack \in PackIds, NEW unresolved \in SUBSET Blobs,
             PublishPack(pack, unresolved)
      PROVE  IInv'
  <2>1. UNCHANGED << now, run >> /\ BumpGeneration(TRUE)
        /\ BumpEpoch(promised \cap packObjects[pack] # {})
    BY <1>4, ZenonT(60) DEF PublishPack
  <2>2. rootEpoch <= rootEpoch' /\ sourceGeneration < sourceGeneration'
        /\ sourceGeneration <= sourceGeneration'
    BY <1>0, <2>1 DEF BumpEpoch, BumpGeneration
  <2> QED
    BY <1>1, <2>1, <2>2, BumpSound
<1>5. ASSUME NEW pack \in PackIds, DiscardPack(pack)
      PROVE  IInv'
  <2>1. \A p \in PackIds : /\ packState[p] = "complete" <=> packState'[p] = "complete"
                           /\ packState[p] = "complete" => packObjects'[p] = packObjects[p]
    BY <1>0, <1>5, ZenonT(60) DEF DiscardPack
  <2>2. Readable' = Readable
    BY <1>5, <2>1 DEF DiscardPack, Readable, PacksWith, CompletePacks
  <2>3. Quiet /\ now <= now' /\ UNCHANGED << run, marked, expanded, boundary, edgeCursor >>
    BY <1>0, <1>5, <2>2 DEF DiscardPack, Quiet
  <2> QED
    BY <1>1, <2>3, QuietSound
<1>6. ASSUME UNCHANGED << now, run, sourceGeneration >>, BumpEpoch(TRUE)
      PROVE  IInv'
  <2>1. rootEpoch < rootEpoch' /\ rootEpoch <= rootEpoch' /\ sourceGeneration <= sourceGeneration'
    BY <1>0, <1>6 DEF BumpEpoch
  <2> QED
    BY <1>1, <1>6, <2>1, BumpSound
<1>7. ASSUME NEW put \in SUBSET RootTargets["refs"],
             NEW deleted \in SUBSET RootTargets["refs"], MutateRefs(put, deleted)
      PROVE  IInv'
  BY <1>6, <1>7, ZenonT(60) DEF MutateRefs
<1>8. ASSUME NEW source \in RowSources \ {"refs", "shallow"},
             NEW put \in SUBSET RootTargets[source],
             NEW deleted \in SUBSET RootTargets[source],
             MutateRows(source, put, deleted)
      PROVE  IInv'
  BY <1>6, <1>8 DEF MutateRows
<1>9. ASSUME NEW add \in SUBSET RootTargets["shallow"],
             NEW remove \in SUBSET RootTargets["shallow"], UpdateShallow(add, remove)
      PROVE  IInv'
  BY <1>6, <1>9 DEF UpdateShallow
<1>10. ASSUME NEW t \in TransferIds, NEW o \in Objects, CreateTransfer(t, o)
      PROVE  IInv'
  BY <1>6, <1>10 DEF CreateTransfer
<1>11. ASSUME NEW t \in TransferIds, ReleaseTransfer(t)
      PROVE  IInv'
  BY <1>6, <1>11, ZenonT(60) DEF ReleaseTransfer
<1>12. ASSUME NEW t \in TransferIds, RenewTransfer(t)
      PROVE  IInv'
  <2>0. transfers \in [TransferIds -> TransferType]
    BY <1>1 DEF TypeOK
  <2>1. \A u \in TransferIds : /\ transfers'[u].state = transfers[u].state
                               /\ transfers'[u].root = transfers[u].root
    BY <1>12, <2>0 DEF RenewTransfer, TransferType
  <2>2. TransferRoots(transfers') = TransferRoots(transfers)
    BY <2>1 DEF TransferRoots
  <2>3. Readable' = Readable
    BY <1>12 DEF RenewTransfer, Readable, PacksWith, CompletePacks
  <2>4. Quiet /\ now <= now' /\ UNCHANGED << run, marked, expanded, boundary, edgeCursor >>
    BY <1>0, <1>12, <2>2, <2>3 DEF RenewTransfer, Quiet
  <2> QED
    BY <1>1, <2>4, QuietSound
<1>13. ASSUME NEW tree \in Trees, ProjectTree(tree)
      PROVE  IInv'
  <2>1. Readable' = Readable
    BY <1>13 DEF ProjectTree, Readable, PacksWith, CompletePacks
  <2>2. Quiet /\ now <= now' /\ UNCHANGED << run, marked, expanded, boundary, edgeCursor >>
    BY <1>0, <1>13, <2>1 DEF ProjectTree, Quiet
  <2> QED
    BY <1>1, <2>2, QuietSound
<1> QED
  BY <1>2, <1>3, <1>4, <1>5, <1>7, <1>8, <1>9, <1>10, <1>11, <1>12, <1>13, ZenonT(60)
     DEF Foreground, ForegroundOf

\* A slice that sees no drift sees no expired transfer either, and its run is
\* current.
LEMMA NotDrifted ==
  ASSUME IInv, ~Drifted
  PROVE  ~Stale /\ CleanedEpoch = rootEpoch
<1>1. CleanedEpoch \in Nat /\ rootEpoch \in Nat /\ run.epoch \in Nat
  BY Cleanup DEF IInv, TypeOK, RunType
<1>2. CleanedEpoch = rootEpoch \/ CleanedEpoch = rootEpoch + 1
  BY ZenonT(60) DEF CleanedEpoch
<1> QED
  BY <1>1, <1>2 DEF IInv, RunObserved, Drifted, Stale

\* The rows that a run has passed are marked, as a fact about a run r with
\* marks held and boundary cut over the cleaned transfers.
PassedRoots(r, held, cut) ==
  \A i \in 1 .. Done - 1 :
    \A o \in SourceRows(ROOT_SOURCES[i], r.started, CleanedTransfers) \cap Readable :
      i < r.source \/ (i = r.source /\ o <= r.cursor)
      => o \in held /\ (ROOT_SOURCES[i] = "shallow" => o \in cut)

\* A page of roots keeps the invariant.
LEMMA RootPageSound ==
  ASSUME KeysetFacts, TypeOK, NEW r \in RunType, r.phase = "roots", r.source < Done,
         NEW held \in SUBSET Objects, NEW cut \in SUBSET held,
         RootPage(r, held, cut), PassedRoots(r, held, cut),
         cut \subseteq roots["shallow"],
         transfers' = CleanedTransfers,
         UNCHANGED << loose, packState, packObjects, roots, reflog >>
  PROVE  /\ RootsMarked' /\ boundary' \subseteq roots["shallow"]
         /\ run'.phase \in {"roots", "mark"}
         /\ run'.epoch = r.epoch /\ run'.generation = r.generation
         /\ run'.started = r.started
<1> DEFINE source == ROOT_SOURCES[r.source]
           rest == {o \in SourceRows(source, r.started, CleanedTransfers) : o > r.cursor}
           page == LowestPage(PAGE_ROWS, rest)
<1>1. /\ r.source \in 1 .. Done - 1 /\ r.source \in Nat /\ r.started \in Nat
      /\ r.cursor \in Nat
  BY DoneIs9 DEF RunType
<1>2. rest \in SUBSET Objects
  BY <1>1, SourceRowsAreObjects DEF Objects
<1>3. /\ page \subseteq rest
      /\ \A x \in rest, y \in page : x <= y => x \in page
      /\ rest # {} => page # {}
  <2> HIDE DEF rest
  <2> QED
    BY <1>2, PagePrefix, ObjectsAssumption, BoundsAssumption, ZenonT(60) DEF Objects
<1>4. page # rest => MaxOf(page) \in page
  <2> HIDE DEF page, rest
  <2>1. page \in SUBSET (1 .. MaxObject) /\ MaxObject \in Nat
    BY <1>2, <1>3, ObjectsAssumption, ZenonT(60) DEF Objects
  <2>2. page # rest => page # {}
    BY <1>3
  <2> QED
    BY <2>1, <2>2, GreatestKey, ZenonT(60)
<1>5. /\ marked' = held \cup (page \cap Readable)
      /\ boundary' = IF source = "shallow" THEN cut \cup (page \cap Readable) ELSE cut
      /\ run' = IF page # rest THEN [r EXCEPT !.cursor = MaxOf(page)]
                ELSE IF r.source + 1 # Done
                THEN [r EXCEPT !.source = r.source + 1, !.cursor = 0]
                ELSE [r EXCEPT !.phase = "mark", !.source = Done, !.cursor = 0,
                               !.queued = Cardinality(marked')]
  BY DEF RootPage
<1>6. Readable' = Readable
  BY DEF Readable, PacksWith, CompletePacks
<1>7. \A s : SourceRows(s, run.started, transfers)'
               = SourceRows(s, run'.started, CleanedTransfers)
  BY DEF SourceRows, ReflogRoots
<1>8. /\ run'.started = r.started /\ run'.epoch = r.epoch
      /\ run'.generation = r.generation
  BY <1>5 DEF RunType
<1>9. /\ page # rest => /\ run'.phase = "roots" /\ run'.source = r.source
                        /\ run'.cursor = MaxOf(page)
      /\ page = rest => \/ /\ run'.phase = "roots" /\ run'.source = r.source + 1
                           /\ run'.cursor = 0
                        \/ run'.phase = "mark" /\ r.source + 1 = Done
  BY <1>5 DEF RunType
<1>10. source = "shallow" => page \subseteq roots["shallow"]
  BY <1>3 DEF SourceRows
<1>11. boundary' \subseteq roots["shallow"]
  BY <1>5, <1>10, ZenonT(60)
<1>12. ASSUME NEW i \in 1 .. Done - 1,
              NEW o \in SourceRows(ROOT_SOURCES[i], r.started, CleanedTransfers) \cap Readable,
              \/ run'.phase # "roots"
              \/ i < run'.source
              \/ i = run'.source /\ o <= run'.cursor
       PROVE  o \in marked' /\ (ROOT_SOURCES[i] = "shallow" => o \in boundary')
  <2>1. o \in Objects /\ o \in Nat
    BY DEF Readable, Objects
  <2>2. CASE i < r.source
    BY <1>5, <2>2 DEF PassedRoots
  <2>3. CASE i = r.source /\ o <= r.cursor
    BY <1>5, <2>3 DEF PassedRoots
  <2>4. CASE i = r.source /\ o > r.cursor
    <3>1. o \in rest
      BY <2>4, ZenonT(60)
    <3> HIDE DEF rest, page
    <3>2. o \in page
      <4>1. CASE page = rest
        BY <3>1, <4>1, ZenonT(60)
      <4>2. CASE page # rest
        <5>1. o <= MaxOf(page)
          BY <1>1, <1>9, <1>12, <2>4, <4>2
        <5> QED
          BY <1>3, <1>4, <3>1, <4>2, <5>1, ZenonT(60)
      <4> QED
        BY <4>1, <4>2, ZenonT(60)
    <3> QED
      BY <1>5, <2>4, <3>2
  <2>5. CASE i > r.source
    <3> HIDE DEF rest, page
    <3>1. i \in Nat /\ r.source + 1 <= i /\ i < Done
      BY <1>1, <2>5, DoneIs9
    <3>2. page = rest /\ run'.source = r.source + 1 /\ run'.cursor = 0
          /\ run'.phase = "roots"
      BY <1>1, <1>9, <1>12, <3>1, DoneIs9
    <3>3. o <= 0
      BY <1>1, <1>12, <3>1, <3>2
    <3> QED
      BY <2>1, <3>3 DEF Objects
  <2> QED
    BY <1>1, <2>1, <2>2, <2>3, <2>4, <2>5
<1>13. RootsMarked'
  BY <1>6, <1>7, <1>8, <1>12 DEF RootsMarked
<1> QED
  BY <1>8, <1>9, <1>11, <1>13, ZenonT(60)

\* Nothing was expanded yet, so no edge was passed.
LEMMA NoEdgePassed ==
  ASSUME TypeOK', expanded' = {}, \A o \in Objects : edgeCursor'[o] = 0
  PROVE  EdgesMarked'
<1>1. \A o \in Objects : \A c \in Edges(o, boundary') : c \in Nat /\ c > 0
  BY ObjectsAssumption DEF Edges, Objects
<1>2. \A o \in Objects : \A c \in Edges(o, boundary') : ~(c <= edgeCursor'[o])
  BY <1>1
<1> QED
  BY <1>2 DEF EdgesMarked

\* The fields of a run that starts.
LEMMA FreshRunFields ==
  ASSUME TypeOK
  PROVE  /\ FreshRun.cursor = 0 /\ FreshRun.epoch = CleanedEpoch
         /\ FreshRun.generation = sourceGeneration /\ FreshRun.started = now
         /\ RestartedRun.cursor = 0 /\ RestartedRun.epoch = CleanedEpoch
         /\ RestartedRun.generation = sourceGeneration
         /\ RestartedRun.started = run.started
BY DEF FreshRun, RestartedRun, NoRun

\* A run that starts over has passed nothing.
LEMMA NothingPassed ==
  ASSUME TypeOK, NEW r \in RunType, r.source = 1, r.cursor = 0
  PROVE  PassedRoots(r, {}, {})
<1>1. \A o \in Readable : o \in Nat /\ o > 0
  BY DEF Readable, Objects
<1>2. \A i \in 1 .. Done - 1 : i \in Nat /\ i >= 1
  BY DoneIs9
<1> QED
  BY <1>1, <1>2 DEF PassedRoots

\* What a maintenance call leaves alone, whatever its slice does.
LEMMA CallFrame ==
  ASSUME KeysetFacts, IInv, Maintain
  PROVE  /\ TypeOK' /\ UNCHANGED << now, roots, reflog >>
         /\ transfers' = CleanedTransfers /\ rootEpoch' = CleanedEpoch
         /\ rootEpoch \in Nat /\ rootEpoch' \in Nat /\ rootEpoch <= rootEpoch'
         /\ TransferRoots(transfers') \subseteq TransferRoots(transfers)
BY MaintainTypeOK, Cleanup, ZenonT(60) DEF IInv, Maintain, rootRows, TypeOK

\* The discovery of roots, page by page, keeps the invariant.
LEMMA DiscoverySound ==
  ASSUME KeysetFacts, IInv, Maintain, StartRun \/ RestartRun \/ SnapshotRoots
  PROVE  IInv'
<1>1. TypeOK /\ TypeOK'
  BY CallFrame DEF IInv
<1>2. UNCHANGED << loose, packState, packObjects, sourceGeneration >>
  BY ZenonT(60) DEF StartRun, RestartRun, SnapshotRoots, NothingSwept
<1>3. /\ expanded' = {} /\ edgeCursor' = [o \in Objects |-> 0]
  BY ZenonT(60) DEF StartRun, RestartRun, SnapshotRoots, RootPage
<1>4. EdgesMarked' /\ \A o \in Objects : edgeCursor'[o] = 0
  BY <1>1, <1>3, NoEdgePassed, ZenonT(60)
<1>5. \E r \in RunType, held \in SUBSET Objects :
        \E cut \in SUBSET held :
          /\ r.phase = "roots" /\ r.source < Done
          /\ RootPage(r, held, cut) /\ PassedRoots(r, held, cut)
          /\ cut \subseteq roots["shallow"]
          /\ r.epoch = CleanedEpoch /\ r.generation = sourceGeneration
          /\ r.started <= now
  <2>1. CASE StartRun
    <3>1. FreshRun \in RunType /\ FreshRun.phase = "roots" /\ FreshRun.source = 1
      BY <1>1, FreshRunTyped, ZenonT(60)
    <3>2. PassedRoots(FreshRun, {}, {})
      BY <1>1, <3>1, NothingPassed, FreshRunFields
    <3>3. RootPage(FreshRun, {}, {})
      BY <2>1, ZenonT(60) DEF StartRun
    <3>4. /\ FreshRun.source < Done /\ FreshRun.epoch = CleanedEpoch
          /\ FreshRun.generation = sourceGeneration /\ FreshRun.started <= now
      <4>1. FreshRun.epoch = CleanedEpoch /\ FreshRun.generation = sourceGeneration
            /\ FreshRun.started = now /\ now \in Nat
        BY <1>1, FreshRunFields, CountersAreNat, ZenonT(60)
      <4>2. FreshRun.source < Done
        BY <3>1, DoneIs9
      <4> QED
        BY <4>1, <4>2, EqualNotAhead, ZenonT(60)
    <3> QED
      BY <3>1, <3>2, <3>3, <3>4
  <2>2. CASE RestartRun
    <3>1. RestartedRun \in RunType /\ RestartedRun.phase = "roots" /\ RestartedRun.source = 1
      BY <1>1, FreshRunTyped
    <3>2. PassedRoots(RestartedRun, {}, {})
      BY <1>1, <3>1, NothingPassed, FreshRunFields
    <3>3. RootPage(RestartedRun, {}, {})
      BY <2>2, ZenonT(60) DEF RestartRun
    <3>4. /\ RestartedRun.source < Done /\ RestartedRun.epoch = CleanedEpoch
          /\ RestartedRun.generation = sourceGeneration /\ RestartedRun.started <= now
      BY <1>1, <3>1, DoneIs9, FreshRunFields DEF IInv, RunObserved
    <3> QED
      BY <3>1, <3>2, <3>3, <3>4
  <2>3. CASE SnapshotRoots
    <3>1. ~Stale /\ CleanedEpoch = rootEpoch /\ run.phase = "roots"
      BY <2>3, NotDrifted DEF SnapshotRoots
    <3>2. RootsMarked /\ boundary \subseteq roots["shallow"]
      BY <3>1 DEF IInv, MarkSound
    <3>3. \A s, started : SourceRows(s, started, CleanedTransfers)
                            \subseteq SourceRows(s, started, transfers)
      BY <1>1, Cleanup, ZenonT(60) DEF SourceRows
    <3>4. PassedRoots(run, marked, boundary)
      BY <3>1, <3>2, <3>3 DEF PassedRoots, RootsMarked
    <3>5. RootPage(run, marked, boundary)
      BY <2>3, ZenonT(60) DEF SnapshotRoots
    <3>6. /\ run \in RunType /\ marked \in SUBSET Objects /\ boundary \in SUBSET marked
          /\ run.source < Done /\ run.epoch = CleanedEpoch
          /\ run.generation = sourceGeneration /\ run.started <= now
      BY <1>1, <3>1, ZenonT(60) DEF TypeOK, IInv, RunObserved, Stale
    <3> QED
      BY <3>1, <3>2, <3>4, <3>5, <3>6, ZenonT(60)
  <2> QED
    BY <2>1, <2>2, <2>3
<1>6. PICK r \in RunType, held \in SUBSET Objects :
        \E cut \in SUBSET held :
          /\ r.phase = "roots" /\ r.source < Done
          /\ RootPage(r, held, cut) /\ PassedRoots(r, held, cut)
          /\ cut \subseteq roots["shallow"]
          /\ r.epoch = CleanedEpoch /\ r.generation = sourceGeneration
          /\ r.started <= now
  BY <1>5, ZenonT(60)
<1>7. /\ RootsMarked' /\ boundary' \subseteq roots["shallow"]
      /\ run'.phase \in {"roots", "mark"}
      /\ run'.epoch = CleanedEpoch /\ run'.generation = sourceGeneration
      /\ run'.started <= now
  <2>1. PICK cut \in SUBSET held :
          /\ r.phase = "roots" /\ r.source < Done
          /\ RootPage(r, held, cut) /\ PassedRoots(r, held, cut)
          /\ cut \subseteq roots["shallow"]
          /\ r.epoch = CleanedEpoch /\ r.generation = sourceGeneration
          /\ r.started <= now
    BY <1>6, ZenonT(60)
  <2>2. transfers' = CleanedTransfers /\ UNCHANGED << roots, reflog >>
    BY CallFrame
  <2> QED
    BY <1>1, <1>2, <2>1, <2>2, RootPageSound, ZenonT(60)
<1>8. MarkSound'
  BY <1>3, <1>4, <1>7, CallFrame, ZenonT(60) DEF MarkSound
<1>9. RunObserved'
  <2>1. /\ run'.epoch = rootEpoch' /\ rootEpoch' \in Nat /\ now' = now
        /\ run'.generation = sourceGeneration' /\ sourceGeneration' \in Nat
    BY <1>1, <1>2, <1>7, CallFrame, ZenonT(60) DEF TypeOK
  <2> QED
    BY <1>7, <2>1, EqualNotAhead, ZenonT(60) DEF RunObserved
<1> QED
  BY <1>1, <1>8, <1>9 DEF IInv

\* A reset and a rollover keep the invariant.
LEMMA StartOverSound ==
  ASSUME KeysetFacts, IInv, Maintain, ResetRun \/ RollOver
  PROVE  IInv'
<1>1. TypeOK /\ TypeOK'
  BY CallFrame DEF IInv
<1>2. /\ run' = FreshRun \/ run' = RestartedRun
      /\ marked' = {} /\ expanded' = {} /\ boundary' = {}
      /\ edgeCursor' = [o \in Objects |-> 0]
      /\ sourceGeneration' = sourceGeneration
  BY DEF ResetRun, RollOver, ClearMarks, NothingSwept
<1>3. /\ run'.phase = "roots" /\ run'.source = 1 /\ run'.cursor = 0
      /\ run'.epoch = CleanedEpoch /\ run'.generation = sourceGeneration
      /\ run'.started = now \/ run'.started = run.started
  BY <1>1, <1>2, FreshRunTyped, FreshRunFields, ZenonT(60)
<1>4. RunObserved'
  <2>1. /\ run'.epoch = rootEpoch' /\ rootEpoch' \in Nat /\ now' = now
        /\ run'.generation = sourceGeneration' /\ sourceGeneration' \in Nat
    BY <1>1, <1>2, <1>3, CallFrame, ZenonT(60) DEF TypeOK
  <2>2. run'.started <= now
    <3>1. now \in Nat /\ run.started <= now
      BY <1>1, CountersAreNat, ZenonT(60) DEF IInv, RunObserved
    <3> QED
      BY <1>3, <3>1, EqualNotAhead, ZenonT(60)
  <2> QED
    BY <2>1, <2>2, EqualNotAhead, ZenonT(60) DEF RunObserved
<1>5. EdgesMarked' /\ \A o \in Objects : edgeCursor'[o] = 0
  BY <1>1, <1>2, NoEdgePassed
<1>6. RootsMarked'
  <2>1. \A o \in Readable' : o \in Nat /\ o > 0
    BY DEF Readable, Objects
  <2>2. \A i \in 1 .. Done - 1 : i \in Nat /\ i >= 1
    BY DoneIs9
  <2> QED
    BY <1>3, <2>1, <2>2 DEF RootsMarked
<1>7. MarkSound'
  BY <1>2, <1>3, <1>5, <1>6 DEF MarkSound
<1> QED
  BY <1>1, <1>4, <1>7, ZenonT(60) DEF IInv

\* Expanding a page of marks keeps the invariant.
LEMMA ExpandMarkSound ==
  ASSUME KeysetFacts, IInv, Maintain, ExpandMark
  PROVE  IInv'
<1> DEFINE o == MinOf(Queue)
           rest == {c \in Edges(o, boundary) : c > edgeCursor[o]}
           page == LowestPage(EDGE_PAGE, rest)
           found == page \cap Readable
<1>1. TypeOK /\ TypeOK'
  BY CallFrame DEF IInv
<1>2. o \in Queue /\ o \in Objects
  <2>1. Queue \in SUBSET Objects /\ Queue \in SUBSET Nat /\ Queue # {}
    <3>1. Queue # {}
      BY ZenonT(60) DEF ExpandMark
    <3>2. Queue \in SUBSET Objects
      BY <1>1, ZenonT(60) DEF Queue, TypeOK
    <3> QED
      BY <3>1, <3>2, KeysAreNat, ZenonT(60) DEF Objects
  <2> QED
    BY <2>1, LeastKey, ZenonT(60)
<1>3. rest \in SUBSET (1 .. MaxObject) /\ MaxObject \in Nat
  BY <1>2, ObjectsAssumption DEF Edges, Objects
<1>4. /\ page \subseteq rest
      /\ \A x \in rest, y \in page : x <= y => x \in page
      /\ rest # {} => page # {}
  <2> HIDE DEF rest
  <2> QED
    BY <1>3, PagePrefix, BoundsAssumption, ZenonT(60)
<1>5. page # {} => MaxOf(page) \in page /\ MaxOf(page) \in Nat
  <2> HIDE DEF page, rest
  <2>1. page \in SUBSET (1 .. MaxObject)
    BY <1>3, <1>4
  <2>2. page # {} => MaxOf(page) \in page
    BY <1>3, <2>1, GreatestKey, ZenonT(60)
  <2>3. \A y \in page : y \in Nat
    BY <2>1, KeysAreNat, ZenonT(60)
  <2> QED
    BY <2>2, <2>3
<1>6. /\ marked' = marked \cup found
      /\ expanded' = IF page = rest THEN expanded \cup {o} ELSE expanded
      /\ edgeCursor' = [edgeCursor EXCEPT ![o] = IF page = {} THEN @ ELSE MaxOf(page)]
      /\ boundary' = boundary
      /\ run.phase = "mark" /\ run'.phase = "mark" /\ run'.started = run.started
      /\ run'.epoch = run.epoch /\ run'.generation = run.generation
      /\ sourceGeneration' = sourceGeneration
      /\ Readable' = Readable
  <2>1. UNCHANGED << loose, packState, packObjects, sourceGeneration >>
    BY ZenonT(60) DEF ExpandMark, NothingSwept
  <2>2. Readable' = Readable
    BY <2>1, SameStorage, ZenonT(60)
  <2>3. run \in RunType
    BY <1>1, ZenonT(60) DEF TypeOK
  <2>4. /\ run.phase = "mark" /\ run'.phase = "mark" /\ run'.started = run.started
        /\ run'.epoch = run.epoch /\ run'.generation = run.generation
    BY <2>3 DEF ExpandMark, RunType
  <2>5. /\ marked' = marked \cup found
        /\ expanded' = IF page = rest THEN expanded \cup {o} ELSE expanded
        /\ edgeCursor' = [edgeCursor EXCEPT ![o] = IF page = {} THEN @ ELSE MaxOf(page)]
        /\ boundary' = boundary
    BY ZenonT(60) DEF ExpandMark
  <2> HIDE DEF o, page, rest, found
  <2> QED
    BY <2>1, <2>2, <2>4, <2>5, ZenonT(60)
<1>7. ~Stale /\ CleanedEpoch = rootEpoch
  BY NotDrifted, ZenonT(60) DEF ExpandMark
<1>8. RootsMarked /\ EdgesMarked /\ boundary \subseteq roots["shallow"]
  BY <1>6, <1>7, ZenonT(60) DEF IInv, MarkSound
<1>9. RootsMarked'
  <2>1. \A s, started : SourceRows(s, started, transfers)'
                          \subseteq SourceRows(s, started, transfers)
    BY CallFrame DEF SourceRows, ReflogRoots
  <2> HIDE DEF found
  <2> QED
    BY <1>6, <1>8, <2>1 DEF RootsMarked
<1>10. ASSUME NEW x \in Objects, NEW c \in Edges(x, boundary) \cap Readable,
              x \in expanded' \/ c <= edgeCursor'[x]
       PROVE  c \in marked'
  <2>1. c \in Nat /\ edgeCursor[x] \in Nat
    <3> HIDE DEF o, page, rest, found
    <3>1. c \in Objects
      BY <1>10, ZenonT(60) DEF Readable
    <3>2. edgeCursor \in [Objects -> Nat]
      BY <1>1, ZenonT(60) DEF TypeOK
    <3> QED
      BY <1>10, <3>1, <3>2 DEF Objects
  <2>2. CASE x # o
    <3> HIDE DEF o, page, rest, found
    <3>1. (x \in expanded' => x \in expanded) /\ edgeCursor'[x] = edgeCursor[x]
      BY <1>1, <1>6, <2>2, ZenonT(60) DEF TypeOK
    <3> QED
      BY <1>6, <1>8, <1>10, <3>1, ZenonT(60) DEF EdgesMarked
  <2>3. CASE x = o /\ c <= edgeCursor[o]
    <3> HIDE DEF o, page, rest, found
    <3> QED
      BY <1>6, <1>8, <2>3, ZenonT(60) DEF EdgesMarked
  <2>4. CASE x = o /\ c > edgeCursor[o]
    <3>1. c \in rest
      BY <1>10, <2>4
    <3>2. c \in page
      <4> HIDE DEF o, page, rest, found
      <4>1. CASE page # rest
        <5>1. o \notin expanded'
          BY <1>2, <1>6, <4>1 DEF Queue
        <5>2. page # {}
          BY <1>4, <4>1, ZenonT(60)
        <5>3. edgeCursor'[o] = MaxOf(page)
          BY <1>1, <1>2, <1>6, <5>2, ZenonT(60) DEF TypeOK
        <5>4. c <= MaxOf(page) /\ MaxOf(page) \in page
          BY <1>5, <1>10, <2>4, <5>1, <5>2, <5>3, ZenonT(60)
        <5> QED
          BY <1>4, <3>1, <5>4, ZenonT(60)
      <4> QED
        BY <3>1, <4>1
    <3> QED
      BY <1>6, <3>2
  <2> HIDE DEF o, page, rest, found
  <2> QED
    BY <2>1, <2>2, <2>3, <2>4
<1>11. EdgesMarked'
  BY <1>6, <1>10, ZenonT(60) DEF EdgesMarked
<1>12. MarkSound'
  BY <1>6, <1>8, <1>9, <1>11, CallFrame, ZenonT(60) DEF MarkSound
<1>13. RunObserved'
  BY <1>6, <1>7, CallFrame, ZenonT(60) DEF IInv, RunObserved
<1> QED
  BY <1>1, <1>12, <1>13 DEF IInv

\* Slices that keep the marks and at most lose unmarked storage.
LEMMA KeptMarksSound ==
  ASSUME KeysetFacts, IInv, Maintain, ~Stale, run.phase \in {"mark", "loose", "packs"},
         UNCHANGED << marked, expanded, boundary, edgeCursor >>,
         Readable' \subseteq Readable,
         run'.phase \in {"loose", "packs", "finish"}, run'.started = run.started,
         run'.epoch = run.epoch, run'.generation = sourceGeneration',
         run'.phase \in {"loose", "packs"} => expanded = marked
  PROVE  IInv'
<1>1. RootsMarked /\ EdgesMarked /\ boundary \subseteq roots["shallow"]
  BY DEF IInv, MarkSound
<1>2. \A s, started : SourceRows(s, started, transfers)'
                        \subseteq SourceRows(s, started, transfers)
  BY CallFrame, ZenonT(60) DEF SourceRows, ReflogRoots
<1>3. RootsMarked'
  BY <1>1, <1>2, ZenonT(60) DEF RootsMarked
<1>4. EdgesMarked'
  BY <1>1 DEF EdgesMarked
<1>5. MarkSound'
  BY <1>1, <1>3, <1>4, CallFrame, ZenonT(60) DEF MarkSound
<1>6. sourceGeneration' \in Nat
  BY CallFrame, ZenonT(60) DEF TypeOK
<1>7. RunObserved'
  <2>1. /\ run'.generation <= sourceGeneration'
        /\ run'.epoch <= rootEpoch /\ run'.started <= now /\ now' = now
    BY <1>6, CallFrame, EqualNotAhead, ZenonT(60) DEF IInv, RunObserved
  <2>2. rootEpoch' \in Nat /\ rootEpoch \in Nat /\ run.epoch \in Nat /\ rootEpoch <= rootEpoch'
    BY CallFrame, CountersAreNat, EqualNotAhead, ZenonT(60) DEF TypeOK, Stale
  <2>3. run'.epoch <= rootEpoch'
    BY <2>1, <2>2
  <2> QED
    BY <2>1, <2>3, ZenonT(60) DEF RunObserved
<1> QED
  BY <1>5, <1>7, CallFrame, ZenonT(60) DEF IInv

\* The loose sweep deletes unmarked rows only.
LEMMA SweepLooseKeepsMarked ==
  ASSUME SweepLoose
  PROVE  Readable' \subseteq Readable /\ Readable \cap marked \subseteq Readable'
<1>1. loose' \subseteq loose /\ loose \cap marked \subseteq loose'
  BY DEF SweepLoose
<1>2. \A o : PacksWith(o)' = PacksWith(o)
  BY DEF SweepLoose, PacksWith, CompletePacks
<1> QED
  BY <1>1, <1>2 DEF Readable

\* The pack that goes is not the canonical owner of a marked object, so the
\* owner of each of its marked objects stays.
LEMMA SweepPackKeepsMarked ==
  ASSUME KeysetFacts, TypeOK, SweepPack
  PROVE  Readable' \subseteq Readable /\ Readable \cap marked \subseteq Readable'
<1> DEFINE doomed == MinOf(DoomedPacks)
<1>1. doomed \in DoomedPacks /\ doomed \in PackIds
  <2>1. DoomedPacks \in SUBSET PackIds /\ DoomedPacks \in SUBSET Nat /\ DoomedPacks # {}
    BY PackPageTyped DEF DoomedPacks, PackIds, SweepPack
  <2> QED
    BY <2>1, LeastKey, ZenonT(60)
<1>2. /\ packState' = [packState EXCEPT ![doomed] = "absent"]
      /\ packObjects' = [packObjects EXCEPT ![doomed] = {}]
      /\ loose' = loose
  BY ZenonT(60) DEF SweepPack
<1>3. ~MarkedPack(doomed)
  BY <1>1, ZenonT(60) DEF DoomedPacks, Collectable
<1> HIDE DEF doomed
<1>4. \A p \in PackIds : p # doomed =>
        packState'[p] = packState[p] /\ packObjects'[p] = packObjects[p]
  BY <1>2, ZenonT(60) DEF TypeOK
<1>5. \A o : PacksWith(o)' = PacksWith(o) \ {doomed}
  BY <1>1, <1>2, <1>4, ZenonT(60) DEF PacksWith, CompletePacks, TypeOK
<1>6. ASSUME NEW o \in marked, PacksWith(o) # {}
      PROVE  PacksWith(o)' # {}
  <2>1. PacksWith(o) \in SUBSET Nat
    BY DEF PacksWith, CompletePacks, PackIds
  <2>2. CanonicalPack(o) \in PacksWith(o)
    BY <1>6, <2>1, LeastKey DEF CanonicalPack
  <2>3. CanonicalPack(o) # doomed
    BY <1>3, <1>6, <2>2, ZenonT(60) DEF MarkedPack, PacksWith
  <2> QED
    BY <1>5, <2>2, <2>3
<1> QED
  BY <1>2, <1>5, <1>6, ZenonT(60) DEF Readable

\* The sweeps keep the invariant.
LEMMA SweepSound ==
  ASSUME KeysetFacts, IInv, Maintain,
         FinishMark \/ SweepLoose \/ FinishLoose \/ SweepPack \/ AuditPacks
  PROVE  IInv'
<1>1. ~Stale
  BY NotDrifted, ZenonT(60) DEF FinishMark, SweepLoose, FinishLoose, SweepPack, AuditPacks
<1>2. TypeOK /\ run \in RunType /\ run.generation = sourceGeneration
  BY <1>1 DEF IInv, TypeOK, Stale
<1>3. /\ run.phase \in {"mark", "loose", "packs"}
      /\ UNCHANGED << marked, expanded, boundary, edgeCursor >>
  BY ZenonT(60) DEF FinishMark, SweepLoose, FinishLoose, SweepPack, AuditPacks, marks
<1>4. Readable' \subseteq Readable
  BY <1>2, SameStorage, SweepLooseKeepsMarked, SweepPackKeepsMarked, ZenonT(60)
     DEF FinishMark, FinishLoose, AuditPacks, NothingSwept
<1>5. /\ run'.phase \in {"loose", "packs", "finish"} /\ run'.started = run.started
      /\ run'.epoch = run.epoch /\ run'.generation = sourceGeneration'
  <2>1. CASE FinishMark
    BY <1>2, <2>1 DEF FinishMark, NothingSwept, RunType
  <2>2. CASE SweepLoose
    BY <1>2, <2>2 DEF SweepLoose, Swept, RunType
  <2>3. CASE FinishLoose
    BY <1>2, <2>3 DEF FinishLoose, NothingSwept, RunType
  <2>4. CASE SweepPack
    BY <1>2, <2>4 DEF SweepPack, Swept, RunType
  <2>5. CASE AuditPacks
    BY <1>2, <2>5 DEF AuditPacks, RunType
  <2> QED
    BY <2>1, <2>2, <2>3, <2>4, <2>5
<1>6. expanded = marked
  <2>1. CASE FinishMark
    BY <1>2, <2>1, ZenonT(60) DEF FinishMark, Queue, TypeOK
  <2>2. CASE SweepLoose \/ FinishLoose \/ SweepPack \/ AuditPacks
    BY <1>1, <2>2, ZenonT(60) DEF IInv, MarkSound, SweepLoose, FinishLoose, SweepPack, AuditPacks
  <2> QED
    BY <2>1, <2>2
<1> QED
  BY <1>1, <1>3, <1>4, <1>5, <1>6, KeptMarksSound, ZenonT(60)

\* Every call of maintenance keeps the invariant.
LEMMA MaintainSound ==
  ASSUME KeysetFacts, IInv, Maintain
  PROVE  IInv'
<1>1. CASE WaitForEligibility
  <2>1. UNCHANGED << run, sourceGeneration >> /\ run'.phase = "finish"
    BY <1>1, ZenonT(60) DEF WaitForEligibility, NothingSwept
  <2>2. RunObserved'
    <3>1. /\ run.epoch \in Nat /\ run.generation \in Nat /\ run.started \in Nat
          /\ rootEpoch \in Nat /\ sourceGeneration \in Nat /\ now \in Nat
      BY CountersAreNat DEF IInv
    <3>2. rootEpoch <= rootEpoch' /\ rootEpoch' \in Nat /\ now' = now
      BY <3>1, CallFrame, EqualNotAhead, ZenonT(60) DEF TypeOK
    <3>3. run.epoch <= rootEpoch /\ run.generation <= sourceGeneration /\ run.started <= now
      BY ZenonT(60) DEF IInv, RunObserved
    <3>4. run.epoch <= rootEpoch'
      BY <3>1, <3>2, <3>3
    <3> QED
      BY <2>1, <3>2, <3>3, <3>4, ZenonT(60) DEF RunObserved
  <2> QED
    BY <2>1, <2>2, CallFrame DEF IInv, MarkSound
<1> QED
  BY <1>1, DiscoverySound, StartOverSound, ExpandMarkSound, SweepSound, ZenonT(60)
     DEF Maintain, AdvanceMaintenance

\* The invariant holds at first.
LEMMA InitSound == Init => IInv
<1> SUFFICES ASSUME Init PROVE IInv
  BY ZenonT(60)
<1>1. RunObserved
  BY DEF Init, NoRun, RunObserved
<1>2. MarkSound
  BY ZenonT(60) DEF Init, NoRun, MarkSound
<1> QED
  BY <1>1, <1>2, InitTypeOK DEF IInv

\* Every step keeps the invariant.
LEMMA NextSound == KeysetFacts /\ IInv /\ [Next]_vars => IInv'
<1> SUFFICES ASSUME KeysetFacts, IInv, [Next]_vars PROVE IInv'
  OBVIOUS
<1>1. TypeOK'
  BY NextTypeOK DEF IInv
<1>2. CASE Tick \/ UNCHANGED vars
  <2>1. /\ UNCHANGED << loose, packState, packObjects, roots, reflog, transfers,
                        rootEpoch, sourceGeneration, run, marked, expanded,
                        boundary, edgeCursor >>
        /\ now <= now'
    <3>1. /\ UNCHANGED << loose, packState, packObjects, roots, reflog, transfers,
                          rootEpoch, sourceGeneration, run, marked, expanded,
                          boundary, edgeCursor >>
          /\ now' = now + 1 \/ now' = now
      BY <1>2, ZenonT(60) DEF Tick, vars, storage, rootRows, marks
    <3>2. now \in Nat
      BY CountersAreNat DEF IInv
    <3>3. now <= now'
      BY <3>1, <3>2
    <3> QED
      BY <3>1, <3>3, ZenonT(60)
  <2>2. Quiet
    BY <2>1, SameStorage, ZenonT(60) DEF Quiet
  <2> QED
    BY <1>1, <2>1, <2>2, QuietSound, ZenonT(60)
<1> QED
  BY <1>2, ForegroundSound, MaintainSound DEF Next

\* The closure of the live roots is marked when a run sweeps.
LEMMA ReachableMarked ==
  ASSUME IInv, ~Stale, run.phase \in {"loose", "packs"}
  PROVE  Reachable \subseteq marked \cap Readable
<1> DEFINE C == marked \cap Readable
           E == [o \in Objects |-> Edges(o, roots["shallow"]) \cap Readable]
<1>1. /\ TypeOK /\ RootsMarked /\ EdgesMarked /\ boundary \subseteq roots["shallow"]
      /\ expanded = marked
  BY DEF IInv, MarkSound
<1>2. \A s \in RowSources \cup {"reflogs", "transfers"} :
        \A o \in SourceRows(s, run.started, transfers) \cap Readable :
          o \in marked /\ (s = "shallow" => o \in boundary)
  BY <1>1, RootSourceNames, ZenonT(60) DEF RootsMarked
<1>3. \A s \in RowSources : SourceRows(s, run.started, transfers) = roots[s]
  BY DEF SourceRows, RowSources
<1>4. SourceRows("transfers", run.started, transfers) = TransferRoots(transfers)
  BY DEF SourceRows
<1>5. ReflogRoots(now) \subseteq SourceRows("reflogs", run.started, transfers)
  <2>1. /\ now \in Nat /\ run.started \in Nat /\ run.started <= now
        /\ \A o \in Objects : reflog[o] \in Int
    BY <1>1 DEF TypeOK, RunType, IInv, RunObserved, TimesOrNone, NoTime
  <2>2. \A o \in Objects : reflog[o] >= now - RETENTION => reflog[o] >= run.started - RETENTION
    BY <2>1, BoundsAssumption
  <2> QED
    BY <2>2, ZenonT(60) DEF ReflogRoots, SourceRows
<1>6. LiveRoots \cap Readable \subseteq C
  BY <1>2, <1>3, <1>4, <1>5, ZenonT(60) DEF LiveRoots
<1>7. \A c \in C : E[c] \subseteq C
  <2>1. \A c \in C : c \in boundary <=> c \in roots["shallow"]
    BY <1>1, <1>2, <1>3, ZenonT(60) DEF RowSources
  <2>2. \A c \in C : Edges(c, roots["shallow"]) = Edges(c, boundary)
    BY <2>1, ZenonT(60) DEF Edges
  <2>3. \A c \in C : Edges(c, boundary) \cap Readable \subseteq C
    BY <1>1 DEF EdgesMarked, TypeOK
  <2> QED
    BY <1>1, <2>2, <2>3, ZenonT(60) DEF TypeOK
<1>8. C \in SUBSET Objects
  BY DEF Readable
<1> HIDE DEF C, E
<1>9. Closure(LiveRoots \cap Readable, E) \subseteq C
  BY <1>6, <1>7, <1>8, ClosureLeast
<1> QED
  BY <1>9 DEF Reachable, C, E
=============================================================================
