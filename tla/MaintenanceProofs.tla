------------------------- MODULE MaintenanceProofs -------------------------
(* The theorems about maintenance.  The facts about pages that the modules on *)
(* types, marks and sweeps assume are proved here, from the library's         *)
(* theorems on finite sets and on well-founded induction.                     *)
EXTENDS MaintenanceMarkProofs, FiniteSetTheorems, WellFoundedInduction

\* A step that names no prover is tried with each of these in turn.
USE SMT, ZenonT(60), SMTT(60)

\* What a foreground transaction does to storage and to the candidates.
LEMMA ForegroundKeepsStorage ==
  ASSUME TypeOK, Foreground
  PROVE  /\ loose \subseteq loose'
         /\ \A p \in PackIds : packState[p] = "complete" =>
              packState'[p] = "complete" /\ packObjects'[p] = packObjects[p]
         /\ now' = now /\ looseSince' = looseSince
         /\ \A p \in PackIds : packSince'[p] = packSince[p] \/ packSince'[p] = NoTime
         /\ \A o \in Objects : arrived'[o] = arrived[o] \/ (o \notin Readable /\ arrived'[o] = now)
<1>1. ASSUME NEW batch \in Batches, WriteObjects(batch)
      PROVE  /\ loose \subseteq loose' /\ UNCHANGED << now, packState, packObjects, looseSince, packSince >>
             /\ \A o \in Objects : arrived'[o] = arrived[o] \/ (o \notin Readable /\ arrived'[o] = now)
  BY <1>1, ZenonT(60) DEF WriteObjects, RecordArrival, candidates
<1>2. ASSUME NEW content \in PackContents, ReservePack(content)
      PROVE  /\ UNCHANGED << now, loose, looseSince, arrived >>
             /\ \A p \in PackIds : packState[p] = "complete" =>
                  packState'[p] = "complete" /\ packObjects'[p] = packObjects[p]
             /\ \A p \in PackIds : packSince'[p] = packSince[p] \/ packSince'[p] = NoTime
  BY <1>2 DEF ReservePack, TypeOK
<1>3. ASSUME NEW pack \in PackIds, NEW unresolved, PublishPack(pack, unresolved)
      PROVE  /\ UNCHANGED << now, loose, looseSince, packSince >>
             /\ \A p \in PackIds : packState[p] = "complete" =>
                  packState'[p] = "complete" /\ packObjects'[p] = packObjects[p]
             /\ \A o \in Objects : arrived'[o] = arrived[o] \/ (o \notin Readable /\ arrived'[o] = now)
  BY <1>3, ZenonT(60) DEF PublishPack, RecordArrival, candidates, TypeOK
<1>4. ASSUME NEW pack \in PackIds, DiscardPack(pack)
      PROVE  /\ UNCHANGED << now, loose, looseSince, arrived >>
             /\ \A p \in PackIds : packState[p] = "complete" =>
                  packState'[p] = "complete" /\ packObjects'[p] = packObjects[p]
             /\ \A p \in PackIds : packSince'[p] = packSince[p] \/ packSince'[p] = NoTime
  BY <1>4, ZenonT(60) DEF DiscardPack, TypeOK
<1>5. \/ \E batch \in Batches : WriteObjects(batch)
      \/ \E content \in PackContents : ReservePack(content)
      \/ \E pack \in PackIds, unresolved \in SUBSET Blobs : PublishPack(pack, unresolved)
      \/ \E pack \in PackIds : DiscardPack(pack)
      \/ UNCHANGED << now, storage, candidates, arrived >>
  BY ZenonT(60) DEF Foreground, ForegroundOf, MutateRefs, MutateRows, UpdateShallow, CreateTransfer,
                    RenewTransfer, ReleaseTransfer, ProjectTree
<1>6. CASE UNCHANGED << now, storage, candidates, arrived >>
  BY <1>6 DEF storage, candidates
<1> QED
  BY <1>1, <1>2, <1>3, <1>4, <1>5, <1>6, ZenonT(60)

\* Every step but a sweep keeps or grows what is readable.
LEMMA OnlySweepsDelete ==
  ASSUME TypeOK, [Next]_vars, ~SweepLoose, ~SweepPack
  PROVE  Readable \subseteq Readable'
<1>1. CASE Tick \/ UNCHANGED vars
  <2>1. UNCHANGED << loose, packState, packObjects >>
    BY <1>1, ZenonT(60) DEF Tick, vars, storage
  <2> QED
    BY <2>1, SameStorage, ZenonT(60)
<1>2. CASE Maintain
  BY <1>2, SameStorage, ZenonT(60)
     DEF Maintain, AdvanceMaintenance, StartRun, RestartRun, ResetRun,
         WaitForEligibility, RollOver, SnapshotRoots, ExpandMark, FinishMark,
         FinishLoose, AuditPacks, NothingSwept
<1>3. CASE Foreground
  <2>1. /\ loose \subseteq loose'
        /\ \A p \in PackIds : packState[p] = "complete" =>
             packState'[p] = "complete" /\ packObjects'[p] = packObjects[p]
    BY <1>3, ForegroundKeepsStorage
  <2> QED
    BY <2>1 DEF Readable, PacksWith, CompletePacks
<1> QED
  BY <1>1, <1>2, <1>3, ZenonT(60) DEF Next

-----------------------------------------------------------------------------
\* The grace of a nomination.  A candidate belongs to a row that is there, and
\* it was entered after every object of that row had arrived.
GraceInv ==
  /\ \A o \in Objects : arrived[o] <= now
  /\ \A o \in Objects : looseSince[o] # NoTime => o \in loose /\ arrived[o] <= looseSince[o]
  /\ \A p \in PackIds : packSince[p] # NoTime =>
       packState[p] = "complete" /\ \A o \in packObjects[p] : arrived[o] <= packSince[p]

\* A foreground write gives the time of arrival to objects that were not
\* readable, and those belong to no candidate.
LEMMA ForegroundKeepsGrace ==
  ASSUME TypeOK, GraceInv, Foreground
  PROVE  GraceInv'
<1>1. now \in Nat /\ packObjects \in [PackIds -> SUBSET Objects] /\ loose \subseteq Objects
  BY DEF TypeOK
<1>2. \A o \in Objects : o \in loose \/ (\E p \in PackIds : packState[p] = "complete" /\ o \in packObjects[p])
                           => o \in Readable
  BY DEF Readable, PacksWith, CompletePacks
<1>3. \A o \in Objects : arrived'[o] <= now'
  BY <1>1, ForegroundKeepsStorage DEF GraceInv
<1>4. \A o \in Objects : looseSince'[o] # NoTime => o \in loose' /\ arrived'[o] <= looseSince'[o]
  BY <1>2, ForegroundKeepsStorage, ZenonT(60) DEF GraceInv
<1>5. ASSUME NEW p \in PackIds, packSince'[p] # NoTime
      PROVE  packState'[p] = "complete" /\ \A o \in packObjects'[p] : arrived'[o] <= packSince'[p]
  <2>1. /\ packSince'[p] = packSince[p] /\ packState'[p] = "complete" /\ packObjects'[p] = packObjects[p]
        /\ packState[p] = "complete" /\ \A o \in packObjects[p] : arrived[o] <= packSince[p]
    BY <1>5, ForegroundKeepsStorage, ZenonT(60) DEF GraceInv
  <2>2. \A o \in packObjects[p] : arrived'[o] = arrived[o]
    BY <1>1, <1>2, <2>1, ForegroundKeepsStorage, ZenonT(60)
  <2> QED
    BY <2>1, <2>2, ZenonT(60)
<1> QED
  BY <1>3, <1>4, <1>5, ZenonT(60) DEF GraceInv

\* The loose sweep enters candidates now, for rows that stay.
LEMMA SweepLooseKeepsGrace ==
  ASSUME TypeOK, GraceInv, SweepLoose, UNCHANGED << now, arrived >>
  PROVE  GraceInv'
<1> DEFINE page == LowestPage(PAGE_ROWS, LooseActions)
           doomed == {o \in page \ marked : looseSince[o] # NoTime}
<1>1. /\ loose' = loose \ doomed /\ looseSince' = LooseCandidates(page, doomed)
      /\ UNCHANGED << packState, packObjects, packSince >>
  BY DEF SweepLoose
<1>2. page \subseteq loose
  BY DEF LowestPage, LooseActions
<1> HIDE DEF page
<1>3. \A o \in Objects : looseSince'[o] # NoTime => o \in loose' /\ arrived[o] <= looseSince'[o]
  <2> SUFFICES ASSUME NEW o \in Objects, looseSince'[o] # NoTime
               PROVE  o \in loose' /\ arrived[o] <= looseSince'[o]
    OBVIOUS
  <2>1. CASE o \notin page
    <3>1. looseSince'[o] = looseSince[o] /\ o \notin doomed
      BY <1>1, <2>1 DEF LooseCandidates
    <3> HIDE DEF doomed
    <3> QED
      BY <1>1, <3>1, ZenonT(60) DEF GraceInv
  <2>2. CASE o \in page
    <3>1. o \notin marked /\ o \notin doomed /\ looseSince'[o] = now
      BY <1>1, <2>2, ZenonT(60) DEF LooseCandidates
    <3> QED
      BY <1>1, <1>2, <2>2, <3>1, ZenonT(60) DEF GraceInv
  <2> QED
    BY <2>1, <2>2, ZenonT(60)
<1> QED
  BY <1>1, <1>3, ZenonT(60) DEF GraceInv

\* So does the pack sweep.
LEMMA AuditedKeepsGrace ==
  ASSUME TypeOK, GraceInv, NEW examined, UNCHANGED << now, arrived >>,
         NEW p \in PackIds, Audited(examined)[p] # NoTime
  PROVE  packState[p] = "complete" /\ \A o \in packObjects[p] : arrived[o] <= Audited(examined)[p]
<1>1. \A o \in packObjects[p] : o \in Objects
  BY DEF TypeOK
<1>2. \/ Audited(examined)[p] = packSince[p]
      \/ Collectable(p) /\ Audited(examined)[p] = now
  BY ZenonT(60) DEF Audited
<1> QED
  BY <1>1, <1>2, ZenonT(60) DEF GraceInv, Collectable

\* The sweep of packs keeps the nominations honest.
LEMMA SweepPackKeepsGrace ==
  ASSUME KeysetFacts, TypeOK, GraceInv, SweepPack \/ AuditPacks, UNCHANGED << now, arrived >>
  PROVE  GraceInv'
<1>1. PICK examined, gone :
        /\ \A p \in PackIds : packSince'[p] # NoTime => p # gone /\ packSince'[p] = Audited(examined)[p]
        /\ \A p \in PackIds : p # gone => packState'[p] = packState[p] /\ packObjects'[p] = packObjects[p]
        /\ looseSince' = looseSince /\ loose' = loose
  <2>1. CASE SweepPack
    <3> DEFINE doomed == MinOf(DoomedPacks)
               before == {p \in LowestPage(PAGE_ROWS, PackActions) : p < doomed}
    <3>1. /\ packState' = [packState EXCEPT ![doomed] = "absent"]
          /\ packObjects' = [packObjects EXCEPT ![doomed] = {}]
          /\ packSince' = [Audited(before) EXCEPT ![doomed] = NoTime]
          /\ looseSince' = looseSince /\ loose' = loose
      BY <2>1, ZenonT(60) DEF SweepPack
    <3>2. /\ DOMAIN Audited(before) = PackIds /\ DOMAIN packState = PackIds /\ DOMAIN packObjects = PackIds
      BY DEF Audited, TypeOK
    <3> HIDE DEF doomed, before
    <3>3. /\ \A p \in PackIds : packSince'[p] # NoTime => p # doomed /\ packSince'[p] = Audited(before)[p]
          /\ \A p \in PackIds : p # doomed => packState'[p] = packState[p] /\ packObjects'[p] = packObjects[p]
      BY <3>1, <3>2, ZenonT(60)
    <3> QED
      BY <3>1, <3>3, ZenonT(60)
  <2>2. CASE AuditPacks
    <3> DEFINE page == LowestPage(PAGE_ROWS, PackActions)
    <3>1. packSince' = Audited(page) /\ UNCHANGED << packState, packObjects, looseSince, loose >>
      BY <2>2 DEF AuditPacks
    <3>2. \A p \in PackIds : p # 0
      BY DEF PackIds
    <3> HIDE DEF page
    <3> QED
      BY <3>1, <3>2, ZenonT(60)
  <2> QED
    BY <2>1, <2>2, ZenonT(60)
<1> QED
  BY <1>1, AuditedKeepsGrace, ZenonT(60) DEF GraceInv

\* Every step keeps the nominations honest.
LEMMA NextKeepsGrace ==
  ASSUME KeysetFacts, TypeOK, GraceInv, [Next]_vars
  PROVE  GraceInv'
<1>1. CASE Foreground
  BY <1>1, ForegroundKeepsGrace, ZenonT(60)
<1>2. CASE Tick \/ UNCHANGED vars
  <2>1. /\ UNCHANGED << loose, packState, packObjects, looseSince, packSince, arrived >>
        /\ now \in Nat /\ (now' = now \/ now' = now + 1) /\ \A o \in Objects : arrived[o] \in Nat
    BY <1>2, ZenonT(60) DEF Tick, vars, storage, candidates, TypeOK
  <2> QED
    BY <2>1 DEF GraceInv
<1>3. CASE Maintain
  <2>1. UNCHANGED << now, arrived >>
    BY <1>3 DEF Maintain
  <2>2. CASE ~SweepLoose /\ ~SweepPack /\ ~AuditPacks
    <3>1. UNCHANGED << loose, packState, packObjects, looseSince, packSince >>
      BY <1>3, <2>2, ZenonT(60)
         DEF Maintain, AdvanceMaintenance, StartRun, RestartRun, ResetRun,
             WaitForEligibility, RollOver, SnapshotRoots, ExpandMark, FinishMark,
             FinishLoose, NothingSwept, candidates
    <3> QED
      BY <2>1, <3>1, ZenonT(60) DEF GraceInv
  <2> QED
    BY <2>1, <2>2, SweepLooseKeepsGrace, SweepPackKeepsGrace, ZenonT(60)
<1> QED
  BY <1>1, <1>2, <1>3, ZenonT(60) DEF Next

\* A sweep deletes a row whose grace ended, so every object of it arrived a
\* grace ago.
LEMMA SweepAfterGrace ==
  ASSUME KeysetFacts, TypeOK, GraceInv, SweepLoose \/ SweepPack, NEW x \in Readable \ Readable'
  PROVE  arrived[x] + GC_GRACE <= now
<1>1. /\ x \in Objects /\ arrived[x] \in Nat /\ now \in Nat /\ GC_GRACE \in Nat
  BY BoundsAssumption, ZenonT(60) DEF Readable, TypeOK
<1>2. CASE SweepLoose
  <2>1. x \in loose /\ x \notin loose'
    BY <1>2, ZenonT(60) DEF SweepLoose, Readable, PacksWith, CompletePacks
  <2>2. x \in LooseActions /\ x \notin marked /\ looseSince[x] # NoTime
    BY <1>2, <2>1, ZenonT(60) DEF SweepLoose, LowestPage
  <2>3. EligibleAt(looseSince[x]) <= now
    BY <2>2, ZenonT(60) DEF LooseActions
  <2>4. looseSince[x] \in Nat /\ arrived[x] <= looseSince[x]
    BY <1>1, <2>2, ZenonT(60) DEF GraceInv, TypeOK, TimesOrNone
  <2> QED
    BY <1>1, <2>3, <2>4 DEF EligibleAt
<1>3. CASE SweepPack
  <2> DEFINE doomed == MinOf(DoomedPacks)
  <2>1. doomed \in DoomedPacks /\ doomed \in PackIds
    <3>1. DoomedPacks \in SUBSET PackIds /\ DoomedPacks \in SUBSET Nat /\ DoomedPacks # {}
      BY <1>3, PackPageTyped DEF DoomedPacks, PackIds, SweepPack
    <3> QED
      BY <3>1, LeastKey, ZenonT(60)
  <2>2. /\ packState' = [packState EXCEPT ![doomed] = "absent"]
        /\ packObjects' = [packObjects EXCEPT ![doomed] = {}]
        /\ loose' = loose
    BY <1>3, ZenonT(60) DEF SweepPack
  <2>3. doomed \in PackActions /\ Collectable(doomed) /\ packSince[doomed] # NoTime
    BY <2>1 DEF DoomedPacks, LowestPage
  <2>4. EligibleAt(packSince[doomed]) <= now
    BY <2>3, ZenonT(60) DEF PackActions
  <2> HIDE DEF doomed
  <2>5. x \in packObjects[doomed]
    <3>1. \A p \in PackIds : p # doomed =>
            packState'[p] = packState[p] /\ packObjects'[p] = packObjects[p]
      BY <2>2, ZenonT(60) DEF TypeOK
    <3> QED
      BY <2>2, <3>1, ZenonT(60) DEF Readable, PacksWith, CompletePacks
  <2>6. packSince[doomed] \in Nat /\ arrived[x] <= packSince[doomed]
    BY <2>1, <2>3, <2>5, ZenonT(60) DEF GraceInv, TypeOK, TimesOrNone
  <2> QED
    BY <1>1, <2>4, <2>6 DEF EligibleAt
<1> QED
  BY <1>2, <1>3, ZenonT(60)

-----------------------------------------------------------------------------
\* The verdicts of the pack pass.  A foreground transaction that the run does
\* not notice leaves the complete packs alone.
LEMMA ForegroundNoticed ==
  ASSUME IInv, Foreground
  PROVE  /\ UNCHANGED << run, marked >>
         /\ \/ Stale'
            \/ /\ UNCHANGED << rootEpoch, sourceGeneration >>
               /\ \A p \in PackIds : packState[p] = "complete" <=> packState'[p] = "complete"
<1>0. /\ TypeOK /\ RunObserved /\ rootEpoch \in Nat /\ sourceGeneration \in Nat
      /\ run.epoch \in Nat /\ run.generation \in Nat
  BY DEF IInv, TypeOK, RunType
<1>1. UNCHANGED << run, marked >>
  BY ZenonT(60)
     DEF Foreground, ForegroundOf, WriteObjects, ReservePack, PublishPack, DiscardPack, MutateRefs,
         MutateRows, UpdateShallow, CreateTransfer, RenewTransfer, ReleaseTransfer, ProjectTree, marks
<1>2. \/ sourceGeneration' = sourceGeneration + 1
      \/ rootEpoch' = rootEpoch + 1
      \/ UNCHANGED << rootEpoch, sourceGeneration, packState >>
      \/ \E content \in PackContents : ReservePack(content)
      \/ \E pack \in PackIds : DiscardPack(pack)
  BY ZenonT(60)
     DEF Foreground, ForegroundOf, WriteObjects, PublishPack, MutateRefs, MutateRows, UpdateShallow,
         CreateTransfer, RenewTransfer, ReleaseTransfer, ProjectTree, BumpEpoch, BumpGeneration, storage
<1>3. sourceGeneration' = sourceGeneration + 1 \/ rootEpoch' = rootEpoch + 1 => Stale'
  BY <1>0, <1>1 DEF RunObserved, Stale
<1>4. ASSUME NEW content \in PackContents, ReservePack(content)
      PROVE  /\ UNCHANGED << rootEpoch, sourceGeneration >>
             /\ \A p \in PackIds : packState[p] = "complete" <=> packState'[p] = "complete"
  <2>1. lastPackId + 1 \in PackIds /\ packState[lastPackId + 1] = "absent"
    BY <1>0, <1>4 DEF ReservePack, TypeOK
  <2> QED
    BY <1>4, <2>1, ZenonT(60) DEF ReservePack
<1>5. ASSUME NEW pack \in PackIds, DiscardPack(pack)
      PROVE  /\ UNCHANGED << rootEpoch, sourceGeneration >>
             /\ \A p \in PackIds : packState[p] = "complete" <=> packState'[p] = "complete"
  BY <1>0, <1>5, ZenonT(60) DEF DiscardPack, TypeOK
<1> QED
  BY <1>1, <1>2, <1>3, <1>4, <1>5, ZenonT(60)

\* Foreground transactions keep the verdicts of a pass, or make it stale.
LEMMA ForegroundKeepsVerdicts ==
  ASSUME IInv, GraceInv, PackVerdictsStand, Foreground
  PROVE  PackVerdictsStand'
<1> SUFFICES ASSUME run'.phase = "packs", ~Stale', NEW p \in PackIds, p <= run'.cursor,
                    packSince'[p] # NoTime
             PROVE  Collectable(p)'
  BY DEF PackVerdictsStand
<1>1. /\ UNCHANGED << run, marked, rootEpoch, sourceGeneration >>
      /\ \A q \in PackIds : packState[q] = "complete" <=> packState'[q] = "complete"
  BY ForegroundNoticed, ZenonT(60)
<1>2. /\ packSince[p] # NoTime
      /\ \A q \in PackIds : packState[q] = "complete" => packObjects'[q] = packObjects[q]
  BY ForegroundKeepsStorage, ZenonT(60) DEF IInv
<1>3. Collectable(p)
  BY <1>1, <1>2, ZenonT(60) DEF PackVerdictsStand, Stale
<1>4. \A o : PacksWith(o)' = PacksWith(o)
  BY <1>1, <1>2, ZenonT(60) DEF PacksWith, CompletePacks
<1> QED
  BY <1>1, <1>2, <1>3, <1>4, ZenonT(60) DEF Collectable, MarkedPack, CanonicalPack

\* What a page of the pack pass says of the packs up to its last one.
LEMMA VerdictsOfPage ==
  ASSUME KeysetFacts, IInv, GraceInv, PackVerdictsStand, run.phase = "packs", ~Stale,
         NEW last \in LowestPage(PAGE_ROWS, PackActions),
         NEW examined, {q \in LowestPage(PAGE_ROWS, PackActions) : q < last} \subseteq examined,
         NEW p \in PackIds, p <= last, p = last => p \in examined,
         Audited(examined)[p] # NoTime
  PROVE  Collectable(p)
<1>1. CASE p \in examined
  BY <1>1 DEF Audited
<1>2. CASE p \notin examined
  <2>1. packSince[p] # NoTime /\ packState[p] = "complete"
    BY <1>2, ZenonT(60) DEF Audited, GraceInv
  <2>2. p \in Nat /\ run.cursor \in Nat /\ last \in Nat /\ p # last
    BY <1>2, PackPageTyped DEF IInv, TypeOK, RunType, PackIds
  <2>3. p \notin LowestPage(PAGE_ROWS, PackActions)
    BY <1>2, <2>2
  <2>4. p \notin PackActions
    BY <2>3, PackPageTyped, PagePrefix, BoundsAssumption, ZenonT(60) DEF IInv
  <2>5. CASE p <= run.cursor
    BY <2>1, <2>5, ZenonT(60) DEF PackVerdictsStand
  <2>6. CASE p > run.cursor
    BY <2>1, <2>4, <2>6, ZenonT(60) DEF PackActions
  <2> QED
    BY <2>2, <2>5, <2>6
<1> QED
  BY <1>1, <1>2, ZenonT(60)

\* The deleted pack was nobody's canonical owner below it.
LEMMA DeletionKeepsVerdict ==
  ASSUME KeysetFacts, TypeOK, NEW doomed \in PackIds, NEW p \in PackIds, p < doomed,
         packState' = [packState EXCEPT ![doomed] = "absent"],
         packObjects' = [packObjects EXCEPT ![doomed] = {}], marked' = marked,
         Collectable(p)
  PROVE  Collectable(p)'
<1>1. \A q \in PackIds : q # doomed =>
        packState'[q] = packState[q] /\ packObjects'[q] = packObjects[q]
  BY ZenonT(60) DEF TypeOK
<1>2. packState'[doomed] = "absent"
  BY DEF TypeOK
<1>3. \A o : PacksWith(o)' = PacksWith(o) \ {doomed}
  BY <1>1, <1>2, ZenonT(60) DEF PacksWith, CompletePacks
<1>4. p # doomed /\ p \in Nat /\ doomed \in Nat
  BY DEF PackIds
<1>5. ASSUME NEW o \in packObjects[p] \cap marked, PacksWith(o)' # {}, CanonicalPack(o)' = p
      PROVE  MarkedPack(p)
  <2>1. PacksWith(o) \in SUBSET Nat /\ PacksWith(o)' \in SUBSET Nat /\ p \in PacksWith(o)
    BY <1>4, <1>5 DEF PacksWith, CompletePacks, PackIds, Collectable
  <2>2. CanonicalPack(o) \in PacksWith(o) /\ CanonicalPack(o) <= p
    BY <2>1, LeastKey, ZenonT(60) DEF CanonicalPack
  <2>3. CanonicalPack(o) \in PacksWith(o)'
    BY <1>3, <1>4, <2>1, <2>2
  <2>4. p <= CanonicalPack(o)
    <3>1. \A y \in PacksWith(o)' : CanonicalPack(o)' <= y
      BY <1>5, <2>1, LeastKey, ZenonT(60) DEF CanonicalPack
    <3> QED
      BY <1>5, <2>3, <3>1, ZenonT(60)
  <2> QED
    BY <1>4, <2>1, <2>2, <2>4 DEF MarkedPack
<1> QED
  BY <1>1, <1>4, <1>5, ZenonT(60) DEF Collectable, MarkedPack

\* A slice of the pack sweep keeps the verdicts it does not carry out.
LEMMA PackSliceKeepsVerdicts ==
  ASSUME KeysetFacts, IInv, GraceInv, PackVerdictsStand, SweepPack \/ AuditPacks
  PROVE  PackVerdictsStand'
<1> SUFFICES ASSUME run'.phase = "packs", NEW p \in PackIds, p <= run'.cursor, packSince'[p] # NoTime
             PROVE  Collectable(p)'
  BY DEF PackVerdictsStand
<1>1. TypeOK /\ run.phase = "packs" /\ ~Stale /\ marked' = marked
  BY NotDrifted, ZenonT(60) DEF IInv, SweepPack, AuditPacks, marks
<1>2. CASE SweepPack
  <2> DEFINE doomed == MinOf(DoomedPacks)
             before == {q \in LowestPage(PAGE_ROWS, PackActions) : q < doomed}
  <2>1. doomed \in DoomedPacks /\ doomed \in PackIds
    <3>1. DoomedPacks \in SUBSET PackIds /\ DoomedPacks \in SUBSET Nat /\ DoomedPacks # {}
      BY <1>1, <1>2, PackPageTyped DEF DoomedPacks, PackIds, SweepPack
    <3> QED
      BY <3>1, LeastKey, ZenonT(60)
  <2>2. doomed \in LowestPage(PAGE_ROWS, PackActions)
    BY <2>1, ZenonT(60) DEF DoomedPacks
  <2>3. /\ packState' = [packState EXCEPT ![doomed] = "absent"]
        /\ packObjects' = [packObjects EXCEPT ![doomed] = {}]
        /\ packSince' = [Audited(before) EXCEPT ![doomed] = NoTime]
        /\ run' = [Swept(sourceGeneration') EXCEPT !.cursor = doomed]
    BY <1>2, ZenonT(60) DEF SweepPack
  <2> HIDE DEF doomed
  <2>4. run'.cursor = doomed
    BY <1>1, <2>3, ZenonT(60) DEF Swept, TypeOK, RunType
  <2>5. p # doomed /\ p < doomed /\ Audited(before)[p] # NoTime
    <3>1. Audited(before) \in [PackIds -> TimesOrNone]
      BY <1>1, AuditedTyped, ZenonT(60)
    <3> HIDE DEF before
    <3>2. p # doomed /\ Audited(before)[p] # NoTime
      BY <2>1, <2>3, <3>1, ZenonT(60)
    <3> QED
      BY <2>1, <2>4, <3>2 DEF PackIds
  <2>6. Collectable(p)
    <3>1. before \subseteq before /\ p <= doomed /\ (p = doomed => p \in before)
      BY <2>1, <2>5 DEF PackIds
    <3> QED
      BY <1>1, <2>2, <2>5, <3>1, VerdictsOfPage, ZenonT(60)
  <2> QED
    BY <1>1, <2>1, <2>3, <2>5, <2>6, DeletionKeepsVerdict, ZenonT(60)
<1>3. CASE AuditPacks
  <2> DEFINE page == LowestPage(PAGE_ROWS, PackActions)
  <2>1. /\ packSince' = Audited(page) /\ UNCHANGED << packState, packObjects >>
        /\ run' = IF Cardinality(page) = PAGE_ROWS
                  THEN [run EXCEPT !.cursor = MaxOf(page)]
                  ELSE [run EXCEPT !.phase = "finish", !.cursor = 0, !.nextEligible = run'.nextEligible]
    BY <1>1, <1>3, ZenonT(60) DEF AuditPacks, TypeOK, RunType
  <2>2. page \in SUBSET (1 .. MaxPack) /\ MaxPack \in Nat
    BY <1>1, PackPageTyped, ZenonT(60)
  <2>3. page = {} => Cardinality(page) = 0
    BY DEF KeysetFacts
  <2> HIDE DEF page
  <2>4. Cardinality(page) = PAGE_ROWS /\ run'.cursor = MaxOf(page)
    BY <1>1, <2>1, ZenonT(60) DEF TypeOK, RunType
  <2>5. page # {}
    BY <2>3, <2>4, BoundsAssumption, ZenonT(60)
  <2>6. MaxOf(page) \in page /\ \A y \in page : y <= MaxOf(page)
    BY <2>2, <2>5, GreatestKey, ZenonT(60)
  <2>7. p <= MaxOf(page)
    BY <2>4
  <2>8. Collectable(p)
    <3>1. /\ {q \in page : q < MaxOf(page)} \subseteq page /\ (p = MaxOf(page) => p \in page)
          /\ Audited(page)[p] # NoTime
      BY <2>1, <2>6
    <3> QED
      BY <1>1, <2>6, <2>7, <3>1, VerdictsOfPage, ZenonT(60) DEF page
  <2> QED
    BY <1>1, <2>1, <2>8 DEF Collectable, MarkedPack, CanonicalPack, PacksWith, CompletePacks
<1> QED
  BY <1>2, <1>3, ZenonT(60)

\* Every step keeps the verdicts.
LEMMA NextKeepsVerdicts ==
  ASSUME KeysetFacts, IInv, GraceInv, PackVerdictsStand, [Next]_vars
  PROVE  PackVerdictsStand'
<1>1. CASE Tick \/ UNCHANGED vars
  <2>1. UNCHANGED << run, rootEpoch, sourceGeneration, packState, packObjects, packSince, marked >>
    BY <1>1 DEF Tick, vars, storage, marks, candidates
  <2> QED
    BY <2>1, ZenonT(60) DEF PackVerdictsStand, Stale, Collectable, MarkedPack, CanonicalPack, PacksWith, CompletePacks
<1>2. CASE FinishLoose
  <2>1. run'.cursor = 0
    BY <1>2 DEF FinishLoose, IInv, TypeOK, RunType
  <2> QED
    BY <2>1 DEF PackVerdictsStand, PackIds
<1>3. CASE Maintain /\ ~FinishLoose /\ ~SweepPack /\ ~AuditPacks
  <2>1. IInv'
    BY <1>3, MaintainSound, ZenonT(60)
  <2>2. run'.phase # "packs"
    <3>1. CASE StartRun \/ RestartRun \/ SnapshotRoots
      <4>1. PICK r, held, cut : RootPage(r, held, cut) /\ r \in RunType /\ r.phase = "roots"
        BY <3>1, FreshRunTyped, ZenonT(60) DEF StartRun, RestartRun, SnapshotRoots, IInv, TypeOK
      <4> QED
        BY <4>1, ZenonT(60) DEF RootPage, RunType
    <3>2. CASE ResetRun \/ RollOver
      BY <3>2, FreshRunTyped, ZenonT(60) DEF ResetRun, RollOver, IInv
    <3>3. CASE WaitForEligibility \/ ExpandMark \/ FinishMark \/ SweepLoose
      BY <3>3, ZenonT(60) DEF WaitForEligibility, ExpandMark, FinishMark, SweepLoose, Swept, IInv, TypeOK, RunType
    <3> QED
      BY <1>3, <3>1, <3>2, <3>3, ZenonT(60) DEF Maintain, AdvanceMaintenance
  <2> QED
    BY <2>2 DEF PackVerdictsStand
<1> QED
  BY <1>1, <1>2, <1>3, ForegroundKeepsVerdicts, PackSliceKeepsVerdicts, ZenonT(60) DEF Next

(* What the keyset helpers return, for every set of keys. *)

\* A nonempty set of naturals has a least element, and MinOf is that element.
LEMMA MinOfLeast ==
  ASSUME NEW S \in SUBSET Nat, S # {}
  PROVE  MinOf(S) \in S /\ \A y \in S : MinOf(S) <= y
<1>1. \E x \in S : \A y \in S : ~(<<y, x>> \in OpToRel(<, Nat))
  BY NatLessThanWellFounded, WFMin, ZenonT(60)
<1>2. \A x, y \in Nat : y < x => <<y, x>> \in OpToRel(<, Nat)
  BY DEF OpToRel
<1>3. \E x \in S : \A y \in S : x <= y
  <2>1. PICK x \in S : \A y \in S : ~(<<y, x>> \in OpToRel(<, Nat))
    BY <1>1, ZenonT(60)
  <2>2. \A y \in S : ~(y < x)
    BY <2>1, <1>2, ZenonT(60)
  <2> QED
    BY <2>2
<1> QED
  BY <1>3, ZenonT(60) DEF MinOf

\* A nonempty set of naturals below a bound has a greatest element.
LEMMA MaxOfGreatest ==
  ASSUME NEW n \in Nat, NEW S \in SUBSET (1 .. n), S # {}
  PROVE  MaxOf(S) \in S /\ \A y \in S : y <= MaxOf(S)
<1> DEFINE U == {u \in Nat : \A y \in S : y <= u}
<1>1. n \in U
  OBVIOUS
<1>2. MinOf(U) \in U /\ \A u \in U : MinOf(U) <= u
  <2>1. U \in SUBSET Nat /\ U # {}
    BY <1>1
  <2> HIDE DEF U
  <2> QED
    BY <2>1, MinOfLeast
<1> DEFINE m == MinOf(U)
<1>3. m \in Nat /\ \A y \in S : y <= m
  BY <1>2
<1>4. \A u \in Nat : (\A y \in S : y <= u) => m <= u
  BY <1>2
<1> HIDE DEF m
<1>5. m \in S
  <2> SUFFICES ASSUME m \notin S PROVE FALSE
    OBVIOUS
  <2>1. PICK s \in S : TRUE
    BY ZenonT(60)
  <2>2. s \in Nat /\ 1 <= s /\ s <= m
    BY <1>3
  <2>3. m - 1 \in Nat
    BY <2>2, <1>3
  <2>4. \A y \in S : y <= m - 1
    BY <1>3
  <2> QED
    BY <2>3, <2>4, <1>4, <1>3
<1>6. \E x \in S : \A y \in S : y <= x
  BY <1>5, <1>3
<1> QED
  BY <1>6, ZenonT(60) DEF MaxOf

\* A page is an initial segment of the keys, it is not empty while keys are
\* left, and every key up to its last one is in it.
LEMMA PageIsPrefix ==
  ASSUME NEW m \in Nat, NEW S \in SUBSET (1 .. m), NEW n \in Nat \ {0}
  PROVE  /\ LowestPage(n, S) \subseteq S
         /\ \A x \in S, y \in LowestPage(n, S) : x <= y => x \in LowestPage(n, S)
         /\ S # {} => LowestPage(n, S) # {}
<1> DEFINE Upto(x) == {y \in S : y <= x}
<1>0. \A y \in S : y \in Nat
  OBVIOUS
<1>1. IsFiniteSet(S)
  <2>1. IsFiniteSet(1 .. m)
    BY FS_Interval
  <2> QED
    BY <2>1, FS_Subset, ZenonT(60)
<1>2. \A x \in S : IsFiniteSet(Upto(x)) /\ Cardinality(Upto(x)) \in Nat
  BY <1>1, FS_Subset, FS_CardinalityType, ZenonT(60)
<1>3. LowestPage(n, S) \subseteq S
  BY DEF LowestPage
<1>4. ASSUME NEW x \in S, NEW y \in LowestPage(n, S), x <= y
      PROVE  x \in LowestPage(n, S)
  <2>1. y \in S /\ Cardinality(Upto(y)) <= n
    BY DEF LowestPage
  <2>2. Upto(x) \subseteq Upto(y)
    <3>1. \A z \in S : z <= x => z <= y
      BY <1>0, <1>4, <2>1
    <3> QED
      BY <3>1, ZenonT(60)
  <2>3. Cardinality(Upto(x)) <= Cardinality(Upto(y))
    BY <1>2, <2>1, <2>2, FS_Subset, ZenonT(60)
  <2>4. Cardinality(Upto(x)) <= n
    BY <1>2, <2>1, <2>3
  <2> QED
    BY <2>4 DEF LowestPage
<1>5. ASSUME S # {}
      PROVE  LowestPage(n, S) # {}
  <2>1. MinOf(S) \in S /\ \A y \in S : MinOf(S) <= y
    BY <1>5, MinOfLeast
  <2> DEFINE least == MinOf(S)
  <2> HIDE DEF least
  <2>2. least \in S /\ \A y \in S : least <= y
    BY <2>1 DEF least
  <2>3. Upto(least) = {least}
    <3>1. \A z \in S : z <= least <=> z = least
      BY <1>0, <2>2
    <3> QED
      BY <3>1, <2>2, ZenonT(60)
  <2>4. Cardinality(Upto(least)) = 1
    BY <2>3, FS_Singleton
  <2>5. Cardinality(Upto(least)) <= n
    BY <2>4
  <2> QED
    BY <2>2, <2>5 DEF LowestPage
<1> QED
  BY <1>3, <1>4, <1>5

\* The hypothesis of the proofs about pages holds.
LEMMA KeysetHolds == KeysetFacts
<1>1. \A n \in Nat : \A S \in SUBSET (1 .. n) : Cardinality(S) \in Nat
  <2> SUFFICES ASSUME NEW n \in Nat, NEW S \in SUBSET (1 .. n)
               PROVE  Cardinality(S) \in Nat
    BY ZenonT(60)
  <2>1. IsFiniteSet(1 .. n)
    BY FS_Interval
  <2> QED
    BY <2>1, FS_Subset, FS_CardinalityType, ZenonT(60)
<1> QED
  BY <1>1, MinOfLeast, MaxOfGreatest, PageIsPrefix, FS_EmptySet, ZenonT(60) DEF KeysetFacts

\* Every table keeps its type, whatever the foreground and the maintenance
\* calls do (the CHECK constraints of schema-maintenance-statements.ts and the
\* cursor validation of root-contracts.ts).
THEOREM TypeCorrect == Spec => []TypeOK
BY InitTypeOK, NextTypeOK, KeysetHolds, PTL DEF Spec

\* A run that nobody disturbed holds every root and every edge that it has
\* read (root-advance.ts publishPage, reachability-publish.ts
\* publishExpansion), however the calls interleave with the foreground.
THEOREM MarksAreSound == Spec => []MarkSound
<1>1. IInv => MarkSound
  BY DEF IInv
<1> QED
  BY <1>1, InitSound, NextSound, KeysetHolds, PTL DEF Spec

\* For every set of objects, roots, packs and transfers, and for every page
\* size: no step makes an object unreadable that a live root reaches.
THEOREM NothingReachableIsLost == Spec => NoReachableLost
<1>1. IInv /\ [Next]_vars => [Reachable \subseteq Readable']_vars
  <2> SUFFICES ASSUME IInv, [Next]_vars
               PROVE  Reachable \subseteq Readable'
    OBVIOUS
  <2>1. TypeOK
    BY DEF IInv
  <2>2. CASE SweepLoose
    <3>1. ~Stale /\ run.phase = "loose"
      BY <2>2, NotDrifted DEF SweepLoose
    <3> QED
      BY <2>2, <3>1, ReachableMarked, SweepLooseKeepsMarked, ZenonT(60)
  <2>3. CASE SweepPack
    <3>1. ~Stale /\ run.phase = "packs"
      BY <2>3, NotDrifted DEF SweepPack
    <3> QED
      BY <2>1, <2>3, <3>1, KeysetHolds, ReachableMarked, SweepPackKeepsMarked, ZenonT(60)
  <2>4. CASE ~SweepLoose /\ ~SweepPack
    <3>1. Reachable \subseteq Readable
      <4>1. Readable \in SUBSET Objects
        BY DEF Readable
      <4> QED
        BY <4>1, ClosureLeast DEF Reachable
    <3> QED
      BY <2>1, <2>4, <3>1, OnlySweepsDelete, ZenonT(60)
  <2> QED
    BY <2>2, <2>3, <2>4
<1>2. IInv /\ [Next]_vars => [\A o \in Readable \ Readable' : o \notin Reachable]_vars
  BY <1>1
<1> QED
  BY <1>2, InitSound, NextSound, KeysetHolds, PTL DEF Spec, NoReachableLost

-----------------------------------------------------------------------------
\* A sweep keeps the readable live roots and the marked objects, and strips the
\* projections that are not marked.
LEMMA SweepKeepsMarked ==
  ASSUME KeysetFacts, IInv, SweepLoose \/ SweepPack
  PROVE  /\ ~Stale /\ expanded = marked /\ EdgesMarked
         /\ Reachable \subseteq Readable' /\ Readable' \subseteq Readable
         /\ Readable \cap marked \subseteq Readable'
<1>1. ~Stale /\ run.phase \in {"loose", "packs"}
  BY NotDrifted, ZenonT(60) DEF SweepLoose, SweepPack
<1>2. Reachable \subseteq marked \cap Readable
  BY <1>1, ReachableMarked
<1>3. Readable' \subseteq Readable /\ Readable \cap marked \subseteq Readable'
  BY SweepLooseKeepsMarked, SweepPackKeepsMarked DEF IInv
<1>4. expanded = marked /\ EdgesMarked
  BY <1>1 DEF IInv, MarkSound
<1> QED
  BY <1>1, <1>2, <1>3, <1>4, ZenonT(60)

\* The mark follows every subtree, so the marked projections are closed.
LEMMA MarkedProjectionsClosed ==
  ASSUME TypeOK, StoreClosed, EdgesMarked, expanded = marked, NEW t \in projected \cap marked
  PROVE  Subtrees[t] \subseteq projected \cap marked
<1>1. t \in Trees /\ t \in Objects /\ t \notin Commits
  BY DEF TypeOK, Trees, Commits
<1>2. Subtrees[t] \subseteq Edges(t, boundary)
  BY <1>1, ZenonT(60) DEF Subtrees, Edges
<1>3. Subtrees[t] \subseteq projected /\ projected \subseteq Readable
  BY DEF StoreClosed
<1> QED
  BY <1>1, <1>2, <1>3, ZenonT(60) DEF EdgesMarked

\* A sweep takes the projections along that stand above a tree it deletes.
LEMMA SweptProjections ==
  ASSUME KeysetFacts, IInv, StoreClosed, SweepLoose \/ SweepPack
  PROVE  ProjectionsClosed'
<1>1. /\ TypeOK /\ expanded = marked /\ EdgesMarked /\ Readable \cap marked \subseteq Readable'
  BY SweepKeepsMarked, ZenonT(60) DEF IInv
<1>2. \A t \in projected \cap marked : t \in Readable' /\ Subtrees[t] \subseteq projected \cap marked
  BY <1>1, MarkedProjectionsClosed DEF StoreClosed
<1>3. CASE SweepLoose
  <2>1. projected' = projected \cap marked \/ (projected' = projected /\ loose' = loose)
    BY <1>3, ZenonT(60) DEF SweepLoose, ProjectionsMarked
  <2>2. CASE projected' = projected /\ loose' = loose
    <3>1. Readable' = Readable
      BY <1>3, <2>2, SameStorage, ZenonT(60) DEF SweepLoose
    <3> QED
      BY <2>2, <3>1 DEF StoreClosed, ProjectionsClosed
  <2> QED
    BY <1>2, <2>1, <2>2, ZenonT(60) DEF ProjectionsClosed
<1>4. CASE SweepPack
  <2> DEFINE doomed == MinOf(DoomedPacks)
  <2>1. /\ projected' = (projected \cap marked) \ LastCopies(doomed) /\ loose' = loose
        /\ packObjects' = [packObjects EXCEPT ![doomed] = {}]
    BY <1>4, ZenonT(60) DEF SweepPack, ProjectionsMarked
  <2> HIDE DEF doomed
  <2>2. \A t \in Readable' : t \notin LastCopies(doomed)
    BY <1>1, <2>1, ZenonT(60) DEF LastCopies, Readable, PacksWith, CompletePacks, TypeOK
  <2>3. projected' = projected \cap marked
    BY <1>2, <2>1, <2>2, ZenonT(60)
  <2> QED
    BY <1>2, <2>3, ZenonT(60) DEF ProjectionsClosed
<1> QED
  BY <1>3, <1>4

\* Every call of maintenance keeps the store closed.
LEMMA MaintainKeepsClosed ==
  ASSUME KeysetFacts, IInv, StoreClosed, Maintain
  PROVE  StoreClosed'
<1>1. /\ UNCHANGED << now, roots, reflog, promised >>
      /\ TransferRoots(transfers') \subseteq TransferRoots(transfers)
  BY CallFrame DEF Maintain
<1>2. ReflogRoots(now)' = ReflogRoots(now)
  BY <1>1 DEF ReflogRoots
<1>3. Readable' \subseteq Readable /\ LiveRoots \cap Readable \subseteq Readable' /\ ProjectionsClosed'
  <2>1. CASE SweepLoose \/ SweepPack
    <3>1. LiveRoots \cap Readable \subseteq Reachable
      BY DEF Reachable, Closure, Readable
    <3> QED
      BY <2>1, <3>1, SweepKeepsMarked, SweptProjections, ZenonT(60)
  <2>2. CASE ~SweepLoose /\ ~SweepPack
    <3>1. UNCHANGED << loose, packState, packObjects, projected >>
      BY <2>2, ZenonT(60)
         DEF Maintain, AdvanceMaintenance, StartRun, RestartRun, ResetRun, WaitForEligibility,
             RollOver, SnapshotRoots, ExpandMark, FinishMark, FinishLoose, AuditPacks, NothingSwept
    <3>2. Readable' = Readable
      BY <3>1, SameStorage, ZenonT(60)
    <3>3. ProjectionsClosed'
      BY <3>1, <3>2, ZenonT(60) DEF StoreClosed, ProjectionsClosed
    <3> QED
      BY <3>2, <3>3, ZenonT(60)
  <2> QED
    BY <2>1, <2>2
<1>4. RowsResolve'
  <2> SUFFICES ASSUME NEW s \in RowSources, NEW o \in roots[s]
               PROVE  o \in Readable' \/ SkippedWhenAbsent(s, o)
    BY <1>1, ZenonT(60) DEF RowsResolve, SkippedWhenAbsent
  <2>1. o \in LiveRoots
    BY DEF LiveRoots
  <2> QED
    BY <1>3, <2>1, ZenonT(60) DEF StoreClosed
<1>5. ReflogRoots(now)' \cup TransferRoots(transfers)' \subseteq Readable'
  <2>1. ReflogRoots(now) \cup TransferRoots(transfers) \subseteq LiveRoots \cap Readable
    BY ZenonT(60) DEF LiveRoots, StoreClosed
  <2>2. TransferRoots(transfers)' \subseteq TransferRoots(transfers)
    BY <1>1 DEF TransferRoots
  <2> QED
    BY <1>2, <1>3, <2>1, <2>2, ZenonT(60)
<1> QED
  BY <1>1, <1>3, <1>4, <1>5, ZenonT(60) DEF StoreClosed, RowsResolve, ProjectionsClosed

\* Every step keeps the store closed.
LEMMA NextKeepsClosed ==
  ASSUME KeysetFacts, IInv, StoreClosed, [Next]_vars
  PROVE  StoreClosed'
<1>1. CASE Tick \/ UNCHANGED vars
  <2>1. /\ UNCHANGED << loose, packState, packObjects, promised, projected, roots, reflog, transfers >>
        /\ now \in Nat /\ now' \in Nat /\ now <= now' /\ \A o \in Objects : reflog[o] \in Int
    <3>1. /\ UNCHANGED << loose, packState, packObjects, promised, projected, roots, reflog, transfers >>
          /\ now' = now + 1 \/ now' = now
      BY <1>1, ZenonT(60) DEF Tick, vars, storage, rootRows
    <3>2. now \in Nat /\ reflog \in [Objects -> TimesOrNone]
      BY ZenonT(60) DEF IInv, TypeOK
    <3>3. TimesOrNone \subseteq Int
      BY DEF TimesOrNone, NoTime
    <3>4. now' \in Nat /\ now <= now'
      BY <3>1, <3>2
    <3> QED
      BY <3>1, <3>2, <3>3, <3>4, ZenonT(60)
  <2>2. Readable' = Readable /\ TransferRoots(transfers)' = TransferRoots(transfers)
    BY <2>1, SameStorage, ZenonT(60) DEF TransferRoots
  <2>3. ReflogRoots(now)' \subseteq ReflogRoots(now)
    BY <2>1, BoundsAssumption DEF ReflogRoots
  <2> QED
    BY <2>1, <2>2, <2>3, ZenonT(60) DEF StoreClosed, SkippedWhenAbsent
<1> QED
  BY <1>1, ForegroundKeepsClosed, MaintainKeepsClosed DEF IInv, Next

\* For every instance: what a root row, a reflog row in its retention, a live
\* transfer or a projection names is stored, whatever a sweep deleted
\* (validateObjectRoots never meets corruption of the program's own making).
THEOREM StoreStaysClosed == Spec => []StoreClosed
<1>1. Init => StoreClosed
  BY DEF Init, StoreClosed, ReflogRoots, TransferRoots, NoTransfer
<1>2. IInv /\ StoreClosed /\ [Next]_vars => StoreClosed'
  BY KeysetHolds, NextKeepsClosed
<1> QED
  BY <1>1, <1>2, InitSound, NextSound, KeysetHolds, PTL DEF Spec

\* The nominations are honest throughout.
LEMMA GraceHolds == Spec => [](IInv /\ GraceInv)
<1>1. Init => GraceInv
  BY DEF Init, GraceInv
<1>2. IInv /\ GraceInv /\ [Next]_vars => GraceInv'
  BY KeysetHolds, NextKeepsGrace DEF IInv
<1> QED
  BY <1>1, <1>2, InitSound, NextSound, KeysetHolds, PTL DEF Spec

\* An object is never collected before a full grace has passed since it
\* arrived, for every grace and every interleaving of writes and sweeps
\* (sweep-loose.ts readLooseActions, sweep-packs.ts readPackPage).
THEOREM GraceIsKept == Spec => GraceFromArrival
<1>1. IInv /\ GraceInv /\ [Next]_vars =>
        [\A o \in Readable \ Readable' : arrived[o] + GC_GRACE <= now]_vars
  <2> SUFFICES ASSUME IInv, GraceInv, [Next]_vars, NEW o \in Readable \ Readable'
               PROVE  arrived[o] + GC_GRACE <= now
    OBVIOUS
  <2> QED
    BY KeysetHolds, SweepAfterGrace, OnlySweepsDelete DEF IInv
<1> QED
  BY <1>1, GraceHolds, PTL DEF Spec, GraceFromArrival

\* A pack that the pass nominated stays collectable until the pass ends, so
\* nextPackEligibility never reports a candidate that must not be one.
THEOREM VerdictsStand == Spec => []PackVerdictsStand
<1>1. Init => PackVerdictsStand
  BY DEF Init, NoRun, PackVerdictsStand
<1>2. IInv /\ GraceInv /\ PackVerdictsStand /\ [Next]_vars => PackVerdictsStand'
  BY KeysetHolds, NextKeepsVerdicts
<1> QED
  BY <1>1, <1>2, GraceHolds, PTL DEF Spec
===============================================================================
