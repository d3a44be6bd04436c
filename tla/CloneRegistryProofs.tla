--------------------------- MODULE CloneRegistryProofs ------------------------
(* The operations of the registry keep CloneInv, and so do the steps of a call *)
(* that fill its repository, publish it or fail to. *)
EXTENDS CloneMemoryProofs

\* A step that names no prover is tried with each of these in turn.
USE SMT, ZenonT(60), SMTT(60)

\* A call whose repository and facade a step leaves alone stays sound.
LEMMA UntouchedCall ==
  ASSUME RowsTyped, calls \in [Clones -> CallRow], NEW k \in Clones, CallOK(k),
         calls'[k] = calls[k], Untouched(calls[k].repo), FacadeUntouched(calls[k].repo),
         sequence'.repo \in Nat, sequence.repo <= sequence'.repo,
         clock' \in Nat, clock <= clock'
  PROVE  CallOK(k)'
<1>1. calls[k] \in CallRow
  OBVIOUS
<1>2. StoredOwner(k) => StoredOwner(k)'
  BY DEF StoredOwner, Untouched
<1>3. OwnsFacade(k) => OwnsFacade(k)'
  BY DEF OwnsFacade, FacadeUntouched
<1>4. calls[k].repo <= sequence'.repo
  BY <1>1 DEF CallOK, RowsTyped, CallRow
<1>5. clock' < calls[k].lease => clock < calls[k].lease
  BY <1>1 DEF CallRow, RowsTyped
<1> QED
  BY <1>2, <1>3, <1>4, <1>5 DEF CallOK, Untouched, FacadeUntouched, StoredOwner

\* A call that touches its own repository only leaves the other calls alone.
LEMMA OwnStep ==
  ASSUME CloneInv, NEW k \in Active, NEW new \in CallRow, calls' = [calls EXCEPT ![k] = new],
         new.phase = "idle" \/ (new.repo = calls[k].repo /\ CallOK(k)'),
         UNCHANGED << sequence, clock >>, abandoned \subseteq abandoned',
         \A r : r # calls[k].repo => Untouched(r) /\ FacadeUntouched(r),
         ProvisionalIn(repositories', calls[k].repo) =>
           new.phase # "idle" \/ calls[k].repo \in abandoned'
  PROVE  CallsOK' /\ \A r \in DOMAIN repositories' : Provisional(r)' => EndInSight(r)'
<1>1. /\ calls \in [Clones -> CallRow] /\ k \in Clones /\ calls' \in [Clones -> CallRow]
      /\ calls'[k] = new /\ \A j \in Clones : j # k => calls'[j] = calls[j]
  BY DEF CloneInv, CallsOK, Active
<1>2. /\ \A j \in Clones : j # k => (j \in Active' <=> j \in Active)
      /\ k \in Active' <=> new.phase # "idle"
      /\ Active \subseteq Clones /\ Active' \subseteq Clones
  BY <1>1 DEF Active
<1>3. ASSUME NEW j \in Active', j # k PROVE CallOK(j)'
  <2>1. j \in Clones /\ CallOK(j) /\ calls'[j] = calls[j] /\ calls[j].repo # calls[k].repo
    BY <1>1, <1>2, <1>3, ZenonT(60) DEF CloneInv, CallsOK
  <2>2. /\ RowsTyped /\ clock' \in Nat /\ clock <= clock'
        /\ sequence'.repo \in Nat /\ sequence.repo <= sequence'.repo
    BY DEF CloneInv, RowsOK, RowsTyped
  <2> QED
    BY <1>1, <2>1, <2>2, UntouchedCall
<1>4. CallsOK'
  <2>1. \A j \in Active' : CallOK(j)'
    BY <1>1, <1>2, <1>3, ZenonT(60)
  <2>2. \A i, j \in Active' : calls'[i].repo = calls'[j].repo => i = j
    BY <1>1, <1>2 DEF CloneInv, CallsOK
  <2> QED
    BY <1>1, <2>1, <2>2 DEF CallsOK
<1>5. ASSUME NEW r \in DOMAIN repositories', Provisional(r)' PROVE EndInSight(r)'
  <2>1. CASE r = calls[k].repo
    BY <1>1, <1>2, <1>5, <2>1 DEF EndInSight, Provisional, ProvisionalIn
  <2>2. CASE r # calls[k].repo
    <3>1. r \in DOMAIN repositories /\ Provisional(r)
      BY <1>5, <2>2 DEF Untouched, Provisional
    <3>2. EndInSight(r)
      BY <3>1 DEF CloneInv
    <3> QED
      BY <1>1, <1>2, <2>2, <3>2 DEF EndInSight
  <2> QED
    BY <2>1, <2>2
<1> QED
  BY <1>4, <1>5

\* A call that ends, published or discarded.
LEMMA EndedCall ==
  ASSUME CloneInv, NEW k \in Active, calls' = [calls EXCEPT ![k] = NoCall],
         UNCHANGED << sequence, clock >>, abandoned \subseteq abandoned',
         \A r : r # calls[k].repo => Untouched(r) /\ FacadeUntouched(r),
         ProvisionalIn(repositories', calls[k].repo) => calls[k].repo \in abandoned'
  PROVE  CallsOK' /\ \A r \in DOMAIN repositories' : Provisional(r)' => EndInSight(r)'
<1>1. NoCall \in CallRow /\ NoCall.phase = "idle"
  BY DEF NoCall, CallRow
<1>2. PICK new : new = NoCall
  OBVIOUS
<1> QED
  BY <1>1, <1>2, OwnStep, ZenonT(60)

\* A step of the registry touches no repository that a call owns.
LEMMA RegistryKeepsCalls ==
  ASSUME CloneInv, UNCHANGED << calls, abandoned, clock >>,
         sequence'.repo \in Nat, sequence.repo <= sequence'.repo,
         memory'.provisional = memory.provisional,
         \A r \in Nat : r <= sequence.repo /\ ~ReadyIn(repositories, r) => Untouched(r),
         \A r \in DOMAIN repositories' : Provisional(r)' => ProvisionalIn(repositories, r)
  PROVE  CallsOK' /\ \A r \in DOMAIN repositories' : Provisional(r)' => EndInSight(r)'
<1>1. ASSUME NEW k \in Active PROVE CallOK(k)'
  <2>1. CallOK(k) /\ calls[k].repo \in Nat /\ k \in Clones /\ calls \in [Clones -> CallRow]
    BY DEF CloneInv, CallsOK, CallRow, Active
  <2>2. Untouched(calls[k].repo)
    BY <2>1 DEF CallOK, StoredOwner, ReadyIn
  <2>3. FacadeUntouched(calls[k].repo)
    BY DEF FacadeUntouched
  <2>4. clock \in Nat /\ clock' = clock /\ calls'[k] = calls[k] /\ RowsTyped
    BY DEF CloneInv, RowsOK, RowsTyped
  <2> QED
    BY <2>1, <2>2, <2>3, <2>4, UntouchedCall
<1>2. Active' = Active
  BY DEF Active
<1>3. CallsOK'
  BY <1>1, <1>2 DEF CloneInv, CallsOK
<1>4. \A r : EndInSight(r)' = EndInSight(r)
  BY <1>2 DEF EndInSight
<1> QED
  BY <1>3, <1>4 DEF CloneInv, ProvisionalIn, Provisional

\* A step of the registry that writes only ready repositories keeps CloneInv.
LEMMA RegistryCloses ==
  ASSUME CloneInv, UNCHANGED << calls, abandoned, clock >>,
         sequence'.repo \in Nat, sequence.repo <= sequence'.repo,
         RowsOK', Follows(memory', memory, repositories', checkouts'),
         \A r \in Nat : r <= sequence.repo /\ ~ReadyIn(repositories, r) => Untouched(r),
         \A r \in DOMAIN repositories' : Provisional(r)' => ProvisionalIn(repositories, r)
  PROVE  CloneInv'
<1>1. memory'.provisional = memory.provisional /\ MemoryOK(memory', repositories', checkouts')
  BY DEF Follows
<1>2. CallsOK' /\ \A r \in DOMAIN repositories' : Provisional(r)' => EndInSight(r)'
  BY <1>1, RegistryKeepsCalls
<1> QED
  BY <1>1, <1>2 DEF CloneInv

\* A step of the registry that only takes rows away takes none of a clone.
LEMMA RemovalCloses ==
  ASSUME CloneInv, UNCHANGED << calls, abandoned >>, NEW X, NEW S, Removes(X, S),
         \A r \in X : ReadyIn(repositories, r),
         Follows(memory', memory, repositories', checkouts')
  PROVE  CloneInv'
<1>1. RowsOK' /\ UNCHANGED << clock, sequence >> /\ sequence.repo \in Nat
  BY RemovedRows, ZenonT(60) DEF CloneInv, Removes, RowsOK, RowsTyped
<1>2. ASSUME NEW r, ~ReadyIn(repositories, r)
      PROVE  Untouched(r)
  <2>1. r \notin X
    BY <1>2
  <2>2. \A c \in S : c \in DOMAIN checkouts => checkouts[c].repo # r
    BY <1>2, <2>1 DEF Removes
  <2> QED
    BY <2>1, <2>2, RemovalUntouched, ZenonT(60)
<1>3. \A r \in DOMAIN repositories' : Provisional(r)' => ProvisionalIn(repositories, r)
  BY DEF Provisional, ProvisionalIn, Removes
<1> QED
  BY <1>1, <1>2, <1>3, RegistryCloses

\* Creating a bare repository keeps CloneInv.
LEMMA BareStep ==
  ASSUME CloneInv, CreateBareRepository, UNCHANGED << calls, abandoned >>
  PROVE  CloneInv'
<1> DEFINE row == [kind |-> "bare", lifecycle |-> "ready", expires |-> 0, content |-> "empty"]
<1>0. PICK id \in Nat : id = NextRepository
  BY DEF CloneInv, RowsOK, RowsTyped, NextRepository, NextId
<1>1. /\ id = sequence.repo + 1 /\ sequence.repo \in Nat /\ sequence'.repo = id
      /\ sequence' \in [repo: Nat, checkout: Nat] /\ sequence'.checkout = sequence.checkout
      /\ UNCHANGED << checkouts, clock, memory, held >>
      /\ repositories' = With(repositories, id, row)
  BY <1>0 DEF CloneInv, RowsOK, RowsTyped, CreateBareRepository, NextRepository, NextId, InsertedRepository
<1>2. row \in RepositoryRow /\ row.kind = "bare" /\ row.lifecycle = "ready"
  BY DEF RepositoryRow
<1> HIDE DEF row
<1>3. /\ DOMAIN repositories' = DOMAIN repositories \cup {id} /\ repositories'[id] = row
      /\ \A r \in DOMAIN repositories : r # id /\ repositories'[r] = repositories[r]
  <2>1. \A r \in DOMAIN repositories : r # id
    BY <1>1 DEF CloneInv, RowsOK, RowsTyped
  <2>2. repositories' = With(repositories, id, row)
    BY <1>1
  <2> QED
    BY <2>1, <2>2, ZenonT(60) DEF With
<1>4. RowsTyped'
  BY <1>1, <1>2, <1>3 DEF CloneInv, RowsOK, RowsTyped
<1>5. \A r \in Nat : r <= sequence.repo => Untouched(r)
  BY <1>1, <1>3 DEF Untouched
<1>6. PrimariesOf(id)' = {}
  <2>1. \A c \in DOMAIN checkouts : checkouts[c].repo # id
    BY <1>3 DEF CloneInv, RowsOK, RowsTyped
  <2> QED
    BY <1>1, <2>1 DEF PrimariesOf, CheckoutsOf
<1>7. SingleCheckouts'
  <2> SUFFICES ASSUME NEW r \in DOMAIN repositories', r # id
               PROVE  Untouched(r)
    BY <1>2, <1>3, <1>6, UntouchedSingle, ZenonT(60) DEF SingleCheckouts, Provisional, CloneInv, RowsOK
  <2> QED
    BY <1>3, <1>5, ZenonT(60) DEF CloneInv, RowsOK, RowsTyped
<1>8. RootsDiffer' /\ HeldOK'
  BY <1>1 DEF CloneInv, RowsOK, RootsDiffer, HeldOK
<1>9. MemoryOK(memory, repositories, checkouts)'
  <2>1. MemoryOK(memory, repositories, checkouts)
    BY DEF CloneInv
  <2>2. MemoryOK(memory, repositories', checkouts')
    BY <1>1, <1>3, <2>1, GrownRowsKeepMemory
  <2> QED
    BY <1>1, <2>2
<1>10. \A r \in DOMAIN repositories' : Provisional(r)' => ProvisionalIn(repositories, r)
  BY <1>2, <1>3 DEF Provisional, ProvisionalIn
<1>11. RowsOK'
  BY <1>4, <1>7, <1>8 DEF RowsOK
<1>12. Follows(memory', memory, repositories', checkouts')
  BY <1>1, <1>9 DEF Follows
<1> QED
  BY <1>1, <1>5, <1>10, <1>11, <1>12, RegistryCloses

\* Creating a repository with its checkout keeps CloneInv.
LEMMA CreateStep ==
  ASSUME CloneInv, NEW root \in Roots, CreateRepository(root), UNCHANGED << calls, abandoned >>
  PROVE  CloneInv'
<1> DEFINE row == [kind |-> "workspace", lifecycle |-> "ready", expires |-> 0, content |-> "empty"]
<1>0. PICK id \in Nat, cid \in Nat : id = NextRepository /\ cid = NextCheckout
  BY DEF CloneInv, RowsOK, RowsTyped, NextRepository, NextCheckout, NextId
<1> DEFINE crow == [repo |-> id, root |-> root, primary |-> TRUE]
<1>1. /\ id = sequence.repo + 1 /\ sequence.repo \in Nat /\ sequence'.repo = id
      /\ cid = sequence.checkout + 1 /\ sequence.checkout \in Nat /\ sequence'.checkout = cid
      /\ sequence' \in [repo: Nat, checkout: Nat]
      /\ UNCHANGED << clock, held >> /\ CheckoutsAt(root) = {}
      /\ repositories' = With(repositories, id, row) /\ checkouts' = With(checkouts, cid, crow)
  BY <1>0 DEF CloneInv, RowsOK, RowsTyped, CreateRepository, NextRepository, NextCheckout, NextId,
              InsertedRepository, InsertedCheckout
<1>2. /\ row \in RepositoryRow /\ row.kind = "workspace" /\ row.lifecycle = "ready"
      /\ crow \in CheckoutRow /\ crow.repo = id /\ crow.root = root /\ crow.primary
  BY DEF RepositoryRow, CheckoutRow
<1> HIDE DEF row, crow
<1>3. RowsOK /\ RowsTyped
  BY ZenonT(60) DEF CloneInv, RowsOK
<1>4. NewRows(root, {}, {}, id, cid, row, crow)
  <2>1. /\ DOMAIN repositories' = DOMAIN repositories \cup {id} /\ repositories'[id] = row
        /\ \A r \in DOMAIN repositories : repositories'[r] = repositories[r]
    <3>1. \A r \in DOMAIN repositories : r # id
      BY <1>1, <1>3 DEF RowsTyped
    <3> QED
      BY <1>1, <3>1, ZenonT(60) DEF With
  <2>2. /\ DOMAIN checkouts' = DOMAIN checkouts \cup {cid} /\ checkouts'[cid] = crow
        /\ \A c \in DOMAIN checkouts : checkouts'[c] = checkouts[c]
    <3>1. \A c \in DOMAIN checkouts : c # cid
      BY <1>1, <1>3 DEF RowsTyped
    <3> QED
      BY <1>1, <3>1 DEF With
  <2>3. \A c \in DOMAIN checkouts : checkouts[c].root # root
    BY <1>1 DEF CheckoutsAt
  <2> QED
    BY <1>1, <1>2, <2>1, <2>2, <2>3, ZenonT(60) DEF NewRows
<1>5. RowsOK'
  BY <1>3, <1>4, NewRowsOK, ZenonT(60)
<1>6. \A r \in Nat : r <= sequence.repo => Untouched(r)
  <2> SUFFICES ASSUME NEW r \in Nat, r <= sequence.repo PROVE Untouched(r)
    OBVIOUS
  <2>1. r \notin {} /\ r # id
    BY <1>1
  <2> QED
    BY <1>3, <1>4, <2>1, NewRowsUntouched
<1>7. Follows(memory', memory, repositories', checkouts')
  <2>1. MemoryOK(memory, repositories, checkouts)
    BY DEF CloneInv
  <2>2. /\ \A r \in DOMAIN repositories : r \in DOMAIN repositories' /\ repositories'[r] = repositories[r]
        /\ \A c \in DOMAIN checkouts : c \in DOMAIN checkouts' /\ checkouts'[c] = checkouts[c]
    BY <1>4 DEF NewRows
  <2>3. MemoryOK(memory, repositories', checkouts')
    BY <2>1, <2>2, GrownRowsKeepMemory, ZenonT(60)
  <2>4. ReadyIn(repositories', id) /\ CheckoutIn(checkouts', cid, id) /\ cid # 0
    BY <1>1, <1>2, <1>4 DEF ReadyIn, CheckoutIn, NewRows
  <2>5. Follows(OpenStore(RememberCheckout(memory, cid, id, TRUE), cid, id),
                memory, repositories', checkouts')
    BY <2>3, <2>4, CreatedStoreFollows, ZenonT(60)
  <2> QED
    BY <1>0, <2>5, ZenonT(60) DEF CreateRepository
<1>8. \A r \in DOMAIN repositories' : Provisional(r)' => ProvisionalIn(repositories, r)
  BY <1>2, <1>4 DEF Provisional, ProvisionalIn, NewRows
<1> QED
  BY <1>1, <1>5, <1>6, <1>7, <1>8, RegistryCloses

\* Adding a checkout keeps CloneInv.
LEMMA AddCheckoutStep ==
  ASSUME CloneInv, NEW repo \in DOMAIN repositories, NEW root \in Roots, CreateCheckout(repo, root),
         UNCHANGED << calls, abandoned >>
  PROVE  CloneInv'
<1>0. PICK cid \in Nat : cid = NextCheckout
  BY DEF CloneInv, RowsOK, RowsTyped, NextCheckout, NextId
<1> DEFINE crow == [repo |-> repo, root |-> root, primary |-> FALSE]
<1>1. /\ sequence'.repo = sequence.repo /\ sequence.repo \in Nat
      /\ cid = sequence.checkout + 1 /\ sequence.checkout \in Nat /\ sequence'.checkout = cid
      /\ sequence' \in [repo: Nat, checkout: Nat]
      /\ UNCHANGED << repositories, clock, held >> /\ CheckoutsAt(root) = {}
      /\ checkouts' = With(checkouts, cid, crow) /\ ReadyIn(repositories, repo)
  BY <1>0, ZenonT(60) DEF CloneInv, RowsOK, RowsTyped, CreateCheckout, NextCheckout, NextId, InsertedCheckout,
              Ready, ReadyIn
<1>2. /\ repo \in Nat
      /\ crow \in CheckoutRow /\ crow.repo = repo /\ crow.root = root /\ ~crow.primary
  BY ZenonT(60) DEF CheckoutRow, CloneInv, RowsOK, RowsTyped
<1> HIDE DEF crow
<1>3. /\ DOMAIN checkouts' = DOMAIN checkouts \cup {cid} /\ checkouts'[cid] = crow
      /\ \A c \in DOMAIN checkouts : c # cid /\ checkouts'[c] = checkouts[c]
  <2>1. \A c \in DOMAIN checkouts : c # cid
    BY <1>1 DEF CloneInv, RowsOK, RowsTyped
  <2> QED
    BY <1>1, <2>1, ZenonT(60) DEF With
<1>4. RowsTyped'
  BY <1>1, <1>2, <1>3 DEF CloneInv, RowsOK, RowsTyped
<1>5. \A r : r # repo => Untouched(r)
  BY <1>1, <1>2, <1>3, ZenonT(60) DEF Untouched
<1>6. PrimariesOf(repo)' = PrimariesOf(repo) /\ CheckoutsOf(repo) \subseteq CheckoutsOf(repo)'
  BY <1>2, <1>3 DEF PrimariesOf, CheckoutsOf
<1>7. SingleCheckouts'
  <2>1. ~Provisional(repo)'
    BY <1>1, ZenonT(60) DEF ReadyIn, Provisional
  <2> SUFFICES ASSUME NEW r \in DOMAIN repositories', r # repo
               PROVE  Untouched(r)
    BY <1>1, <1>6, <2>1, UntouchedSingle, ZenonT(60) DEF SingleCheckouts, CloneInv, RowsOK
  <2> QED
    BY <1>5
<1>8. RootsDiffer'
  BY <1>1, <1>2, <1>3 DEF CloneInv, RowsOK, RootsDiffer, CheckoutsAt
<1>9. HeldOK'
  <2>1. HeldOK
    BY ZenonT(60) DEF CloneInv, RowsOK
  <2>2. ASSUME NEW n \in Nat, n <= sequence.checkout PROVE n <= sequence'.checkout /\ n # cid
    BY <1>1, <2>2
  <2>3. ASSUME NEW c \in DOMAIN checkouts', c # cid
        PROVE  c \in DOMAIN checkouts /\ checkouts'[c] = checkouts[c]
    BY <1>3, <2>3, ZenonT(60)
  <2>4. held' = held
    BY <1>1, ZenonT(60)
  <2> QED
    BY <2>1, <2>2, <2>3, <2>4, ZenonT(60) DEF HeldOK
<1>10. Follows(memory', memory, repositories', checkouts')
  <2>1. MemoryOK(memory, repositories, checkouts)
    BY DEF CloneInv
  <2>2. /\ \A r \in DOMAIN repositories : r \in DOMAIN repositories' /\ repositories'[r] = repositories[r]
        /\ \A c \in DOMAIN checkouts : c \in DOMAIN checkouts' /\ checkouts'[c] = checkouts[c]
    BY <1>1, <1>3, ZenonT(60)
  <2>3. MemoryOK(memory, repositories', checkouts')
    BY <2>1, <2>2, GrownRowsKeepMemory, ZenonT(60)
  <2>4. ReadyIn(repositories', repo) /\ CheckoutIn(checkouts', cid, repo) /\ cid # 0
    <3>1. ReadyIn(repositories', repo) /\ CheckoutIn(checkouts', cid, repo)
      BY <1>1, <1>2, <1>3, ZenonT(60) DEF CheckoutIn
    <3>2. cid # 0
      BY <1>1
    <3> QED
      BY <3>1, <3>2, ZenonT(60)
  <2>5. cid \notin DOMAIN memory.stores
    BY <1>3, <2>1 DEF MemoryOK, StoresOK
  <2>6. Follows(InstallStore(RememberCheckout(OpenShared(memory, repo), cid, repo, TRUE), cid, repo),
                memory, repositories', checkouts')
    BY <2>3, <2>4, <2>5, AddedStoreFollows, ZenonT(60)
  <2> QED
    BY <1>0, <2>6, ZenonT(60) DEF CreateCheckout
<1>11. \A r \in DOMAIN repositories' : Provisional(r)' => ProvisionalIn(repositories, r)
  BY <1>1 DEF Provisional, ProvisionalIn
<1>12. RowsOK'
  BY <1>4, <1>7, <1>8, <1>9 DEF RowsOK
<1> QED
  BY <1>1, <1>5, <1>10, <1>11, <1>12, RegistryCloses

\* Removing a checkout keeps CloneInv.
LEMMA RemoveStep ==
  ASSUME CloneInv, NEW d \in DOMAIN checkouts, RemoveCheckout(d), UNCHANGED << calls, abandoned >>
  PROVE  CloneInv'
<1>0. PICK repo : repo = checkouts[d].repo
  BY ZenonT(60)
<1>1. /\ UNCHANGED << repositories, sequence, clock, held >>
      /\ DOMAIN checkouts' = DOMAIN checkouts \ {d}
      /\ \A c \in DOMAIN checkouts' : checkouts'[c] = checkouts[c]
      /\ ~checkouts[d].primary /\ ReadyIn(repositories, repo)
  BY <1>0, ZenonT(60) DEF RemoveCheckout, Without, Lifecycle, ReadyIn, CloneInv, RowsOK, RowsTyped
<1>2. Removes({}, {d})
  BY <1>0, <1>1 DEF Removes
<1>3. PICK n : n = memory'
  BY ZenonT(60)
<1>4. Follows(n, memory, repositories, checkouts) /\ DOMAIN n.stores \cap {d} = {}
  <2>1. d # 0 /\ CheckoutIn(checkouts, d, repo) /\ ReadyIn(repositories, repo)
    BY <1>0, <1>1 DEF CloneInv, RowsOK, RowsTyped, CheckoutIn
  <2>2. MemoryOK(memory, repositories, checkouts)
    BY DEF CloneInv
  <2>3. n = EvictCheckouts(OpenStore(RememberCheckout(memory, d, repo, FALSE), d, repo), {d})
    BY <1>0, <1>3, ZenonT(60) DEF RemoveCheckout
  <2> QED
    BY <2>1, <2>2, <2>3, RemovedStoreFollows, ZenonT(60)
<1>5. Follows(n, memory, repositories', checkouts')
  <2>1. \A c \in DOMAIN n.stores : c \notin {d}
    BY <1>4
  <2> QED
    BY <1>2, <1>4, <2>1, RemovedMemory, ZenonT(60) DEF Follows
<1> QED
  BY <1>2, <1>3, <1>5, RemovalCloses

\* Pruning checkouts keeps CloneInv.
LEMMA PruneStep ==
  ASSUME CloneInv, NEW repo \in DOMAIN repositories, NEW S \in SUBSET CheckoutsOf(repo),
         RemoveCheckouts(repo, S), UNCHANGED << calls, abandoned >>
  PROVE  CloneInv'
<1>1. /\ UNCHANGED << repositories, sequence, clock, held >>
      /\ DOMAIN checkouts' = DOMAIN checkouts \ S
      /\ \A c \in DOMAIN checkouts' : checkouts'[c] = checkouts[c]
      /\ ReadyIn(repositories, repo)
      /\ \A c \in S : c \in DOMAIN checkouts /\ checkouts[c].repo = repo /\ ~checkouts[c].primary
  BY ZenonT(60) DEF RemoveCheckouts, Without, Ready, ReadyIn, CheckoutsOf, PrimariesOf
<1>2. Removes({}, S)
  BY <1>1 DEF Removes
<1>3. PICK n : n = memory'
  BY ZenonT(60)
<1>4. Follows(n, memory, repositories, checkouts) /\ DOMAIN n.stores \cap S = {}
  <2>1. MemoryOK(memory, repositories, checkouts) /\ ReadyIn(repositories, repo)
    BY <1>1 DEF CloneInv
  <2>2. n = EvictCheckouts(OpenShared(RememberCheckouts(memory, CheckoutsOf(repo), repo), repo), S)
    BY <1>3, ZenonT(60) DEF RemoveCheckouts
  <2> QED
    BY <2>1, <2>2, PrunedStoresFollow, ZenonT(60)
<1>5. Follows(n, memory, repositories', checkouts')
  <2>1. \A c \in DOMAIN n.stores : c \notin S
    BY <1>4, ZenonT(60)
  <2> QED
    BY <1>2, <1>4, <2>1, RemovedMemory DEF Follows
<1> QED
  BY <1>2, <1>3, <1>5, RemovalCloses

\* Destroying a repository keeps CloneInv.
LEMMA DestroyStep ==
  ASSUME CloneInv, NEW repo \in DOMAIN repositories, DestroyRepository(repo),
         UNCHANGED << calls, abandoned >>
  PROVE  CloneInv'
<1>0. PICK S : S = CheckoutsOf(repo)
  OBVIOUS
<1>1. /\ UNCHANGED << sequence, clock, held >> /\ ReadyIn(repositories, repo)
      /\ DOMAIN checkouts' = DOMAIN checkouts \ S
      /\ \A c \in DOMAIN checkouts' : checkouts'[c] = checkouts[c]
      /\ DOMAIN repositories' = DOMAIN repositories \ {repo}
      /\ \A r \in DOMAIN repositories' : repositories'[r] = repositories[r]
  BY <1>0 DEF DestroyRepository, Without, Ready, ReadyIn
<1>2. \A c : c \in S <=> c \in DOMAIN checkouts /\ checkouts[c].repo = repo
  BY <1>0, ZenonT(60) DEF CheckoutsOf
<1>3. Removes({repo}, S)
  BY <1>1, <1>2 DEF Removes
<1>4. PICK n : n = memory'
  BY ZenonT(60)
<1>5. /\ MemoryOK(n, repositories, checkouts) /\ n.provisional = memory.provisional
      /\ DOMAIN n.shared = DOMAIN memory.shared \ {repo}
      /\ \A c \in DOMAIN n.stores : checkouts[c].repo # repo
  <2>1. MemoryOK(memory, repositories, checkouts) /\ n = DestroyedMemory(memory, repo)
    BY <1>4 DEF CloneInv, DestroyRepository
  <2> QED
    BY <2>1, DestroyedKeeps
<1>6. Follows(n, memory, repositories', checkouts')
  <2>1. \A r \in DOMAIN n.shared \cup DOMAIN n.provisional : r \notin {repo}
    BY <1>1, <1>5, ZenonT(60) DEF MemoryOK, ProvisionalOK, ProvisionalIn, ReadyIn
  <2>2. \A c \in DOMAIN n.stores : c \notin S
    BY <1>2, <1>5
  <2> QED
    BY <1>3, <1>5, <2>1, <2>2, RemovedMemory, ZenonT(60) DEF Follows
<1> QED
  BY <1>1, <1>3, <1>4, <1>6, RemovalCloses

\* A step that reads the rows and keeps what the memory holds of clones.
LEMMA ReadingStep ==
  ASSUME CloneInv, UNCHANGED << tables, clock, calls, abandoned >>, HeldOK',
         MemoryOK(memory', repositories, checkouts), memory'.provisional = memory.provisional
  PROVE  CloneInv'
<1>1. UNCHANGED << repositories, checkouts, sequence, clock, calls, abandoned >>
  BY DEF tables
<1>2. RowsTyped' /\ RootsDiffer'
  <2>1. RowsTyped'
    BY <1>1, ZenonT(60) DEF CloneInv, RowsOK, RowsTyped
  <2>2. RootsDiffer'
    BY <1>1, ZenonT(60) DEF CloneInv, RowsOK, RootsDiffer
  <2> QED
    BY <2>1, <2>2, ZenonT(60)
<1>3. SingleCheckouts'
  <2>1. /\ \A r : PrimariesOf(r)' = PrimariesOf(r) /\ CheckoutsOf(r)' = CheckoutsOf(r)
        /\ \A r : Provisional(r)' <=> Provisional(r)
    BY <1>1, ZenonT(60) DEF Provisional, PrimariesOf, CheckoutsOf
  <2>2. SingleCheckouts
    BY ZenonT(60) DEF CloneInv, RowsOK
  <2> QED
    BY <1>1, <2>1, <2>2, ZenonT(60) DEF SingleCheckouts
<1>4. \A r : Untouched(r)
  BY <1>1 DEF Untouched
<1>5. /\ \A r \in DOMAIN repositories' : Provisional(r)' => ProvisionalIn(repositories, r)
      /\ sequence'.repo \in Nat /\ sequence.repo <= sequence'.repo
  BY <1>1 DEF Provisional, ProvisionalIn, CloneInv, RowsOK, RowsTyped
<1>6. CallsOK' /\ \A r \in DOMAIN repositories' : Provisional(r)' => EndInSight(r)'
  BY <1>1, <1>4, <1>5, RegistryKeepsCalls, ZenonT(60)
<1>7. MemoryOK(memory, repositories, checkouts)'
  BY <1>1
<1> QED
  BY <1>2, <1>3, <1>6, <1>7, ZenonT(60) DEF CloneInv, RowsOK

\* Looking a checkout up keeps CloneInv.
LEMMA LookUpStep ==
  ASSUME CloneInv, NEW c \in DOMAIN checkouts, LookUp(c), UNCHANGED << calls, abandoned >>
  PROVE  CloneInv'
<1>1. MemoryOK(memory', repositories, checkouts) /\ memory'.provisional = memory.provisional
  BY RememberSeenKeeps, ZenonT(60) DEF CloneInv, LookUp
<1>2. /\ held'.checkout = c /\ held'.repo = checkouts[c].repo /\ held'.root = checkouts[c].root
      /\ held'.primary = checkouts[c].primary
  BY DEF LookUp, RowOf
<1>3. UNCHANGED << checkouts, sequence >>
  BY ZenonT(60) DEF LookUp, tables
<1>4. HeldOK'
  BY <1>2, <1>3, ZenonT(60) DEF HeldOK, CloneInv, RowsOK, RowsTyped
<1> QED
  BY <1>1, <1>4, ReadingStep DEF LookUp

\* Opening a store keeps CloneInv.
LEMMA OpenStep ==
  ASSUME CloneInv, OpenCheckout, UNCHANGED << calls, abandoned >>
  PROVE  CloneInv'
<1>0. PICK c, repo : c = held.checkout /\ repo = checkouts[c].repo
  BY ZenonT(60)
<1>1. c # 0 /\ CheckoutIn(checkouts, c, repo) /\ ReadyIn(repositories, repo)
  <2>1. c \in DOMAIN checkouts /\ repositories[repo].lifecycle = "ready"
    BY <1>0, ZenonT(60) DEF OpenCheckout, Lifecycle
  <2>2. c \in Nat /\ 0 < c /\ repo \in DOMAIN repositories
    BY <1>0, <2>1, ZenonT(60) DEF CloneInv, RowsOK, RowsTyped
  <2>3. c # 0
    BY <2>2
  <2> QED
    BY <1>0, <2>1, <2>2, <2>3, ZenonT(60) DEF CheckoutIn, ReadyIn
<1>2. memory' = OpenStore(memory, c, repo) /\ UNCHANGED << tables, clock, held >>
  BY <1>0 DEF OpenCheckout
<1>3. MemoryOK(memory', repositories, checkouts) /\ memory'.provisional = memory.provisional
  BY <1>1, <1>2, OpenStoreKeeps DEF CloneInv
<1>4. HeldOK'
  BY <1>2, ZenonT(60) DEF HeldOK, CloneInv, RowsOK, tables
<1> QED
  BY <1>2, <1>3, <1>4, ReadingStep, ZenonT(60)

\* Every operation of the registry keeps CloneInv.
LEMMA RegistryStep ==
  ASSUME CloneInv, RegistryNext, UNCHANGED << calls, abandoned >>
  PROVE  CloneInv'
  BY BareStep, CreateStep, AddCheckoutStep, RemoveStep, LookUpStep, DestroyStep, PruneStep, OpenStep, ZenonT(60)
     DEF RegistryNext

\* A heartbeat or a transfer of a clone keeps CloneInv.
LEMMA CloneStepStep ==
  ASSUME CloneInv, NEW k \in Clones, CloneStep(k)
  PROVE  CloneInv'
<1>0. PICK R : R = calls[k].repo
  OBVIOUS
<1>1. /\ calls \in [Clones -> CallRow] /\ calls[k] \in CallRow /\ calls[k].phase \in {"fetch", "refs", "hydrate"}
      /\ k \in Active /\ CallOK(k) /\ RowsOK /\ RowsTyped
      /\ UNCHANGED << checkouts, sequence, clock, memory, held, abandoned >>
  BY DEF CloneInv, CallsOK, Active, RowsOK, CloneStep, CloneSteps
<1>2. R \in DOMAIN repositories /\ StoredOwner(k) /\ repositories[R] \in RepositoryRow
  BY <1>0, <1>1 DEF CloneStep, CallOK, RowsTyped
<1>3. PICK expires : expires = IF HeartbeatDue(k) THEN RenewedExpiry(k) ELSE repositories[R].expires
  OBVIOUS
<1>4. expires \in Nat
  <2>1. clock \in Nat /\ LEASE \in Nat /\ repositories[R].expires \in Nat
    BY <1>1, <1>2, RegistryAssumption, ZenonT(60) DEF RowsTyped, RepositoryRow
  <2>2. RenewedExpiry(k) = repositories[R].expires \/ RenewedExpiry(k) = clock + LEASE
    BY <1>0 DEF RenewedExpiry
  <2> QED
    BY <1>3, <2>1, <2>2
<1>5. PICK content : content = ContentAfter[calls[k].phase]
  BY ZenonT(60)
<1>6. content \in {"fetched", "attached"}
  BY <1>1, <1>5 DEF ContentAfter
<1>7. /\ DOMAIN repositories' = DOMAIN repositories
      /\ repositories'[R] = [repositories[R] EXCEPT !.content = content, !.expires = expires]
      /\ \A r \in DOMAIN repositories : r # R => repositories'[r] = repositories[r]
  BY <1>0, <1>2, <1>3, <1>5, ZenonT(60) DEF CloneStep, RepositoryRow
<1>8. /\ repositories'[R] \in RepositoryRow /\ repositories'[R].kind = repositories[R].kind
      /\ repositories'[R].lifecycle = repositories[R].lifecycle /\ repositories'[R].expires = expires
  BY <1>2, <1>4, <1>6, <1>7, ZenonT(60) DEF RepositoryRow
<1>9. RowsOK' /\ \A r : r # R => Untouched(r)
  BY <1>1, <1>2, <1>7, <1>8, UpdatedRow, ZenonT(60)
<1>10. MemoryOK(memory, repositories, checkouts)'
  <2>1. MemoryOK(memory, repositories, checkouts)
    BY DEF CloneInv
  <2>2. \A r \in DOMAIN repositories :
          r \in DOMAIN repositories' /\ repositories'[r].lifecycle = repositories[r].lifecycle
    BY <1>7, <1>8, ZenonT(60)
  <2>3. /\ \A r \in DOMAIN memory.shared : ReadyIn(repositories', r)
        /\ \A c \in DOMAIN memory.stores : CheckoutIn(checkouts', c, checkouts[c].repo)
        /\ \A r \in DOMAIN memory.provisional :
             ProvisionalIn(repositories', r) /\ CheckoutIn(checkouts', memory.provisional[r].checkout, r)
    <3>1. checkouts' = checkouts
      BY <1>1
    <3>2. \A r \in DOMAIN memory.shared : ReadyIn(repositories', r)
      BY <2>1, <2>2, ZenonT(60) DEF MemoryOK, SharedOK, ReadyIn
    <3>3. \A c \in DOMAIN memory.stores : CheckoutIn(checkouts', c, checkouts[c].repo)
      BY <2>1, <3>1, ZenonT(60) DEF MemoryOK, StoresOK, CheckoutIn
    <3>4. \A r \in DOMAIN memory.provisional :
            ProvisionalIn(repositories', r) /\ CheckoutIn(checkouts', memory.provisional[r].checkout, r)
      BY <2>1, <2>2, <3>1, ZenonT(60) DEF MemoryOK, ProvisionalOK, ProvisionalIn
    <3> QED
      BY <3>2, <3>3, <3>4
  <2>4. MemoryOK(memory, repositories', checkouts')
    BY <2>1, <2>3, RowsKeepMemory
  <2> QED
    BY <1>1, <2>4
<1>11. PICK next \in {"fetch", "refs", "hydrate", "publish"} :
         calls' = [calls EXCEPT ![k].phase = next, ![k].lease = LeaseAfter(k)]
  <2>1. CloneSteps[calls[k].phase] \in {"refs", "hydrate", "publish"}
    BY <1>1 DEF CloneSteps
  <2> QED
    BY <1>1, <2>1, ZenonT(60) DEF CloneStep
<1>12. PICK new : new = [calls[k] EXCEPT !.phase = next, !.lease = LeaseAfter(k)]
  OBVIOUS
<1>13. calls' = [calls EXCEPT ![k] = new]
  BY <1>1, <1>11, <1>12, ZenonT(60) DEF CallRow
<1>14. HeartbeatDue(k) => RequireOwner(k)
  BY DEF CloneStep
<1>15. LeaseAfter(k) \in Nat /\ LeaseAfter(k) = IF HeartbeatDue(k) THEN expires ELSE calls[k].lease
  BY <1>1, <1>3, <1>4, <1>14 DEF LeaseAfter, CallRow
<1>16. /\ new \in CallRow /\ new.phase = next /\ new.repo = R /\ new.lease = LeaseAfter(k)
       /\ new.checkout = calls[k].checkout /\ new.store = calls[k].store
  BY <1>0, <1>1, <1>12, <1>15, ZenonT(60) DEF CallRow
<1>17. CallOK(k)'
  <2>1. calls'[k] = new
    BY <1>1, <1>13
  <2>2. StoredOwner(k)'
    BY <1>0, <1>1, <1>2, <1>7, <1>8, <1>16, <2>1 DEF StoredOwner
  <2>3. OwnsFacade(k)' = OwnsFacade(k)
    BY <1>0, <1>1, <1>16, <2>1 DEF OwnsFacade
  <2>4. clock < new.lease => OwnsFacade(k) /\ new.lease <= expires
    <3>1. CASE HeartbeatDue(k)
      BY <1>4, <1>14, <1>15, <1>16, <3>1 DEF RequireOwner
    <3>2. CASE ~HeartbeatDue(k)
      <4>1. new.lease = calls[k].lease /\ expires = repositories[R].expires
        BY <1>3, <1>15, <1>16, <3>2, ZenonT(60)
      <4>2. calls[k].phase # "discard" /\ CallOK(k)
        BY <1>1
      <4> QED
        BY <1>0, <4>1, <4>2, ZenonT(60) DEF CallOK
    <3> QED
      BY <3>1, <3>2, ZenonT(60)
  <2> QED
    BY <1>0, <1>1, <1>8, <1>16, <2>1, <2>2, <2>3, <2>4, ZenonT(60) DEF CallOK
<1>18. CallsOK' /\ \A r \in DOMAIN repositories' : Provisional(r)' => EndInSight(r)'
  <2>1. \A r : r # calls[k].repo => Untouched(r) /\ FacadeUntouched(r)
    BY <1>0, <1>1, <1>9, ZenonT(60) DEF FacadeUntouched
  <2>2. new.phase # "idle" /\ new.repo = calls[k].repo
    BY <1>0, <1>16
  <2> QED
    BY <1>1, <1>13, <1>16, <1>17, <2>1, <2>2, OwnStep, ZenonT(60)
<1> QED
  BY <1>9, <1>10, <1>18 DEF CloneInv

\* A call that fails goes on to discard its repository, with its facade or
\* without.
LEMMA FailingStep ==
  ASSUME CloneInv, NEW k \in Active, UNCHANGED << tables, clock, held, abandoned >>,
         calls' = [calls EXCEPT ![k].phase = "discard"],
         memory' = memory \/ memory' = EvictProvisional(memory, calls[k].repo)
  PROVE  CloneInv'
<1>0. PICK R, m, n : R = calls[k].repo /\ m = memory /\ n = memory'
  OBVIOUS
<1>1. /\ calls \in [Clones -> CallRow] /\ calls[k] \in CallRow /\ k \in Clones /\ CallOK(k) /\ RowsOK
      /\ MemoryOK(m, repositories, checkouts)
  BY <1>0 DEF CloneInv, CallsOK, Active
<1>2. RowsOK' /\ \A r : Untouched(r)
  BY <1>1, SameRows
<1>3. /\ MemoryOK(n, repositories, checkouts)
      /\ DOMAIN n.provisional \subseteq DOMAIN m.provisional
      /\ \A r \in DOMAIN m.provisional : r # R => r \in DOMAIN n.provisional
      /\ \A r \in DOMAIN n.provisional : n.provisional[r] = m.provisional[r]
  <2>1. CASE n = m
    BY <1>1, <2>1
  <2>2. CASE n = EvictProvisional(m, R)
    BY <1>1, <2>2, EvictProvisionalKeeps
  <2> QED
    BY <1>0, <2>1, <2>2
<1>4. MemoryOK(memory, repositories, checkouts)'
  BY <1>0, <1>3 DEF tables
<1>5. PICK new : new = [calls[k] EXCEPT !.phase = "discard"]
  BY ZenonT(60)
<1>6. calls' = [calls EXCEPT ![k] = new]
  BY <1>1, <1>5
<1>7. /\ new \in CallRow /\ new.phase = "discard" /\ new.repo = R
      /\ new.checkout = calls[k].checkout /\ new.store = calls[k].store
  BY <1>0, <1>1, <1>5 DEF CallRow
<1>8. CallOK(k)'
  <2>1. calls'[k] = new
    BY <1>1, <1>6
  <2>2. StoredOwner(k)' = StoredOwner(k)
    BY <1>0, <1>7, <2>1 DEF StoredOwner, tables
  <2>3. R \in DOMAIN n.provisional => OwnsFacade(k)'
    BY <1>0, <1>1, <1>3, <1>7, <2>1 DEF OwnsFacade, CallOK
  <2> QED
    BY <1>0, <1>1, <1>7, <2>1, <2>2, <2>3 DEF CallOK, tables
<1>9. CallsOK' /\ \A r \in DOMAIN repositories' : Provisional(r)' => EndInSight(r)'
  <2>1. \A r : r # calls[k].repo => Untouched(r) /\ FacadeUntouched(r)
    BY <1>0, <1>2, <1>3 DEF FacadeUntouched
  <2>2. new.phase # "idle" /\ new.repo = calls[k].repo /\ UNCHANGED << sequence, clock, abandoned >>
    BY <1>0, <1>7 DEF tables
  <2> QED
    BY <1>6, <1>7, <1>8, <2>1, <2>2, OwnStep, ZenonT(60)
<1> QED
  BY <1>2, <1>4, <1>9 DEF CloneInv

\* A clone that fails keeps CloneInv.
LEMMA CloneFailsStep ==
  ASSUME CloneInv, NEW k \in Clones, CloneFails(k)
  PROVE  CloneInv'
<1>1. k \in Active
  BY DEF CloneFails, CloneSteps, Active
<1>2. /\ UNCHANGED << tables, clock, held, abandoned >>
      /\ calls' = [calls EXCEPT ![k].phase = "discard"]
      /\ memory' = memory \/ memory' = EvictProvisional(memory, calls[k].repo)
  BY DEF CloneFails, EvictOwner
<1> QED
  BY <1>1, <1>2, FailingStep, ZenonT(60)

\* A publication that is refused keeps CloneInv.
LEMMA PublishFailsStep ==
  ASSUME CloneInv, NEW k \in Clones, PublishCloneFails(k)
  PROVE  CloneInv'
<1>1. k \in Active
  BY DEF PublishCloneFails, Active
<1>2. /\ UNCHANGED << tables, clock, held, abandoned >>
      /\ calls' = [calls EXCEPT ![k].phase = "discard"]
      /\ memory' = memory \/ memory' = EvictProvisional(memory, calls[k].repo)
  BY DEF PublishCloneFails, EvictOwner
<1> QED
  BY <1>1, <1>2, FailingStep, ZenonT(60)

\* Publishing a clone keeps CloneInv.
LEMMA PublishStep ==
  ASSUME CloneInv, NEW k \in Clones, PublishClone(k)
  PROVE  CloneInv'
<1>0. PICK R, c, m : R = calls[k].repo /\ c = calls[k].checkout /\ m = memory
  OBVIOUS
<1>1. /\ k \in Active /\ RowsOK /\ MemoryOK(m, repositories, checkouts)
      /\ calls' = [calls EXCEPT ![k] = NoCall]
      /\ UNCHANGED << checkouts, sequence, clock, held, abandoned >>
  BY <1>0, ZenonT(60) DEF PublishClone, Active, CloneInv
<1>2. ProvisionalIn(repositories, R) /\ repositories[R] \in RepositoryRow
  BY <1>0, <1>1 DEF PublishClone, RequireOwner, StoredOwner, ProvisionalIn, RowsOK, RowsTyped
<1>3. /\ DOMAIN repositories' = DOMAIN repositories
      /\ repositories'[R] = [repositories[R] EXCEPT !.lifecycle = "ready", !.expires = 0,
                                                    !.content = "checked out"]
      /\ \A r \in DOMAIN repositories : r # R => repositories'[r] = repositories[r]
  BY <1>0, <1>2, ZenonT(60) DEF PublishClone, ProvisionalIn, RepositoryRow
<1>4. /\ repositories'[R] \in RepositoryRow /\ repositories'[R].kind = repositories[R].kind
      /\ repositories'[R].lifecycle = "ready"
  <2>1. ASSUME NEW row \in RepositoryRow, NEW new,
               new = [row EXCEPT !.lifecycle = "ready", !.expires = 0, !.content = "checked out"]
        PROVE  new \in RepositoryRow /\ new.kind = row.kind /\ new.lifecycle = "ready"
    BY <2>1, ZenonT(60) DEF RepositoryRow
  <2> QED
    BY <1>2, <1>3, <2>1, ZenonT(60)
<1>5. RowsOK' /\ \A r : r # R => Untouched(r)
  BY <1>1, <1>2, <1>3, <1>4, UpdatedRow, ZenonT(60) DEF ProvisionalIn
<1>6. PICK n : n = EvictProvisional(m, R)
  OBVIOUS
<1>7. /\ MemoryOK(n, repositories, checkouts)
      /\ DOMAIN n.provisional = DOMAIN m.provisional \ {R}
      /\ \A r \in DOMAIN n.provisional : n.provisional[r] = m.provisional[r]
  BY <1>1, <1>6, EvictProvisionalKeeps
<1>8. PICK p : p = RememberCheckout(n, c, R, TRUE)
  BY ZenonT(60)
<1>9. MemoryOK(p, repositories, checkouts) /\ p.provisional = n.provisional
  BY <1>7, <1>8, RememberNewKeeps, ZenonT(60)
<1>10. memory' = p
  BY <1>0, <1>6, <1>8, ZenonT(60) DEF PublishClone
<1>11. MemoryOK(p, repositories', checkouts')
  <2>1. \A r \in DOMAIN p.shared : ReadyIn(repositories', r)
    BY <1>2, <1>3, <1>4, <1>9, ZenonT(60) DEF MemoryOK, SharedOK, ReadyIn
  <2>2. \A d \in DOMAIN p.stores : CheckoutIn(checkouts', d, checkouts[d].repo)
    BY <1>1, <1>9, ZenonT(60) DEF MemoryOK, StoresOK, CheckoutIn
  <2>3. \A r \in DOMAIN p.provisional :
          ProvisionalIn(repositories', r) /\ CheckoutIn(checkouts', p.provisional[r].checkout, r)
    BY <1>1, <1>3, <1>7, <1>9 DEF MemoryOK, ProvisionalOK, ProvisionalIn
  <2> QED
    BY <1>9, <2>1, <2>2, <2>3, RowsKeepMemory
<1>12. CallsOK' /\ \A r \in DOMAIN repositories' : Provisional(r)' => EndInSight(r)'
  <2>1. \A r : r # calls[k].repo => Untouched(r) /\ FacadeUntouched(r)
    BY <1>0, <1>5, <1>7, <1>9, <1>10, ZenonT(60) DEF FacadeUntouched
  <2>2. ~ProvisionalIn(repositories', calls[k].repo)
    BY <1>0, <1>4, ZenonT(60) DEF ProvisionalIn
  <2> QED
    BY <1>1, <2>1, <2>2, EndedCall, ZenonT(60)
<1> QED
  BY <1>5, <1>10, <1>11, <1>12, ZenonT(60) DEF CloneInv

\* What a call finds when it discards its repository: its row and checkout, or
\* nothing at all.
LEMMA OwnRows ==
  ASSUME CloneInv, NEW k \in Active
  PROVE  /\ calls[k].repo \in DOMAIN repositories => StoredOwner(k)
         /\ calls[k].repo \in DOMAIN memory.provisional => OwnsFacade(k)
         /\ StoredOwner(k) => /\ ProvisionalIn(repositories, calls[k].repo)
                              /\ CheckoutIn(checkouts, calls[k].checkout, calls[k].repo)
                              /\ calls[k].checkout # 0
<1>1. CallOK(k) /\ RowsTyped
  BY ZenonT(60) DEF CloneInv, CallsOK, RowsOK
<1>2. /\ calls[k].repo \in DOMAIN repositories => StoredOwner(k)
      /\ calls[k].repo \in DOMAIN memory.provisional => OwnsFacade(k)
  BY <1>1, ZenonT(60) DEF CallOK
<1>3. ASSUME StoredOwner(k)
      PROVE  /\ ProvisionalIn(repositories, calls[k].repo)
             /\ CheckoutIn(checkouts, calls[k].checkout, calls[k].repo)
  BY <1>3, ZenonT(60) DEF StoredOwner, ProvisionalIn, CheckoutIn
<1>4. \A c \in DOMAIN checkouts : c # 0
  BY <1>1 DEF RowsTyped
<1> QED
  BY <1>2, <1>3, <1>4, ZenonT(60) DEF CheckoutIn

\* A discard that is refused keeps CloneInv.
LEMMA DiscardFailsStep ==
  ASSUME CloneInv, NEW k \in Clones, DiscardCloneFails(k)
  PROVE  CloneInv'
<1>0. PICK R, c, m : R = calls[k].repo /\ c = calls[k].checkout /\ m = memory
  OBVIOUS
<1>1. /\ k \in Active /\ RowsOK /\ MemoryOK(m, repositories, checkouts) /\ StoredOwner(k)
      /\ calls' = [calls EXCEPT ![k] = NoCall] /\ UNCHANGED << tables, clock, held >>
      /\ abandoned' = abandoned \cup {R}
  BY <1>0, ZenonT(60) DEF DiscardCloneFails, Active, CloneInv
<1>2. ProvisionalIn(repositories, R) /\ CheckoutIn(checkouts, c, R) /\ c # 0
  BY <1>0, <1>1, OwnRows
<1>3. RowsOK' /\ \A r : Untouched(r)
  BY <1>1, SameRows
<1>4. PICK n : n = EvictProvisional(ProvisionalStore(m, R, c), R)
  OBVIOUS
<1>5. /\ MemoryOK(n, repositories, checkouts)
      /\ DOMAIN n.provisional = DOMAIN m.provisional \ {R}
      /\ \A r \in DOMAIN n.provisional : n.provisional[r] = m.provisional[r]
  BY <1>1, <1>2, <1>4, SweepKeeps
<1>6. memory' = n
  BY <1>0, <1>4 DEF DiscardCloneFails
<1>7. CallsOK' /\ \A r \in DOMAIN repositories' : Provisional(r)' => EndInSight(r)'
  <2>1. \A r : r # calls[k].repo => Untouched(r) /\ FacadeUntouched(r)
    BY <1>0, <1>3, <1>5, <1>6, ZenonT(60) DEF FacadeUntouched
  <2>2. calls[k].repo \in abandoned' /\ abandoned \subseteq abandoned' /\ UNCHANGED << sequence, clock >>
    BY <1>0, <1>1 DEF tables
  <2> QED
    BY <1>1, <2>1, <2>2, EndedCall, ZenonT(60)
<1>8. MemoryOK(memory, repositories, checkouts)'
  BY <1>1, <1>5, <1>6 DEF tables
<1> QED
  BY <1>3, <1>7, <1>8 DEF CloneInv
===============================================================================
