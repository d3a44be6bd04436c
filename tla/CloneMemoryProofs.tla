--------------------------- MODULE CloneMemoryProofs --------------------------
(* What the operations keep of the memory of a database object (MemoryOK) and *)
(* what becomes of the rows that a step adds, updates, removes or leaves *)
(* alone (RowsOK). *)
EXTENDS CloneInvariants, TLAPS

\* A step that names no prover is tried with each of these in turn.
USE SMT, ZenonT(60), SMTT(60)

\* a map of m leads to facade f
Found(m, f) ==
  \/ m.live[f].repo \in DOMAIN m.shared /\ m.shared[m.live[f].repo] = f
  \/ m.live[f].checkout \in DOMAIN m.stores /\ m.stores[m.live[f].checkout] = f
  \/ m.live[f].repo \in DOMAIN m.provisional /\ m.provisional[m.live[f].repo].store = f

\* All facades of a memory are found when each one is.
LEMMA AllFound ==
  ASSUME NEW m
  PROVE  FacadesFound(m) <=> \A f \in DOMAIN m.live : Found(m, f)
  BY ZenonT(60) DEF FacadesFound, Found

\* A facade stays found when the entries that lead to it stay.
LEMMA StaysFound ==
  ASSUME NEW m, NEW n, NEW f, Found(m, f), n.live[f] = m.live[f],
         \A r \in DOMAIN m.shared : m.shared[r] = f => r \in DOMAIN n.shared /\ n.shared[r] = f,
         \A c \in DOMAIN m.stores : m.stores[c] = f => c \in DOMAIN n.stores /\ n.stores[c] = f,
         \A r \in DOMAIN m.provisional : m.provisional[r].store = f =>
           r \in DOMAIN n.provisional /\ n.provisional[r].store = f
  PROVE  Found(n, f)
  BY ZenonT(60) DEF Found

\* The fields of a new facade.
LEMMA FacadeFields ==
  ASSUME NEW repo, NEW checkout, NEW over
  PROVE  LET facade == Facade(repo, checkout, over)
         IN  facade.repo = repo /\ facade.checkout = checkout /\ facade.over = over
  BY ZenonT(60) DEF Facade

\* The fields of a value that is known to be a facade.
LEMMA FacadeIs ==
  ASSUME NEW x, NEW repo, NEW checkout, NEW over, x = Facade(repo, checkout, over)
  PROVE  x.repo = repo /\ x.checkout = checkout /\ x.over = over
  BY FacadeFields

\* The rows may change under a memory that does not lead to the changed ones.
LEMMA RowsKeepMemory ==
  ASSUME NEW m, NEW R, NEW C, NEW R2, NEW C2, MemoryOK(m, R, C),
         \A r \in DOMAIN m.shared : ReadyIn(R2, r),
         \A c \in DOMAIN m.stores : CheckoutIn(C2, c, C[c].repo),
         \A r \in DOMAIN m.provisional :
           ProvisionalIn(R2, r) /\ CheckoutIn(C2, m.provisional[r].checkout, r)
  PROVE  MemoryOK(m, R2, C2)
<1>1. SharedOK(m, R2)
  BY DEF MemoryOK, SharedOK
<1>2. StoresOK(m, C2)
  BY DEF MemoryOK, StoresOK, CheckoutIn
<1>3. ProvisionalOK(m, R2, C2)
  BY DEF MemoryOK, ProvisionalOK
<1> QED
  BY <1>1, <1>2, <1>3 DEF MemoryOK

\* Opening the shared handle of a repository (openShared) keeps the memory
\* sound.
LEMMA OpenSharedKeeps ==
  ASSUME NEW m, NEW R, NEW C, MemoryOK(m, R, C), NEW repo, ReadyIn(R, repo)
  PROVE  /\ MemoryOK(OpenShared(m, repo), R, C)
         /\ repo \in DOMAIN OpenShared(m, repo).shared
         /\ OpenShared(m, repo).stores = m.stores
         /\ OpenShared(m, repo).provisional = m.provisional
<1> DEFINE n == OpenShared(m, repo)
<1>1. CASE repo \in DOMAIN m.shared
  BY <1>1 DEF OpenShared
<1>2. CASE repo \notin DOMAIN m.shared
  <2> DEFINE f == m.nextStore
  <2>1. /\ DOMAIN n = DOMAIN m /\ n.stores = m.stores /\ n.provisional = m.provisional
        /\ n.shared = With(m.shared, repo, f) /\ n.live = With(m.live, f, Facade(repo, 0, 0))
        /\ n.nextStore = f + 1
    BY <1>2 DEF OpenShared, MemoryOK, MemoryShape
  <2>2. /\ DOMAIN n.shared = DOMAIN m.shared \cup {repo} /\ n.shared[repo] = f
        /\ \A r \in DOMAIN m.shared : r # repo /\ n.shared[r] = m.shared[r]
        /\ DOMAIN n.live = DOMAIN m.live \cup {f} /\ n.live[f] = Facade(repo, 0, 0)
        /\ \A g \in DOMAIN m.live : g # f /\ n.live[g] = m.live[g]
        /\ n.stores = m.stores /\ n.provisional = m.provisional
    BY <1>2, <2>1 DEF With, MemoryOK, MemoryShape
  <2>3. MemoryShape(n)
    BY <2>1, <2>2 DEF MemoryOK, MemoryShape
  <2> HIDE DEF n, f
  <2>4. SharedOK(n, R)
    BY <2>2 DEF MemoryOK, SharedOK
  <2>5. StoresOK(n, C)
    BY <2>2 DEF MemoryOK, StoresOK
  <2>6. ProvisionalOK(n, R, C)
    BY <2>2, ZenonT(60) DEF MemoryOK, ProvisionalOK
  <2>7. FacadesFound(n)
    <3>1. Found(n, f)
      BY <2>2, FacadeFields DEF Found
    <3>2. ASSUME NEW g \in DOMAIN m.live PROVE Found(n, g)
      <4>1. Found(m, g)
        BY AllFound, ZenonT(60) DEF MemoryOK
      <4> QED
        BY <2>2, <4>1, StaysFound
    <3> QED
      BY <2>2, <3>1, <3>2, AllFound, ZenonT(60)
  <2> QED
    BY <2>2, <2>3, <2>4, <2>5, <2>6, <2>7 DEF MemoryOK, n
<1> QED
  BY <1>1, <1>2

\* Installing a checkout's store (installStore) keeps the memory sound.
LEMMA InstallStoreKeeps ==
  ASSUME NEW m, NEW R, NEW C, MemoryOK(m, R, C), NEW checkout, NEW repo, checkout # 0,
         checkout \notin DOMAIN m.stores, CheckoutIn(C, checkout, repo), repo \in DOMAIN m.shared
  PROVE  /\ MemoryOK(InstallStore(m, checkout, repo), R, C)
         /\ InstallStore(m, checkout, repo).provisional = m.provisional
<1> DEFINE n == InstallStore(m, checkout, repo)
           f == m.nextStore
<1>1. /\ DOMAIN n = DOMAIN m /\ n.shared = m.shared /\ n.provisional = m.provisional
      /\ n.stores = With(m.stores, checkout, f)
      /\ n.live = With(m.live, f, Facade(repo, checkout, m.shared[repo]))
      /\ n.nextStore = f + 1
  BY DEF InstallStore, MemoryOK, MemoryShape
<1>2. /\ DOMAIN n.stores = DOMAIN m.stores \cup {checkout} /\ n.stores[checkout] = f
      /\ \A c \in DOMAIN m.stores : c # checkout /\ n.stores[c] = m.stores[c]
      /\ DOMAIN n.live = DOMAIN m.live \cup {f} /\ n.live[f] = Facade(repo, checkout, m.shared[repo])
      /\ \A g \in DOMAIN m.live : g # f /\ n.live[g] = m.live[g]
      /\ n.shared = m.shared /\ n.provisional = m.provisional
  BY <1>1 DEF With, MemoryOK, MemoryShape
<1>3. MemoryShape(n)
  BY <1>1, <1>2 DEF MemoryOK, MemoryShape
<1> HIDE DEF n, f
<1>4. SharedOK(n, R)
  BY <1>2 DEF MemoryOK, SharedOK
<1>5. StoresOK(n, C)
  BY <1>2 DEF MemoryOK, StoresOK, CheckoutIn
<1>6. ProvisionalOK(n, R, C)
  BY <1>2 DEF MemoryOK, ProvisionalOK
<1>7. FacadesFound(n)
  <2>1. Found(n, f)
    BY <1>2, FacadeFields DEF Found
  <2>2. ASSUME NEW g \in DOMAIN m.live PROVE Found(n, g)
    <3>1. Found(m, g)
      BY AllFound, ZenonT(60) DEF MemoryOK
    <3> QED
      BY <1>2, <3>1, StaysFound
  <2> QED
    BY <1>2, <2>1, <2>2, AllFound, ZenonT(60)
<1> QED
  BY <1>2, <1>3, <1>4, <1>5, <1>6, <1>7 DEF MemoryOK, n

\* Opening a store that may be known already (openStore) keeps the memory
\* sound.
LEMMA OpenStoreKeeps ==
  ASSUME NEW m, NEW R, NEW C, MemoryOK(m, R, C), NEW checkout, NEW repo, checkout # 0,
         CheckoutIn(C, checkout, repo), ReadyIn(R, repo)
  PROVE  /\ MemoryOK(OpenStore(m, checkout, repo), R, C)
         /\ OpenStore(m, checkout, repo).provisional = m.provisional
<1>1. CASE checkout \in DOMAIN m.stores
  BY <1>1 DEF OpenStore
<1>2. CASE checkout \notin DOMAIN m.stores
  <2> DEFINE n == OpenShared(m, repo)
  <2>1. /\ MemoryOK(n, R, C) /\ repo \in DOMAIN n.shared
        /\ n.stores = m.stores /\ n.provisional = m.provisional
    BY OpenSharedKeeps
  <2>2. OpenStore(m, checkout, repo) = InstallStore(n, checkout, repo)
    BY <1>2 DEF OpenStore
  <2> HIDE DEF n
  <2> QED
    BY <1>2, <2>1, <2>2, InstallStoreKeeps
<1> QED
  BY <1>1, <1>2

\* What is remembered of the rows a caller has seen leads to no facade.
LEMMA IdentitiesKeep ==
  ASSUME NEW m, NEW R, NEW C, MemoryOK(m, R, C), NEW n, DOMAIN n = DOMAIN m,
         n.shared = m.shared, n.stores = m.stores, n.provisional = m.provisional,
         n.live = m.live, n.nextStore = m.nextStore
  PROVE  MemoryOK(n, R, C)
  BY ZenonT(60) DEF MemoryOK, MemoryShape, SharedOK, StoresOK, ProvisionalOK, FacadesFound

\* Remembering a row that was just inserted keeps the memory sound.
LEMMA RememberNewKeeps ==
  ASSUME NEW m, NEW R, NEW C, MemoryOK(m, R, C), NEW checkout, NEW repo
  PROVE  /\ MemoryOK(RememberCheckout(m, checkout, repo, TRUE), R, C)
         /\ RememberCheckout(m, checkout, repo, TRUE).shared = m.shared
         /\ RememberCheckout(m, checkout, repo, TRUE).stores = m.stores
         /\ RememberCheckout(m, checkout, repo, TRUE).provisional = m.provisional
<1> DEFINE n == RememberCheckout(m, checkout, repo, TRUE)
<1>1. /\ DOMAIN n = DOMAIN m /\ n.shared = m.shared /\ n.stores = m.stores
      /\ n.provisional = m.provisional /\ n.live = m.live /\ n.nextStore = m.nextStore
  BY DEF RememberCheckout, MemoryOK, MemoryShape
<1> HIDE DEF n
<1> QED
  BY <1>1, IdentitiesKeep, ZenonT(60) DEF n

\* Remembering a row that was read keeps the memory sound.
LEMMA RememberSeenKeeps ==
  ASSUME NEW m, NEW R, NEW C, MemoryOK(m, R, C), NEW checkout, NEW repo
  PROVE  /\ MemoryOK(RememberCheckout(m, checkout, repo, FALSE), R, C)
         /\ RememberCheckout(m, checkout, repo, FALSE).shared = m.shared
         /\ RememberCheckout(m, checkout, repo, FALSE).stores = m.stores
         /\ RememberCheckout(m, checkout, repo, FALSE).provisional = m.provisional
<1> DEFINE n == RememberCheckout(m, checkout, repo, FALSE)
<1>1. /\ DOMAIN n = DOMAIN m /\ n.shared = m.shared /\ n.stores = m.stores
      /\ n.provisional = m.provisional /\ n.live = m.live /\ n.nextStore = m.nextStore
  BY DEF RememberCheckout, MemoryOK, MemoryShape
<1> HIDE DEF n
<1> QED
  BY <1>1, IdentitiesKeep, ZenonT(60) DEF n

\* Remembering every checkout of a listing keeps the memory sound.
LEMMA RememberAllKeeps ==
  ASSUME NEW m, NEW R, NEW C, MemoryOK(m, R, C), NEW S, NEW repo
  PROVE  LET n == RememberCheckouts(m, S, repo) IN
         MemoryOK(n, R, C) /\ n.shared = m.shared /\ n.stores = m.stores /\ n.provisional = m.provisional
<1> DEFINE n == RememberCheckouts(m, S, repo)
<1>1. /\ DOMAIN n = DOMAIN m /\ n.shared = m.shared /\ n.stores = m.stores
      /\ n.provisional = m.provisional /\ n.live = m.live /\ n.nextStore = m.nextStore
  BY DEF RememberCheckouts, MemoryOK, MemoryShape
<1> QED
  BY <1>1, IdentitiesKeep

\* No facade is found in two places.
LEMMA MapsApart ==
  ASSUME NEW m, NEW R, NEW C, MemoryOK(m, R, C)
  PROVE  /\ \A c \in DOMAIN m.stores :
              /\ \A d \in DOMAIN m.stores : m.stores[c] = m.stores[d] => c = d
              /\ \A r \in DOMAIN m.shared : m.stores[c] # m.shared[r]
              /\ \A r \in DOMAIN m.provisional : m.stores[c] # m.provisional[r].store
         /\ \A q \in DOMAIN m.shared :
              /\ \A r \in DOMAIN m.shared : m.shared[q] = m.shared[r] => q = r
              /\ \A r \in DOMAIN m.provisional : m.shared[q] # m.provisional[r].store
         /\ \A q, r \in DOMAIN m.provisional :
              m.provisional[q].store = m.provisional[r].store => q = r
<1>1. \A r \in DOMAIN m.shared : /\ m.live[m.shared[r]].repo = r
                                 /\ m.live[m.shared[r]].checkout = 0
                                 /\ m.shared[r] # 0
  BY FacadeFields DEF MemoryOK, MemoryShape, SharedOK
<1>2. \A c \in DOMAIN m.stores : /\ m.live[m.stores[c]].checkout = c /\ c # 0
                                 /\ m.live[m.stores[c]].over # 0
  BY <1>1, FacadeFields DEF MemoryOK, StoresOK
<1>3. \A r \in DOMAIN m.provisional :
        LET facade == m.live[m.provisional[r].store]
        IN  facade.repo = r /\ facade.checkout # 0 /\ facade.over = 0
  <2> SUFFICES ASSUME NEW r \in DOMAIN m.provisional
               PROVE  LET facade == m.live[m.provisional[r].store]
                      IN  facade.repo = r /\ facade.checkout # 0 /\ facade.over = 0
    BY ZenonT(60)
  <2>1. /\ m.provisional[r].checkout # 0
        /\ m.live[m.provisional[r].store] = Facade(r, m.provisional[r].checkout, 0)
    BY ZenonT(60) DEF MemoryOK, ProvisionalOK
  <2>2. PICK x, c : x = m.live[m.provisional[r].store] /\ c = m.provisional[r].checkout
    OBVIOUS
  <2>3. x = Facade(r, c, 0) /\ c # 0
    BY <2>1, <2>2, ZenonT(60)
  <2>4. x.repo = r /\ x.checkout = c /\ x.over = 0
    BY <2>3, FacadeIs, ZenonT(60)
  <2> QED
    BY <2>2, <2>3, <2>4, ZenonT(60)
<1>4. \A c \in DOMAIN m.stores :
        /\ \A d \in DOMAIN m.stores : m.stores[c] = m.stores[d] => c = d
        /\ \A r \in DOMAIN m.shared : m.stores[c] # m.shared[r]
        /\ \A r \in DOMAIN m.provisional : m.stores[c] # m.provisional[r].store
  <2> SUFFICES ASSUME NEW c \in DOMAIN m.stores
               PROVE  /\ \A d \in DOMAIN m.stores : m.stores[c] = m.stores[d] => c = d
                      /\ \A r \in DOMAIN m.shared : m.stores[c] # m.shared[r]
                      /\ \A r \in DOMAIN m.provisional : m.stores[c] # m.provisional[r].store
    BY ZenonT(60)
  <2>1. \A d \in DOMAIN m.stores : m.stores[c] = m.stores[d] => c = d
    BY <1>2, ZenonT(60)
  <2>2. ASSUME NEW r \in DOMAIN m.shared PROVE m.stores[c] # m.shared[r]
    <3>1. m.live[m.stores[c]].checkout # 0
      BY <1>2, ZenonT(60)
    <3>2. m.live[m.shared[r]].checkout = 0
      BY <1>1, ZenonT(60)
    <3> QED
      BY <3>1, <3>2, ZenonT(60)
  <2>3. ASSUME NEW r \in DOMAIN m.provisional PROVE m.stores[c] # m.provisional[r].store
    <3>1. m.live[m.stores[c]].over # 0
      BY <1>2, ZenonT(60)
    <3>2. m.live[m.provisional[r].store].over = 0
      BY <1>3, ZenonT(60)
    <3> QED
      BY <3>1, <3>2, ZenonT(60)
  <2> QED
    BY <2>1, <2>2, <2>3, ZenonT(60)
<1>5. \A q \in DOMAIN m.shared :
        /\ \A r \in DOMAIN m.shared : m.shared[q] = m.shared[r] => q = r
        /\ \A r \in DOMAIN m.provisional : m.shared[q] # m.provisional[r].store
  <2>1. \A q, r \in DOMAIN m.shared : m.shared[q] = m.shared[r] => q = r
    BY <1>1, ZenonT(60)
  <2>2. ASSUME NEW q \in DOMAIN m.shared, NEW r \in DOMAIN m.provisional
        PROVE  m.shared[q] # m.provisional[r].store
    <3>1. m.live[m.shared[q]].checkout = 0
      BY <1>1, ZenonT(60)
    <3>2. m.live[m.provisional[r].store].checkout # 0
      BY <1>3, ZenonT(60)
    <3> QED
      BY <3>1, <3>2, ZenonT(60)
  <2> QED
    BY <2>1, <2>2, ZenonT(60)
<1>6. \A q, r \in DOMAIN m.provisional : m.provisional[q].store = m.provisional[r].store => q = r
  BY <1>3
<1> QED
  BY <1>4, <1>5, <1>6, ZenonT(60)

\* Evicting removed checkouts keeps the memory sound for the rows that are
\* left.
LEMMA EvictCheckoutsKeeps ==
  ASSUME NEW m, NEW R, NEW C, MemoryOK(m, R, C), NEW S
  PROVE  LET n == EvictCheckouts(m, S) IN
         /\ MemoryOK(n, R, C) /\ n.shared = m.shared /\ n.provisional = m.provisional
         /\ DOMAIN n.stores = DOMAIN m.stores \ S
<1> DEFINE n == EvictCheckouts(m, S)
           gone == {m.stores[c] : c \in S \cap DOMAIN m.stores}
<1>1. /\ DOMAIN n = DOMAIN m /\ n.shared = m.shared /\ n.provisional = m.provisional
      /\ n.live = Without(m.live, gone) /\ n.stores = Without(m.stores, S) /\ n.nextStore = m.nextStore
  BY DEF EvictCheckouts, MemoryOK, MemoryShape
<1>2. /\ DOMAIN n.live = DOMAIN m.live \ gone /\ \A f \in DOMAIN n.live : n.live[f] = m.live[f]
      /\ DOMAIN n.stores = DOMAIN m.stores \ S /\ \A c \in DOMAIN n.stores : n.stores[c] = m.stores[c]
  BY <1>1 DEF Without
<1>3. MemoryShape(n)
  BY <1>1, <1>2, ZenonT(60) DEF MemoryOK, MemoryShape
<1>4. \A f \in gone : \E c \in S : c \in DOMAIN m.stores /\ f = m.stores[c]
  OBVIOUS
<1>5. \A c \in S \cap DOMAIN m.stores : m.stores[c] \in gone
  BY ZenonT(60)
<1> HIDE DEF n, gone
<1>6. SharedOK(n, R)
  <2>1. \A r \in DOMAIN m.shared : m.shared[r] \notin gone
    BY <1>2, <1>4, MapsApart
  <2> QED
    BY <1>1, <1>2, <2>1, ZenonT(60) DEF MemoryOK, SharedOK
<1>7. StoresOK(n, C)
  <2>1. \A c \in DOMAIN n.stores : m.stores[c] \notin gone
    BY <1>2, <1>4, MapsApart
  <2> QED
    BY <1>1, <1>2, <2>1 DEF MemoryOK, StoresOK
<1>8. ProvisionalOK(n, R, C)
  <2>1. \A r \in DOMAIN m.provisional : m.provisional[r].store \notin gone
    BY <1>2, <1>4, MapsApart
  <2> QED
    BY <1>1, <1>2, <2>1 DEF MemoryOK, ProvisionalOK
<1>9. FacadesFound(n)
  <2>1. ASSUME NEW g \in DOMAIN n.live PROVE Found(n, g)
    <3>1. g \in DOMAIN m.live /\ g \notin gone /\ n.live[g] = m.live[g]
      BY <1>2, ZenonT(60)
    <3>2. Found(m, g)
      BY <3>1, AllFound, ZenonT(60) DEF MemoryOK
    <3> QED
      BY <1>1, <1>2, <1>5, <3>1, <3>2, StaysFound
  <2> QED
    BY <2>1, AllFound, ZenonT(60)
<1> QED
  BY <1>1, <1>2, <1>3, <1>6, <1>7, <1>8, <1>9 DEF MemoryOK, n

\* Opening the store of a clone in progress adds to the provisional map alone.
LEMMA ProvisionalStoreKeeps ==
  ASSUME NEW m, NEW R, NEW C, MemoryOK(m, R, C), NEW repo, NEW checkout, checkout # 0,
         ProvisionalIn(R, repo), CheckoutIn(C, checkout, repo)
  PROVE  LET n == ProvisionalStore(m, repo, checkout) IN
         /\ MemoryOK(n, R, C) /\ n.shared = m.shared /\ n.stores = m.stores
         /\ DOMAIN n.provisional = DOMAIN m.provisional \cup {repo}
         /\ \A r \in DOMAIN m.provisional : n.provisional[r] = m.provisional[r]
<1> DEFINE n == ProvisionalStore(m, repo, checkout)
           f == m.nextStore
           entry == [checkout |-> checkout, store |-> f]
<1>1. CASE repo \in DOMAIN m.provisional
  BY <1>1, ZenonT(60) DEF ProvisionalStore
<1>2. CASE repo \notin DOMAIN m.provisional
  <2>1. /\ DOMAIN n = DOMAIN m /\ n.shared = m.shared /\ n.stores = m.stores
        /\ n.provisional = With(m.provisional, repo, entry)
        /\ n.live = With(m.live, f, Facade(repo, checkout, 0)) /\ n.nextStore = f + 1
    BY <1>2, ZenonT(60) DEF ProvisionalStore, MemoryOK, MemoryShape
  <2>2. /\ DOMAIN n.provisional = DOMAIN m.provisional \cup {repo}
        /\ n.provisional[repo] = entry
        /\ \A r \in DOMAIN m.provisional : r # repo /\ n.provisional[r] = m.provisional[r]
        /\ DOMAIN n.live = DOMAIN m.live \cup {f} /\ n.live[f] = Facade(repo, checkout, 0)
        /\ \A g \in DOMAIN m.live : g # f /\ n.live[g] = m.live[g]
    BY <1>2, <2>1 DEF With, MemoryOK, MemoryShape
  <2>3. entry.checkout = checkout /\ entry.store = f
    OBVIOUS
  <2>4. MemoryShape(n)
    BY <2>1, <2>2 DEF MemoryOK, MemoryShape
  <2> HIDE DEF n, f, entry
  <2>5. SharedOK(n, R)
    BY <2>1, <2>2 DEF MemoryOK, SharedOK
  <2>6. StoresOK(n, C)
    BY <2>1, <2>2 DEF MemoryOK, StoresOK
  <2>7. ProvisionalOK(n, R, C)
    BY <2>2, <2>3 DEF MemoryOK, ProvisionalOK
  <2>8. FacadesFound(n)
    <3>1. Found(n, f)
      BY <2>2, <2>3, FacadeFields DEF Found
    <3>2. ASSUME NEW g \in DOMAIN m.live PROVE Found(n, g)
      <4>1. Found(m, g)
        BY AllFound, ZenonT(60) DEF MemoryOK
      <4> QED
        BY <2>1, <2>2, <4>1, StaysFound
    <3> QED
      BY <2>2, <3>1, <3>2, AllFound, ZenonT(60)
  <2> QED
    BY <2>1, <2>2, <2>4, <2>5, <2>6, <2>7, <2>8 DEF MemoryOK, n
<1> QED
  BY <1>1, <1>2

\* Evicting a provisional repository keeps the memory sound and the other
\* maps.
LEMMA EvictProvisionalKeeps ==
  ASSUME NEW m, NEW R, NEW C, MemoryOK(m, R, C), NEW repo
  PROVE  LET n == EvictProvisional(m, repo) IN
         /\ MemoryOK(n, R, C) /\ n.shared = m.shared /\ n.stores = m.stores
         /\ DOMAIN n.provisional = DOMAIN m.provisional \ {repo}
         /\ \A r \in DOMAIN n.provisional : n.provisional[r] = m.provisional[r]
<1> DEFINE n == EvictProvisional(m, repo)
           f == m.provisional[repo].store
<1>1. CASE repo \notin DOMAIN m.provisional
  BY <1>1 DEF EvictProvisional
<1>2. CASE repo \in DOMAIN m.provisional
  <2>1. /\ DOMAIN n = DOMAIN m /\ n.shared = m.shared /\ n.stores = m.stores
        /\ n.provisional = Without(m.provisional, {repo})
        /\ n.live = Without(m.live, {f}) /\ n.nextStore = m.nextStore
    BY <1>2 DEF EvictProvisional, MemoryOK, MemoryShape
  <2>2. /\ DOMAIN n.provisional = DOMAIN m.provisional \ {repo}
        /\ \A r \in DOMAIN n.provisional : n.provisional[r] = m.provisional[r]
        /\ DOMAIN n.live = DOMAIN m.live \ {f} /\ \A g \in DOMAIN n.live : n.live[g] = m.live[g]
        /\ n.shared = m.shared /\ n.stores = m.stores
    BY <2>1 DEF Without
  <2>3. MemoryShape(n)
    BY <2>1, <2>2, ZenonT(60) DEF MemoryOK, MemoryShape
  <2>4. /\ \A r \in DOMAIN m.shared : m.shared[r] # f
        /\ \A c \in DOMAIN m.stores : m.stores[c] # f
        /\ \A r \in DOMAIN m.provisional : m.provisional[r].store = f <=> r = repo
    BY <1>2, MapsApart
  <2> HIDE DEF n, f
  <2>5. SharedOK(n, R)
    BY <2>2, <2>4 DEF MemoryOK, SharedOK
  <2>6. StoresOK(n, C)
    BY <2>2, <2>4 DEF MemoryOK, StoresOK
  <2>7. ProvisionalOK(n, R, C)
    BY <2>2, <2>4 DEF MemoryOK, ProvisionalOK
  <2>8. FacadesFound(n)
    <3>1. ASSUME NEW g \in DOMAIN n.live PROVE Found(n, g)
      <4>1. g \in DOMAIN m.live /\ g # f /\ n.live[g] = m.live[g]
        BY <2>2, ZenonT(60)
      <4>2. Found(m, g)
        BY <4>1, AllFound, ZenonT(60) DEF MemoryOK
      <4> QED
        BY <2>2, <2>4, <4>1, <4>2, StaysFound
    <3> QED
      BY <3>1, AllFound, ZenonT(60)
  <2> QED
    BY <2>1, <2>2, <2>3, <2>5, <2>6, <2>7, <2>8, ZenonT(60) DEF MemoryOK, n
<1> QED
  BY <1>1, <1>2

\* The cleanup of a clone, which opens a facade of its own when there is none:
\* its repository has none afterwards.
LEMMA SweepKeeps ==
  ASSUME NEW m, NEW R, NEW C, MemoryOK(m, R, C), NEW repo, NEW checkout, checkout # 0,
         ProvisionalIn(R, repo), CheckoutIn(C, checkout, repo)
  PROVE  LET n == EvictProvisional(ProvisionalStore(m, repo, checkout), repo) IN
         /\ MemoryOK(n, R, C) /\ n.shared = m.shared /\ n.stores = m.stores
         /\ DOMAIN n.provisional = DOMAIN m.provisional \ {repo}
         /\ \A r \in DOMAIN n.provisional : n.provisional[r] = m.provisional[r]
<1> DEFINE p == ProvisionalStore(m, repo, checkout)
           n == EvictProvisional(p, repo)
<1>1. /\ MemoryOK(p, R, C) /\ p.shared = m.shared /\ p.stores = m.stores
      /\ DOMAIN p.provisional = DOMAIN m.provisional \cup {repo}
      /\ \A r \in DOMAIN m.provisional : p.provisional[r] = m.provisional[r]
  BY ProvisionalStoreKeeps
<1> HIDE DEF p
<1>2. /\ MemoryOK(n, R, C) /\ n.shared = p.shared /\ n.stores = p.stores
      /\ DOMAIN n.provisional = DOMAIN p.provisional \ {repo}
      /\ \A r \in DOMAIN n.provisional : n.provisional[r] = p.provisional[r]
  BY <1>1, EvictProvisionalKeeps
<1> HIDE DEF n
<1> QED
  BY <1>1, <1>2 DEF n, p

\* Destroying a repository leaves nothing in memory that leads to its rows.
LEMMA DestroyedKeeps ==
  ASSUME NEW m, NEW R, NEW C, MemoryOK(m, R, C), NEW repo
  PROVE  LET n == DestroyedMemory(m, repo) IN
         /\ MemoryOK(n, R, C) /\ n.provisional = m.provisional
         /\ DOMAIN n.shared = DOMAIN m.shared \ {repo}
         /\ \A c \in DOMAIN n.stores : c \in DOMAIN m.stores /\ C[c].repo # repo
<1> DEFINE n == DestroyedMemory(m, repo)
           closed == {m.shared[r] : r \in {repo} \cap DOMAIN m.shared}
           gone == {c \in DOMAIN m.identities : m.identities[c].repo = repo}
                   \cup {c \in DOMAIN m.stores : m.live[m.stores[c]].repo = repo}
           revoked == {m.stores[c] : c \in gone \cap DOMAIN m.stores}
<1>1. /\ DOMAIN n = DOMAIN m /\ n.provisional = m.provisional /\ n.nextStore = m.nextStore
      /\ n.shared = Without(m.shared, {repo}) /\ n.stores = Without(m.stores, gone)
      /\ n.live = Without(Without(m.live, closed), revoked)
  BY DEF DestroyedMemory, EvictCheckouts, MemoryOK, MemoryShape
<1>2. /\ DOMAIN n.live = DOMAIN m.live \ (closed \cup revoked)
      /\ \A f \in DOMAIN n.live : n.live[f] = m.live[f]
      /\ DOMAIN n.shared = DOMAIN m.shared \ {repo}
      /\ \A r \in DOMAIN n.shared : n.shared[r] = m.shared[r]
      /\ DOMAIN n.stores = DOMAIN m.stores \ gone
      /\ \A c \in DOMAIN n.stores : n.stores[c] = m.stores[c]
      /\ n.provisional = m.provisional
  BY <1>1, ZenonT(60) DEF Without
<1>3. MemoryShape(n)
  BY <1>1, <1>2, ZenonT(60) DEF MemoryOK, MemoryShape
<1>4. /\ \A f \in closed : repo \in DOMAIN m.shared /\ f = m.shared[repo]
      /\ repo \in DOMAIN m.shared => m.shared[repo] \in closed
      /\ \A f \in revoked : \E c \in gone : c \in DOMAIN m.stores /\ f = m.stores[c]
      /\ \A c \in gone \cap DOMAIN m.stores : m.stores[c] \in revoked
      /\ \A c \in DOMAIN m.stores : m.live[m.stores[c]].repo = repo => c \in gone
  BY ZenonT(60)
<1> HIDE DEF n, closed, gone, revoked
<1>5. \A c \in DOMAIN m.stores : m.live[m.stores[c]].repo = C[c].repo
  BY FacadeFields DEF MemoryOK, StoresOK
<1>6. /\ \A r \in DOMAIN m.shared : r # repo => m.shared[r] \notin closed \cup revoked
      /\ \A c \in DOMAIN m.stores : c \notin gone => m.stores[c] \notin closed \cup revoked
      /\ \A r \in DOMAIN m.provisional : m.provisional[r].store \notin closed \cup revoked
  BY <1>4, MapsApart
<1>7. SharedOK(n, R)
  BY <1>2, <1>6, ZenonT(60) DEF MemoryOK, SharedOK
<1>8. StoresOK(n, C)
  BY <1>2, <1>4, <1>5, <1>6 DEF MemoryOK, StoresOK
<1>9. ProvisionalOK(n, R, C)
  BY <1>2, <1>6 DEF MemoryOK, ProvisionalOK
<1>10. FacadesFound(n)
  <2>1. ASSUME NEW g \in DOMAIN n.live PROVE Found(n, g)
    <3>1. g \in DOMAIN m.live /\ g \notin closed /\ g \notin revoked /\ n.live[g] = m.live[g]
      BY <1>2, ZenonT(60)
    <3>2. Found(m, g)
      BY <3>1, AllFound, ZenonT(60) DEF MemoryOK
    <3> QED
      BY <1>2, <1>4, <3>1, <3>2, StaysFound
  <2> QED
    BY <2>1, AllFound, ZenonT(60)
<1> QED
  BY <1>1, <1>2, <1>3, <1>4, <1>5, <1>7, <1>8, <1>9, <1>10, ZenonT(60) DEF MemoryOK, n

\* A new object over the same tables remembers nothing, and has no calls.
LEMMA EmptyMemoryOK ==
  ASSUME NEW R, NEW C
  PROVE  MemoryOK(EmptyMemory, R, C)
<1>1. /\ DOMAIN EmptyMemory.shared = {} /\ DOMAIN EmptyMemory.stores = {}
      /\ DOMAIN EmptyMemory.provisional = {} /\ DOMAIN EmptyMemory.live = {}
  BY DEF EmptyMemory, Nothing
<1>2. MemoryShape(EmptyMemory)
  <2>1. /\ DOMAIN EmptyMemory =
             {"shared", "stores", "provisional", "identities", "live", "nextStore", "nextRow"}
        /\ EmptyMemory.nextStore = 1
    BY DEF EmptyMemory
  <2> QED
    BY <1>1, <2>1 DEF MemoryShape
<1> QED
  BY <1>1, <1>2, ZenonT(60) DEF MemoryOK, SharedOK, StoresOK, ProvisionalOK, FacadesFound

\* What the operations of the registry do to the memory, as a whole: n follows m.
Follows(n, m, R, C) == MemoryOK(n, R, C) /\ n.provisional = m.provisional

\* Follows is kept by openStore.
LEMMA OpenStoreFollows ==
  ASSUME NEW m, NEW n, NEW R, NEW C, Follows(n, m, R, C), NEW c, NEW repo, c # 0,
         CheckoutIn(C, c, repo), ReadyIn(R, repo)
  PROVE  Follows(OpenStore(n, c, repo), m, R, C)
  BY OpenStoreKeeps DEF Follows

\* Follows is kept by an eviction, after which no evicted checkout has a
\* store.
LEMMA EvictFollows ==
  ASSUME NEW m, NEW n, NEW R, NEW C, Follows(n, m, R, C), NEW S
  PROVE  Follows(EvictCheckouts(n, S), m, R, C) /\ DOMAIN EvictCheckouts(n, S).stores \cap S = {}
<1> DEFINE p == EvictCheckouts(n, S)
<1>1. MemoryOK(p, R, C) /\ p.provisional = n.provisional /\ DOMAIN p.stores = DOMAIN n.stores \ S
  BY EvictCheckoutsKeeps DEF Follows
<1> HIDE DEF p
<1>2. Follows(p, m, R, C) /\ DOMAIN p.stores \cap S = {}
  BY <1>1 DEF Follows
<1> QED
  BY <1>2 DEF p

\* Follows is kept by installStore.
LEMMA InstallStoreFollows ==
  ASSUME NEW m, NEW n, NEW R, NEW C, Follows(n, m, R, C), NEW c, NEW repo, c # 0,
         c \notin DOMAIN n.stores, CheckoutIn(C, c, repo), repo \in DOMAIN n.shared
  PROVE  Follows(InstallStore(n, c, repo), m, R, C)
  BY InstallStoreKeeps DEF Follows

\* A created checkout that is remembered and opened: Follows is kept.
LEMMA CreatedStoreFollows ==
  ASSUME NEW m, NEW R, NEW C, MemoryOK(m, R, C), NEW c, NEW repo, c # 0,
         CheckoutIn(C, c, repo), ReadyIn(R, repo)
  PROVE  Follows(OpenStore(RememberCheckout(m, c, repo, TRUE), c, repo), m, R, C)
<1>1. Follows(RememberCheckout(m, c, repo, TRUE), m, R, C)
  BY RememberNewKeeps, ZenonT(60) DEF Follows
<1> QED
  BY <1>1, OpenStoreFollows, ZenonT(60)

\* An added checkout that is remembered and opened: Follows is kept.
LEMMA AddedStoreFollows ==
  ASSUME NEW m, NEW R, NEW C, MemoryOK(m, R, C), NEW c, NEW repo, c # 0, c \notin DOMAIN m.stores,
         CheckoutIn(C, c, repo), ReadyIn(R, repo)
  PROVE  Follows(InstallStore(RememberCheckout(OpenShared(m, repo), c, repo, TRUE), c, repo), m, R, C)
<1>1. PICK p : p = OpenShared(m, repo)
  OBVIOUS
<1>2. /\ MemoryOK(p, R, C) /\ repo \in DOMAIN p.shared
      /\ c \notin DOMAIN p.stores /\ p.provisional = m.provisional
  BY <1>1, OpenSharedKeeps
<1>3. PICK q : q = RememberCheckout(p, c, repo, TRUE)
  BY ZenonT(60)
<1>4. /\ MemoryOK(q, R, C) /\ q.shared = p.shared /\ q.stores = p.stores
      /\ q.provisional = p.provisional
  <2>0. MemoryOK(p, R, C)
    BY <1>2
  <2>1. LET n == RememberCheckout(p, c, repo, TRUE) IN
        /\ MemoryOK(n, R, C) /\ n.shared = p.shared /\ n.stores = p.stores
        /\ n.provisional = p.provisional
    BY <2>0, RememberNewKeeps
  <2> QED
    BY <1>3, <2>1, ZenonT(60)
<1>5. Follows(q, m, R, C) /\ c \notin DOMAIN q.stores /\ repo \in DOMAIN q.shared
  BY <1>2, <1>4 DEF Follows
<1>6. Follows(InstallStore(q, c, repo), m, R, C)
  BY <1>5, InstallStoreFollows, ZenonT(60)
<1> QED
  BY <1>1, <1>3, <1>6, ZenonT(60)

\* A removal opens its checkout, then evicts what it removed.
LEMMA RemovedStoreFollows ==
  ASSUME NEW m, NEW R, NEW C, MemoryOK(m, R, C), NEW c, NEW repo, c # 0,
         CheckoutIn(C, c, repo), ReadyIn(R, repo), NEW S
  PROVE  LET n == EvictCheckouts(OpenStore(RememberCheckout(m, c, repo, FALSE), c, repo), S) IN
         Follows(n, m, R, C) /\ DOMAIN n.stores \cap S = {}
<1>1. Follows(RememberCheckout(m, c, repo, FALSE), m, R, C)
  BY RememberSeenKeeps, ZenonT(60) DEF Follows
<1>2. Follows(OpenStore(RememberCheckout(m, c, repo, FALSE), c, repo), m, R, C)
  BY <1>1, OpenStoreFollows, ZenonT(60)
<1> QED
  BY <1>2, EvictFollows, ZenonT(60)

\* A prune evicts the stores of what it removed.
LEMMA PrunedStoresFollow ==
  ASSUME NEW m, NEW R, NEW C, MemoryOK(m, R, C), NEW repo, ReadyIn(R, repo), NEW seen, NEW S
  PROVE  LET n == EvictCheckouts(OpenShared(RememberCheckouts(m, seen, repo), repo), S) IN
         Follows(n, m, R, C) /\ DOMAIN n.stores \cap S = {}
<1>1. PICK p : p = RememberCheckouts(m, seen, repo)
  BY ZenonT(60)
<1>2. MemoryOK(p, R, C) /\ p.provisional = m.provisional
  BY <1>1, RememberAllKeeps
<1>3. Follows(OpenShared(p, repo), m, R, C)
  BY <1>2, OpenSharedKeeps DEF Follows
<1>4. LET n == EvictCheckouts(OpenShared(p, repo), S) IN
      Follows(n, m, R, C) /\ DOMAIN n.stores \cap S = {}
  BY <1>3, EvictFollows, ZenonT(60)
<1> QED
  BY <1>1, <1>4, ZenonT(60)

-----------------------------------------------------------------------------
(* The rows. *)

\* A repository that a step leaves alone keeps its checkouts.
LEMMA UntouchedCheckouts ==
  ASSUME NEW r, Untouched(r)
  PROVE  CheckoutsOf(r)' = CheckoutsOf(r) /\ PrimariesOf(r)' = PrimariesOf(r)
<1>1. CheckoutsOf(r)' = CheckoutsOf(r)
  BY DEF CheckoutsOf, Untouched
<1>2. \A c \in CheckoutsOf(r) : checkouts'[c] = checkouts[c]
  BY DEF CheckoutsOf, Untouched
<1> QED
  BY <1>1, <1>2 DEF PrimariesOf

\* A repository that a step leaves alone keeps its primary and its only
\* checkout.
LEMMA UntouchedSingle ==
  ASSUME SingleCheckouts, NEW r \in DOMAIN repositories', Untouched(r)
  PROVE  /\ repositories'[r].kind = "bare" => PrimariesOf(r)' = {}
         /\ repositories'[r].kind = "workspace" => \E c \in CheckoutsOf(r)' : PrimariesOf(r)' = {c}
         /\ Provisional(r)' => \E c \in CheckoutsOf(r)' : CheckoutsOf(r)' = {c}
<1>1. r \in DOMAIN repositories /\ repositories'[r] = repositories[r]
  BY ZenonT(60) DEF Untouched
<1> QED
  BY <1>1, UntouchedCheckouts DEF SingleCheckouts, Provisional

\* The memory agrees with rows that grow, and with rows that lose only what no
\* map of the memory leads to.
LEMMA KeptRowsKeepMemory ==
  ASSUME NEW m, MemoryOK(m, repositories, checkouts),
         \A r \in DOMAIN m.shared \cup DOMAIN m.provisional :
           /\ r \in DOMAIN repositories' /\ repositories'[r] = repositories[r]
           /\ \A c \in DOMAIN checkouts :
                checkouts[c].repo = r => c \in DOMAIN checkouts' /\ checkouts'[c] = checkouts[c]
  PROVE  MemoryOK(m, repositories', checkouts')
<1>1. \A r \in DOMAIN m.shared : ReadyIn(repositories', r)
  BY DEF MemoryOK, SharedOK, ReadyIn
<1>2. \A c \in DOMAIN m.stores : CheckoutIn(checkouts', c, checkouts[c].repo)
  BY ZenonT(60) DEF MemoryOK, StoresOK, CheckoutIn
<1>3. \A r \in DOMAIN m.provisional :
        ProvisionalIn(repositories', r) /\ CheckoutIn(checkouts', m.provisional[r].checkout, r)
  BY DEF MemoryOK, ProvisionalOK, ProvisionalIn, CheckoutIn
<1> QED
  BY <1>1, <1>2, <1>3, RowsKeepMemory, ZenonT(60)

\* What MemoryOK says of the repositories and of the facades it leads to.
LEMMA GrownRowsKeepMemory ==
  ASSUME NEW m, MemoryOK(m, repositories, checkouts),
         \A r \in DOMAIN repositories : r \in DOMAIN repositories' /\ repositories'[r] = repositories[r],
         \A c \in DOMAIN checkouts : c \in DOMAIN checkouts' /\ checkouts'[c] = checkouts[c]
  PROVE  MemoryOK(m, repositories', checkouts')
<1>1. \A r \in DOMAIN m.shared \cup DOMAIN m.provisional : r \in DOMAIN repositories
  BY DEF MemoryOK, SharedOK, ProvisionalOK, ReadyIn, ProvisionalIn
<1> QED
  BY <1>1, KeptRowsKeepMemory, ZenonT(60)

\* A sound memory leads to rows that are there.
LEMMA MemoryLeads ==
  ASSUME NEW m, NEW R, NEW C, MemoryOK(m, R, C)
  PROVE  /\ \A r \in DOMAIN m.shared : r \in DOMAIN R /\ R[r].lifecycle = "ready"
         /\ \A r \in DOMAIN m.provisional : r \in DOMAIN R /\ R[r].lifecycle = "provisional"
         /\ \A r \in DOMAIN m.provisional : m.provisional[r].store \in Nat
<1>1. /\ \A r \in DOMAIN m.shared : r \in DOMAIN R /\ R[r].lifecycle = "ready"
      /\ \A r \in DOMAIN m.provisional : r \in DOMAIN R /\ R[r].lifecycle = "provisional"
  BY DEF MemoryOK, SharedOK, ProvisionalOK, ReadyIn, ProvisionalIn
<1>2. \A r \in DOMAIN m.provisional : m.provisional[r].store \in Nat
  <2>1. \A r \in DOMAIN m.provisional : m.provisional[r].store \in DOMAIN m.live
    BY ZenonT(60) DEF MemoryOK, ProvisionalOK
  <2> QED
    BY <2>1 DEF MemoryOK, MemoryShape
<1> QED
  BY <1>1, <1>2, ZenonT(60)

\* Every facade a sound memory still holds names rows that are there.
LEMMA FacadeSound ==
  ASSUME NEW m, NEW R, NEW C, MemoryOK(m, R, C), \A c \in DOMAIN C : C[c].repo \in DOMAIN R,
         NEW f \in DOMAIN m.live
  PROVE  /\ m.live[f].repo \in DOMAIN R
         /\ m.live[f].checkout # 0 =>
              m.live[f].checkout \in DOMAIN C /\ C[m.live[f].checkout].repo = m.live[f].repo
         /\ m.live[f].over # 0 => m.live[f].over \in DOMAIN m.live
<1>1. CASE m.live[f].repo \in DOMAIN m.shared /\ m.shared[m.live[f].repo] = f
  <2>1. m.live[f] = Facade(m.live[f].repo, 0, 0) /\ m.live[f].repo \in DOMAIN R
    BY <1>1, ZenonT(60) DEF MemoryOK, SharedOK, ReadyIn
  <2>2. m.live[f].checkout = 0 /\ m.live[f].over = 0
    <3>1. PICK x, r : x = m.live[f] /\ r = m.live[f].repo
      OBVIOUS
    <3>2. x = Facade(r, 0, 0)
      BY <2>1, <3>1, ZenonT(60)
    <3>3. x.checkout = 0 /\ x.over = 0
      BY <3>2, FacadeIs
    <3> QED
      BY <3>1, <3>3, ZenonT(60)
  <2> QED
    BY <2>1, <2>2, ZenonT(60)
<1>2. CASE m.live[f].checkout \in DOMAIN m.stores /\ m.stores[m.live[f].checkout] = f
  <2> DEFINE c == m.live[f].checkout
  <2>1. /\ c \in DOMAIN C /\ C[c].repo \in DOMAIN m.shared
        /\ m.live[f] = Facade(C[c].repo, c, m.shared[C[c].repo])
    BY <1>2, ZenonT(60) DEF MemoryOK, StoresOK
  <2>2. m.live[f].repo = C[c].repo /\ m.live[f].over = m.shared[C[c].repo]
    <3>1. PICK x, r, k, s : x = m.live[f] /\ r = C[c].repo /\ k = c /\ s = m.shared[r]
      OBVIOUS
    <3>2. x = Facade(r, k, s)
      BY <2>1, <3>1, ZenonT(60)
    <3>3. x.repo = r /\ x.over = s
      BY <3>2, FacadeIs, ZenonT(60)
    <3> QED
      BY <3>1, <3>3, ZenonT(60)
  <2>3. m.shared[C[c].repo] \in DOMAIN m.live
    BY <2>1, ZenonT(60) DEF MemoryOK, SharedOK
  <2> QED
    BY <2>1, <2>2, <2>3, ZenonT(60)
<1>3. CASE m.live[f].repo \in DOMAIN m.provisional /\ m.provisional[m.live[f].repo].store = f
  <2> DEFINE r == m.live[f].repo
             c == m.provisional[r].checkout
  <2>1. r \in DOMAIN R /\ c \in DOMAIN C /\ C[c].repo = r /\ m.live[f] = Facade(r, c, 0)
    BY <1>3, ZenonT(60) DEF MemoryOK, ProvisionalOK, ProvisionalIn, CheckoutIn
  <2>2. m.live[f].checkout = c /\ m.live[f].over = 0
    <3>1. PICK x, q, k : x = m.live[f] /\ q = r /\ k = c
      OBVIOUS
    <3>2. x = Facade(q, k, 0)
      BY <2>1, <3>1, ZenonT(60)
    <3>3. x.checkout = k /\ x.over = 0
      BY <3>2, FacadeIs
    <3> QED
      BY <3>1, <3>3, ZenonT(60)
  <2> QED
    BY <2>1, <2>2, ZenonT(60)
<1> QED
  BY <1>1, <1>2, <1>3, ZenonT(60) DEF MemoryOK, FacadesFound

\* A step that writes no row keeps the row invariant and touches no
\* repository.
LEMMA SameRows ==
  ASSUME RowsOK, UNCHANGED << tables, clock, held >>
  PROVE  RowsOK' /\ \A r : Untouched(r)
<1>1. UNCHANGED << repositories, checkouts, sequence, clock, held >>
  BY DEF tables
<1>2. RowsTyped' /\ RootsDiffer' /\ HeldOK'
  BY <1>1 DEF RowsOK, RowsTyped, RootsDiffer, HeldOK
<1>3. SingleCheckouts'
  BY <1>1 DEF RowsOK, SingleCheckouts, Provisional, PrimariesOf, CheckoutsOf
<1> QED
  BY <1>1, <1>2, <1>3 DEF RowsOK, Untouched

\* A row that changes and stays, or becomes ready, keeps the rows in order.
LEMMA UpdatedRow ==
  ASSUME RowsOK, UNCHANGED << checkouts, sequence, clock, held >>, NEW R \in DOMAIN repositories,
         DOMAIN repositories' = DOMAIN repositories, repositories'[R] \in RepositoryRow,
         \A r \in DOMAIN repositories : r # R => repositories'[r] = repositories[r],
         repositories'[R].kind = repositories[R].kind,
         repositories'[R].lifecycle \in {repositories[R].lifecycle, "ready"}
  PROVE  RowsOK' /\ \A r : r # R => Untouched(r)
<1>1. RowsTyped'
  BY ZenonT(60) DEF RowsOK, RowsTyped
<1>2. RootsDiffer' /\ HeldOK'
  BY DEF RowsOK, RootsDiffer, HeldOK
<1>3. SingleCheckouts'
  <2> SUFFICES ASSUME NEW r \in DOMAIN repositories'
               PROVE  /\ repositories'[r].kind = "bare" => PrimariesOf(r)' = {}
                      /\ repositories'[r].kind = "workspace" => \E c \in CheckoutsOf(r)' : PrimariesOf(r)' = {c}
                      /\ Provisional(r)' => \E c \in CheckoutsOf(r)' : CheckoutsOf(r)' = {c}
    BY DEF SingleCheckouts
  <2>1. /\ repositories[r].kind = "bare" => PrimariesOf(r) = {}
        /\ repositories[r].kind = "workspace" => \E c \in CheckoutsOf(r) : PrimariesOf(r) = {c}
        /\ Provisional(r) => \E c \in CheckoutsOf(r) : CheckoutsOf(r) = {c}
    BY DEF RowsOK, SingleCheckouts
  <2>2. repositories'[r].kind = repositories[r].kind /\ (Provisional(r)' => Provisional(r))
    BY DEF Provisional
  <2>3. PrimariesOf(r)' = PrimariesOf(r) /\ CheckoutsOf(r)' = CheckoutsOf(r)
    BY DEF PrimariesOf, CheckoutsOf
  <2> QED
    BY <2>1, <2>2, <2>3, ZenonT(60)
<1>4. \A r : r # R => Untouched(r)
  BY DEF Untouched
<1> QED
  BY <1>1, <1>2, <1>3, <1>4, ZenonT(60) DEF RowsOK

\* Rows that go: repositories with all their checkouts, and other checkouts that
\* are neither primary nor a clone's.
Removes(X, S) ==
  /\ UNCHANGED << sequence, clock, held >>
  /\ DOMAIN repositories' = DOMAIN repositories \ X
  /\ \A r \in DOMAIN repositories' : repositories'[r] = repositories[r]
  /\ DOMAIN checkouts' = DOMAIN checkouts \ S
  /\ \A c \in DOMAIN checkouts' : checkouts'[c] = checkouts[c]
  /\ \A c \in DOMAIN checkouts : checkouts[c].repo \in X => c \in S
  /\ \A c \in S \cap DOMAIN checkouts : checkouts[c].repo \notin X =>
       ~checkouts[c].primary /\ ReadyIn(repositories, checkouts[c].repo)

\* Removing repositories and checkouts keeps the row invariant.
LEMMA RemovedRows ==
  ASSUME RowsOK, NEW X, NEW S, Removes(X, S)
  PROVE  RowsOK'
<1>1. RowsTyped'
  BY DEF RowsOK, RowsTyped, Removes
<1>2. RootsDiffer' /\ HeldOK'
  BY ZenonT(60) DEF RowsOK, RootsDiffer, HeldOK, Removes
<1>3. SingleCheckouts'
  <2> SUFFICES ASSUME NEW r \in DOMAIN repositories'
               PROVE  /\ repositories[r].kind = "bare" => PrimariesOf(r)' = {}
                      /\ repositories[r].kind = "workspace" => \E c \in CheckoutsOf(r)' : PrimariesOf(r)' = {c}
                      /\ Provisional(r) => \E c \in CheckoutsOf(r)' : CheckoutsOf(r)' = {c}
    BY DEF SingleCheckouts, Provisional, Removes
  <2>1. r \in DOMAIN repositories /\ r \notin X
    BY ZenonT(60) DEF Removes
  <2>2. PrimariesOf(r)' = PrimariesOf(r) /\ PrimariesOf(r)' \subseteq CheckoutsOf(r)'
    BY <2>1 DEF PrimariesOf, CheckoutsOf, Removes
  <2>3. Provisional(r) => CheckoutsOf(r)' = CheckoutsOf(r)
    BY <2>1 DEF CheckoutsOf, Provisional, Removes, ReadyIn
  <2> QED
    BY <2>1, <2>2, <2>3 DEF RowsOK, SingleCheckouts
<1> QED
  BY <1>1, <1>2, <1>3, ZenonT(60) DEF RowsOK

\* A memory that leads to no removed row is sound for the rows that are left.
LEMMA RemovedMemory ==
  ASSUME NEW X, NEW S, Removes(X, S), NEW n, MemoryOK(n, repositories, checkouts),
         \A r \in DOMAIN n.shared \cup DOMAIN n.provisional : r \notin X,
         \A c \in DOMAIN n.stores : c \notin S
  PROVE  MemoryOK(n, repositories', checkouts')
<1>1. \A r \in DOMAIN n.shared : ReadyIn(repositories', r)
  BY ZenonT(60) DEF MemoryOK, SharedOK, ReadyIn, Removes
<1>2. \A c \in DOMAIN n.stores : CheckoutIn(checkouts', c, checkouts[c].repo)
  BY ZenonT(60) DEF MemoryOK, StoresOK, CheckoutIn, Removes
<1>3. \A r \in DOMAIN n.provisional :
        ProvisionalIn(repositories', r) /\ CheckoutIn(checkouts', n.provisional[r].checkout, r)
  <2> SUFFICES ASSUME NEW r \in DOMAIN n.provisional
               PROVE  /\ ProvisionalIn(repositories', r)
                      /\ CheckoutIn(checkouts', n.provisional[r].checkout, r)
    BY ZenonT(60)
  <2>1. ProvisionalIn(repositories, r) /\ CheckoutIn(checkouts, n.provisional[r].checkout, r) /\ r \notin X
    BY ZenonT(60) DEF MemoryOK, ProvisionalOK
  <2> QED
    BY <2>1 DEF ProvisionalIn, CheckoutIn, ReadyIn, Removes
<1> QED
  BY <1>1, <1>2, <1>3, RowsKeepMemory, ZenonT(60)

\* A removal touches no repository but those it removes rows of.
LEMMA RemovalUntouched ==
  ASSUME NEW X, NEW S, Removes(X, S), NEW r, r \notin X,
         \A c \in S : c \in DOMAIN checkouts => checkouts[c].repo # r
  PROVE  Untouched(r)
  BY ZenonT(60) DEF Removes, Untouched

\* A repository with its primary checkout is new, and the rows of X and S make
\* room for it.
NewRows(root, X, S, id, cid, row, crow) ==
  /\ id = sequence.repo + 1 /\ cid = sequence.checkout + 1
  /\ sequence' \in [repo: Nat, checkout: Nat] /\ sequence'.repo = id /\ sequence'.checkout = cid
  /\ UNCHANGED << clock, held >>
  /\ row \in RepositoryRow /\ row.kind = "workspace"
  /\ crow \in CheckoutRow /\ crow.repo = id /\ crow.root = root /\ crow.primary
  /\ DOMAIN repositories' = (DOMAIN repositories \ X) \cup {id} /\ repositories'[id] = row
  /\ \A r \in DOMAIN repositories \ X : repositories'[r] = repositories[r]
  /\ DOMAIN checkouts' = (DOMAIN checkouts \ S) \cup {cid} /\ checkouts'[cid] = crow
  /\ \A c \in DOMAIN checkouts \ S : checkouts'[c] = checkouts[c]
  /\ \A c \in DOMAIN checkouts : c \in S <=> checkouts[c].repo \in X
  /\ \A c \in DOMAIN checkouts : checkouts[c].root = root => c \in S

\* The identifiers that a create or clone takes are taken by nobody.
LEMMA NewRowsAreNew ==
  ASSUME RowsTyped, NEW root, NEW X, NEW S, NEW id, NEW cid, NEW row, NEW crow,
         NewRows(root, X, S, id, cid, row, crow)
  PROVE  /\ sequence.repo \in Nat /\ sequence.checkout \in Nat /\ id \in Nat /\ cid \in Nat
         /\ \A r \in DOMAIN repositories : r # id
         /\ \A c \in DOMAIN checkouts : c # cid /\ checkouts[c].repo # id
<1>1. /\ sequence.repo \in Nat /\ sequence.checkout \in Nat
      /\ id = sequence.repo + 1 /\ cid = sequence.checkout + 1
  BY ZenonT(60) DEF RowsTyped, NewRows
<1> QED
  BY <1>1 DEF RowsTyped

\* The rows that a create or clone inserts have their types.
LEMMA NewRowsTyped ==
  ASSUME RowsTyped, NEW root, NEW X, NEW S, NEW id, NEW cid, NEW row, NEW crow,
         NewRows(root, X, S, id, cid, row, crow)
  PROVE  RowsTyped'
<1>1. /\ sequence.repo \in Nat /\ sequence.checkout \in Nat /\ id \in Nat /\ cid \in Nat
      /\ \A c \in DOMAIN checkouts : checkouts[c].repo # id
  BY NewRowsAreNew, ZenonT(60)
<1>2. \A r \in DOMAIN repositories' :
        r \in Nat /\ 0 < r /\ r <= sequence'.repo /\ repositories'[r] \in RepositoryRow
  BY <1>1 DEF RowsTyped, NewRows
<1>3. \A c \in DOMAIN checkouts' :
        c \in Nat /\ 0 < c /\ c <= sequence'.checkout /\ checkouts'[c] \in CheckoutRow
  BY <1>1 DEF RowsTyped, NewRows
<1>4. \A c \in DOMAIN checkouts' : checkouts'[c].repo \in DOMAIN repositories'
  BY <1>1, ZenonT(60) DEF RowsTyped, NewRows
<1>5. sequence' \in [repo: Nat, checkout: Nat] /\ clock' \in Nat
  BY DEF RowsTyped, NewRows
<1> QED
  BY <1>2, <1>3, <1>4, <1>5, ZenonT(60) DEF RowsTyped

\* Inserting rows leaves every other repository alone.
LEMMA NewRowsUntouched ==
  ASSUME RowsTyped, NEW root, NEW X, NEW S, NEW id, NEW cid, NEW row, NEW crow,
         NewRows(root, X, S, id, cid, row, crow), NEW r, r \notin X, r # id
  PROVE  Untouched(r)
<1>1. /\ r \in DOMAIN repositories <=> r \in DOMAIN repositories'
      /\ r \in DOMAIN repositories => repositories'[r] = repositories[r]
  BY DEF NewRows
<1>2. \A c \in DOMAIN checkouts :
        checkouts[c].repo = r => c \in DOMAIN checkouts' /\ checkouts'[c] = checkouts[c]
  BY DEF NewRows
<1>3. \A c \in DOMAIN checkouts' :
        checkouts'[c].repo = r => c \in DOMAIN checkouts /\ checkouts'[c] = checkouts[c]
  BY DEF NewRows
<1> QED
  BY <1>1, <1>2, <1>3, ZenonT(60) DEF Untouched

\* Inserting rows keeps the row invariant.
LEMMA NewRowsOK ==
  ASSUME RowsOK, NEW root, NEW X, NEW S, NEW id, NEW cid, NEW row, NEW crow,
         NewRows(root, X, S, id, cid, row, crow)
  PROVE  RowsOK'
<1>1. RowsTyped'
  BY NewRowsTyped, ZenonT(60) DEF RowsOK
<1>2. /\ sequence.checkout \in Nat /\ cid = sequence.checkout + 1
      /\ \A c \in DOMAIN checkouts : c # cid /\ checkouts[c].repo # id
  <2>1. RowsTyped
    BY DEF RowsOK
  <2>2. cid = sequence.checkout + 1
    BY ZenonT(60) DEF NewRows
  <2> QED
    BY <2>1, <2>2, NewRowsAreNew
<1>3. RootsDiffer'
  <2>1. \A c \in DOMAIN checkouts' : c # cid =>
          c \in DOMAIN checkouts /\ checkouts'[c] = checkouts[c] /\ checkouts'[c].root # root
    BY DEF NewRows
  <2>2. checkouts'[cid].root = root
    BY ZenonT(60) DEF NewRows
  <2> QED
    BY <2>1, <2>2, ZenonT(60) DEF RowsOK, RootsDiffer
<1>4. HeldOK'
  <2>1. /\ \A c \in DOMAIN checkouts' : c # cid =>
             c \in DOMAIN checkouts /\ checkouts'[c] = checkouts[c]
        /\ held' = held /\ sequence'.checkout = cid
    BY DEF NewRows
  <2>2. held # NoRow => /\ held.checkout \in Nat /\ held.checkout <= sequence.checkout
                        /\ held.checkout # cid
    BY <1>2 DEF RowsOK, HeldOK
  <2> QED
    BY <1>2, <2>1, <2>2 DEF RowsOK, HeldOK
<1>5. CheckoutsOf(id)' = {cid} /\ PrimariesOf(id)' = {cid}
  <2>0. /\ \A c \in DOMAIN checkouts' : c # cid => c \in DOMAIN checkouts /\ checkouts'[c] = checkouts[c]
        /\ cid \in DOMAIN checkouts' /\ checkouts'[cid].repo = id /\ checkouts'[cid].primary
    BY ZenonT(60) DEF NewRows
  <2>1. /\ \A c \in DOMAIN checkouts' : c = cid \/ checkouts'[c].repo # id
        /\ cid \in DOMAIN checkouts' /\ checkouts'[cid].repo = id /\ checkouts'[cid].primary
    BY <1>2, <2>0
  <2>2. CheckoutsOf(id)' = {cid}
    BY <2>1, ZenonT(60) DEF CheckoutsOf
  <2> QED
    BY <2>1, <2>2, ZenonT(60) DEF PrimariesOf
<1>6. SingleCheckouts'
  <2>1. /\ repositories'[id].kind = "bare" => PrimariesOf(id)' = {}
        /\ repositories'[id].kind = "workspace" => \E c \in CheckoutsOf(id)' : PrimariesOf(id)' = {c}
        /\ \E c \in CheckoutsOf(id)' : CheckoutsOf(id)' = {c}
    <3>1. repositories'[id].kind = "workspace"
      BY DEF NewRows
    <3> QED
      BY <1>5, <3>1, ZenonT(60)
  <2>2. ASSUME NEW r \in DOMAIN repositories', r # id
        PROVE  Untouched(r)
    <3>1. r \notin X
      BY <2>2 DEF NewRows
    <3>2. RowsTyped
      BY DEF RowsOK
    <3> QED
      BY <2>2, <3>1, <3>2, NewRowsUntouched, ZenonT(60)
  <2> QED
    BY <2>1, <2>2, UntouchedSingle, ZenonT(60) DEF SingleCheckouts, RowsOK
<1> QED
  BY <1>1, <1>3, <1>4, <1>6 DEF RowsOK
===============================================================================
