------------------------------ MODULE CloneProofs -----------------------------
(* The beginning and the discarding of clones keep CloneInv, and so *)
(* do restarts and the clock: CloneInv holds throughout, and with it *)
(* ClonesOwned and RegistryIntact.  The ingest of packs into one of *)
(* the repositories keeps IngestInv, and with it IngestOwnsPack. *)
EXTENDS CloneRegistryProofs, PackIngest

\* A step that names no prover is tried with each of these in turn.
USE SMT, ZenonT(60), SMTT(60)

-------------------------------------------------------------------------------
(* The rows and the memory of a clone that begins. *)

\* The next ids are not in use.
LEMMA NextIdsAreNew ==
  ASSUME RowsTyped
  PROVE  /\ \A r \in DOMAIN repositories : r # sequence.repo + 1
         /\ \A c \in DOMAIN checkouts : c # sequence.checkout + 1
<1>1. sequence.repo \in Nat /\ sequence.checkout \in Nat
  BY DEF RowsTyped
<1> QED
  BY <1>1 DEF RowsTyped

\* A clone begins: the memory without the facades of the rows it takes over and
\* with its own, and its call.
BegunMemory(X, id, p) ==
  /\ memory' = p
  /\ DOMAIN p.provisional = (DOMAIN memory.provisional \ X) \cup {id}
  /\ \A r \in DOMAIN memory.provisional \ X : r # id /\ p.provisional[r] = memory.provisional[r]
BegunCall(k, id, cid, row, p, new) ==
  /\ calls[k].phase = "idle" /\ calls' = [calls EXCEPT ![k] = new]
  /\ new \in CallRow /\ new.phase = "fetch" /\ new.repo = id /\ new.checkout = cid
  /\ new.store = p.provisional[id].store /\ new.lease = row.expires
  /\ row.lifecycle = "provisional"

\* the repositories that a clone finds at its root, and the memory without their
\* facades
TakenAt(root) == {checkouts[c].repo : c \in CheckoutsAt(root)}
SweptOf(X) == IF X = {} THEN memory ELSE SweptMemory(CHOOSE repo \in X : TRUE)

\* The rows that BeginClone leaves.
LEMMA BeginsRows ==
  ASSUME CloneInv, NEW k \in Clones, NEW root \in Roots, BeginClone(k, root), NEW X, NEW S, NEW id,
         NEW cid, NEW row, NEW crow, X = TakenAt(root), S = UNION {CheckoutsOf(r) : r \in X},
         id = NextRepository, cid = NextCheckout,
         row = [kind |-> "workspace", lifecycle |-> "provisional", expires |-> clock + LEASE,
                content |-> "config"],
         crow = [repo |-> id, root |-> root, primary |-> TRUE]
  PROVE  NewRows(root, X, S, id, cid, row, crow) /\ row.lifecycle = "provisional"
<1>1. /\ id = sequence.repo + 1 /\ cid = sequence.checkout + 1 /\ id \in Nat /\ cid \in Nat
      /\ clock + LEASE \in Nat
  BY RegistryAssumption DEF CloneInv, RowsOK, RowsTyped, NextRepository, NextCheckout, NextId
<1>2. /\ sequence' \in [repo: Nat, checkout: Nat] /\ sequence'.repo = id /\ sequence'.checkout = cid
      /\ UNCHANGED << clock, held >>
  BY <1>1, ZenonT(60) DEF BeginClone
<1>3. row \in RepositoryRow /\ row.kind = "workspace" /\ row.lifecycle = "provisional"
  BY <1>1, ZenonT(60) DEF RepositoryRow
<1>4. crow \in CheckoutRow /\ crow.repo = id /\ crow.root = root /\ crow.primary
  BY <1>1 DEF CheckoutRow
<1>5. /\ DOMAIN repositories' = (DOMAIN repositories \ X) \cup {id} /\ repositories'[id] = row
      /\ \A r \in DOMAIN repositories \ X : repositories'[r] = repositories[r]
  <2>1. repositories' = [With(Without(repositories, X), id,
                              [kind |-> "workspace", lifecycle |-> "provisional",
                               expires |-> clock + LEASE, content |-> "empty"])
                           EXCEPT ![id].content = "config"]
    BY ZenonT(60) DEF BeginClone, InsertedRepository, TakenAt
  <2>2. \A r \in DOMAIN repositories : r # id
    BY <1>1, NextIdsAreNew, ZenonT(60) DEF CloneInv, RowsOK
  <2> QED
    BY <2>1, <2>2, ZenonT(60) DEF With, Without
<1>6. /\ DOMAIN checkouts' = (DOMAIN checkouts \ S) \cup {cid} /\ checkouts'[cid] = crow
      /\ \A c \in DOMAIN checkouts \ S : checkouts'[c] = checkouts[c]
  <2>1. checkouts' = With(Without(checkouts, S), cid, crow)
    BY ZenonT(60) DEF BeginClone, InsertedCheckout, TakenAt
  <2>2. \A c \in DOMAIN checkouts : c # cid
    BY <1>1, NextIdsAreNew, ZenonT(60) DEF CloneInv, RowsOK
  <2> QED
    BY <2>1, <2>2, ZenonT(60) DEF With, Without
<1>7. \A c \in DOMAIN checkouts : c \in S <=> checkouts[c].repo \in X
  BY DEF CheckoutsOf
<1>8. \A c \in DOMAIN checkouts : checkouts[c].root = root => c \in S
  BY <1>7 DEF CheckoutsAt, TakenAt
<1> QED
  BY <1>1, <1>2, <1>3, <1>4, <1>5, <1>6, <1>7, <1>8, ZenonT(60) DEF NewRows

\* The memory that BeginClone leaves.
LEMMA BeginsMemory ==
  ASSUME MemoryOK(memory, repositories, checkouts), RowsTyped, NEW root, NEW X, NEW S, NEW id,
         NEW cid, NEW row, NEW crow, NewRows(root, X, S, id, cid, row, crow),
         row.lifecycle = "provisional",
         \A r \in X : ProvisionalIn(repositories, r),
         NEW n, MemoryOK(n, repositories, checkouts),
         DOMAIN n.provisional = DOMAIN memory.provisional \ X,
         \A r \in DOMAIN n.provisional : n.provisional[r] = memory.provisional[r],
         NEW p, p = ProvisionalStore(n, id, cid), memory' = p
  PROVE  MemoryOK(p, repositories', checkouts') /\ BegunMemory(X, id, p)
<1>1. \A r \in DOMAIN n.shared \cup DOMAIN n.provisional :
        /\ r \in DOMAIN repositories' /\ repositories'[r] = repositories[r]
        /\ \A c \in DOMAIN checkouts :
             checkouts[c].repo = r => c \in DOMAIN checkouts' /\ checkouts'[c] = checkouts[c]
  <2>1. \A r \in DOMAIN n.shared \cup DOMAIN n.provisional : r \in DOMAIN repositories /\ r \notin X
    BY MemoryLeads, ZenonT(60) DEF ProvisionalIn
  <2> QED
    BY <2>1 DEF NewRows
<1>2. MemoryOK(n, repositories', checkouts')
  BY <1>1, KeptRowsKeepMemory, ZenonT(60)
<1>3. ProvisionalIn(repositories', id) /\ CheckoutIn(checkouts', cid, id) /\ cid # 0
  <2>1. sequence.checkout \in Nat
    BY NewRowsAreNew, ZenonT(60)
  <2> QED
    BY <2>1 DEF ProvisionalIn, CheckoutIn, NewRows
<1>4. /\ MemoryOK(p, repositories', checkouts')
      /\ DOMAIN p.provisional = DOMAIN n.provisional \cup {id}
      /\ \A r \in DOMAIN n.provisional : p.provisional[r] = n.provisional[r]
  BY <1>2, <1>3, ProvisionalStoreKeeps
<1>5. id \notin DOMAIN memory.provisional
  BY MemoryLeads, NewRowsAreNew
<1> QED
  BY <1>4, <1>5, ZenonT(60) DEF BegunMemory

-------------------------------------------------------------------------------
(* The ingest of packs: IngestInv holds throughout, and with it IngestOwnsPack. *)

\* The later of two times.
LEMMA LaterOfTwo ==
  ASSUME NEW a \in Nat, NEW b \in Nat
  PROVE  MaxOf({a, b}) \in {a, b} /\ a <= MaxOf({a, b}) /\ b <= MaxOf({a, b})
<1>1. \E x \in {a, b} : \A y \in {a, b} : x >= y
  OBVIOUS
<1>2. MaxOf({a, b}) \in {a, b} /\ \A y \in {a, b} : MaxOf({a, b}) >= y
  BY <1>1, ZenonT(60) DEF MaxOf
<1> QED BY <1>2

\* What a step leaves alone keeps its part of IngestInv.
LEMMA OthersKeepLeases ==
  ASSUME IngestInv, NEW k \in Ingests, IngestTypes',
         \A j \in Ingests \ {k} : ingests'[j] = ingests[j],
         ingestClock' = ingestClock,
         control'.active # 0 =>
           control'.active \in DOMAIN packs' /\ packs'[control'.active].state = "pending",
         \A j \in Ingests \ {k} :
           Running(j) /\ ingestClock < ingests[j].expires =>
             /\ control'.active = ingests[j].pack /\ control'.generation = ingests[j].generation
             /\ ingests[j].expires <= control'.expires,
         Running(k)' =>
           /\ \A j \in Ingests \ {k} : Running(j) => ingests[j].pack # ingests'[k].pack
           /\ ingestClock < ingests'[k].expires =>
                /\ control'.active = ingests'[k].pack
                /\ control'.generation = ingests'[k].generation
                /\ ingests'[k].expires <= control'.expires
  PROVE  IngestInv'
<1>1. \A j \in Ingests \ {k} : Running(j)' <=> Running(j)
  BY DEF Running
<1>2. ASSUME NEW i \in Ingests, NEW j \in Ingests, i # j, Running(i)', Running(j)'
      PROVE  ingests'[i].pack # ingests'[j].pack
  BY <1>1, <1>2 DEF IngestInv
<1>3. ASSUME NEW j \in Ingests, Running(j)', ingestClock' < ingests'[j].expires
      PROVE  /\ control'.active = ingests'[j].pack /\ control'.generation = ingests'[j].generation
             /\ ingests'[j].expires <= control'.expires
  BY <1>1, <1>3, ZenonT(60)
<1> QED BY <1>2, <1>3, ZenonT(60) DEF IngestInv

LEMMA ReserveKeeps ==
  ASSUME IngestInv, NEW k \in Ingests, NEW source, Reserve(k, source)
  PROVE  IngestInv'
<1> DEFINE id == control.last + 1
<1>1. /\ control.active # 0 => ingestClock >= control.expires
      /\ control' = [generation |-> control.generation + 1, last |-> id, active |-> id,
                     expires |-> ingestClock + PACK_INGEST_LEASE]
      /\ ingests' = [ingests EXCEPT ![k] =
                   [NoIngest EXCEPT !.phase = "receive", !.pack = id, !.source = source,
                                    !.generation = control.generation + 1, !.next = 1,
                                    !.expires = ingestClock + PACK_INGEST_LEASE]]
      /\ ingestClock' = ingestClock
  BY DEF Reserve, NextPackId
<1>2. /\ DOMAIN packs' = (DOMAIN packs \ Reclaimable) \cup {id}
      /\ packs' = [p \in DOMAIN packs' |-> packs'[p]]
      /\ packs'[id] = [NoPack EXCEPT !.state = "pending", !.source = source]
      /\ \A p \in DOMAIN packs \ Reclaimable : p # id => packs'[p] = packs[p]
  BY DEF Reserve, NextPackId
<1>3. /\ control.last \in Nat /\ control.generation \in Nat /\ ingestClock \in Nat
      /\ PACK_INGEST_LEASE \in Nat
  BY PackIngestAssumption DEF IngestInv, IngestTypes
<1>4. /\ ingests'[k].phase = "receive" /\ ingests'[k].pack = id
      /\ ingests'[k].generation = control.generation + 1
      /\ ingests'[k].expires = ingestClock + PACK_INGEST_LEASE
      /\ HasFields(ingests'[k], NoIngest)
      /\ ingests' = [j \in Ingests |-> ingests'[j]]
      /\ \A j \in Ingests \ {k} : ingests'[j] = ingests[j]
  BY <1>1, ZenonT(60) DEF IngestInv, IngestTypes, NoIngest, HasFields
<1>5. packs'[id].state = "pending" /\ HasFields(packs'[id], NoPack)
  BY <1>2, ZenonT(60) DEF NoPack, HasFields
<1>6. IngestTypes'
  BY <1>1, <1>2, <1>3, <1>4, <1>5 DEF IngestInv, IngestTypes, Running
<1>7. ASSUME NEW j \in Ingests \ {k}, Running(j), ingestClock < ingests[j].expires
      PROVE  FALSE
  BY <1>1, <1>3, <1>7 DEF IngestInv, IngestTypes
<1>8. \A j \in Ingests \ {k} : Running(j) => ingests[j].pack # id
  BY <1>3 DEF IngestInv, IngestTypes
<1>9. /\ id \in DOMAIN packs' /\ control'.active = id /\ control'.generation = ingests'[k].generation
      /\ ingests'[k].expires <= control'.expires
  BY <1>1, <1>2, <1>3, <1>4
<1> HIDE DEF id
<1> QED BY <1>1, <1>4, <1>5, <1>6, <1>7, <1>8, <1>9, OthersKeepLeases

\* A step of a call after an await.
LEMMA ResumedKeeps ==
  ASSUME IngestInv, NEW k \in Ingests, Running(k), NEW call, NEW pack, Resumed(k, call, pack),
         HasFields(call, NoIngest), HasFields(pack, NoPack),
         call.pack = ingests[k].pack, call.generation = ingests[k].generation,
         pack.state = Mine(k).state
  PROVE  IngestInv'
<1> DEFINE later == MaxOf({control.expires, ingestClock + PACK_INGEST_LEASE})
<1>1. /\ control.generation \in Nat /\ control.expires \in Nat /\ ingestClock \in Nat
      /\ control.active \in Nat /\ control.last \in Nat
      /\ ingestClock + PACK_INGEST_LEASE \in Nat
      /\ ingests[k].pack \in 1..control.last /\ ingests[k].expires \in Nat
      /\ ingests[k].generation \in Nat
  BY PackIngestAssumption DEF IngestInv, IngestTypes
<1>2. later \in Nat /\ control.expires <= later
  BY <1>1, LaterOfTwo, ZenonT(60)
<1> HIDE DEF later
<1>3. /\ RenewalDue(k) => OwnsLease(k)
      /\ control' = [control EXCEPT !.expires = IF RenewalDue(k) THEN later ELSE @]
      /\ ingests' = [ingests EXCEPT ![k] =
                       [call EXCEPT !.expires = IF RenewalDue(k) THEN later ELSE ingests[k].expires]]
      /\ ingestClock' = ingestClock
  BY DEF Resumed, HeartbeatPasses, Renewed, later
<1>4. /\ DOMAIN packs' = DOMAIN packs /\ packs' = [p \in DOMAIN packs' |-> packs'[p]]
      /\ \A p \in DOMAIN packs : /\ packs'[p].state = packs[p].state
                                 /\ HasFields(packs'[p], NoPack)
  BY DEF Resumed, Mine, IngestInv, IngestTypes
<1>5. /\ control' \in [generation: Nat, last: Nat, active: Nat, expires: Nat]
      /\ control'.active = control.active /\ control'.generation = control.generation
      /\ control'.last = control.last /\ control.expires <= control'.expires
      /\ RenewalDue(k) => control'.expires = later
  BY <1>1, <1>2, <1>3 DEF IngestInv, IngestTypes
<1>6. /\ ingests' = [j \in Ingests |-> ingests'[j]]
      /\ \A j \in Ingests \ {k} : ingests'[j] = ingests[j]
      /\ HasFields(ingests'[k], NoIngest)
      /\ ingests'[k].pack = ingests[k].pack /\ ingests'[k].generation = ingests[k].generation
      /\ ingests'[k].expires = IF RenewalDue(k) THEN later ELSE ingests[k].expires
  BY <1>3, ZenonT(60) DEF IngestInv, IngestTypes, HasFields, NoIngest
<1>7. IngestTypes'
  BY <1>1, <1>2, <1>3, <1>4, <1>5, <1>6, ZenonT(60) DEF IngestInv, IngestTypes, Running
<1>8. ingestClock < ingests'[k].expires =>
        /\ control'.active = ingests'[k].pack /\ control'.generation = ingests'[k].generation
        /\ ingests'[k].expires <= control'.expires
  BY <1>1, <1>2, <1>3, <1>5, <1>6 DEF OwnsLease, IngestInv
<1>9. \A j \in Ingests \ {k} :
        /\ Running(j) => ingests[j].pack # ingests'[k].pack
        /\ Running(j) /\ ingestClock < ingests[j].expires =>
             /\ control'.active = ingests[j].pack /\ control'.generation = ingests[j].generation
             /\ ingests[j].expires <= control'.expires
  BY <1>1, <1>5, <1>6 DEF IngestInv, IngestTypes
<1>10. control'.active # 0 =>
         control'.active \in DOMAIN packs' /\ packs'[control'.active].state = "pending"
  BY <1>4, <1>5, ZenonT(60) DEF IngestInv
<1> QED BY <1>3, <1>6, <1>7, <1>8, <1>9, <1>10, OthersKeepLeases, ZenonT(60)

\* Writing chunks, indexing and draining work on the call's own pack.
LEMMA WorkKeeps ==
  ASSUME IngestInv, NEW k \in Ingests,
         WriteChunks(k) \/ IndexPack(k) \/ DrainPage(k) \/ DrainPass(k)
  PROVE  IngestInv'
<1>1. Running(k) /\ HasFields(ingests[k], NoIngest) /\ HasFields(Mine(k), NoPack)
  <2>1. Running(k)
    BY ZenonT(60) DEF WriteChunks, IndexPack, DrainPage, DrainPass, Running
  <2>2. HasFields(NoPack, NoPack)
    BY DEF HasFields, NoPack
  <2> QED BY <2>1, <2>2, ZenonT(60) DEF IngestInv, IngestTypes, Mine
<1>2. CASE WriteChunks(k)
  <2>1. PICK phase, chunks :
          Resumed(k, [ingests[k] EXCEPT !.phase = phase],
                     [Mine(k) EXCEPT !.chunks = chunks])
    BY <1>2, ZenonT(60) DEF WriteChunks
  <2> DEFINE call == [ingests[k] EXCEPT !.phase = phase]
             mine == [Mine(k) EXCEPT !.chunks = chunks]
  <2>2. /\ HasFields(call, NoIngest) /\ HasFields(mine, NoPack)
        /\ call.pack = ingests[k].pack /\ call.generation = ingests[k].generation
        /\ mine.state = Mine(k).state
    BY <1>1 DEF HasFields, NoIngest, NoPack
  <2>3. Resumed(k, call, mine)
    BY <2>1, ZenonT(60)
  <2> HIDE DEF call, mine
  <2> QED BY <1>1, <2>2, <2>3, ResumedKeeps, ZenonT(60)
<1>3. CASE IndexPack(k)
  <2>1. PICK next, phase, entries, pending :
          Resumed(k, [ingests[k] EXCEPT !.next = next, !.phase = phase],
                     [Mine(k) EXCEPT !.entries = entries, !.pending = pending])
    BY <1>3, ZenonT(60) DEF IndexPack
  <2> DEFINE call == [ingests[k] EXCEPT !.next = next, !.phase = phase]
             mine == [Mine(k) EXCEPT !.entries = entries, !.pending = pending]
  <2>2. /\ HasFields(call, NoIngest) /\ HasFields(mine, NoPack)
        /\ call.pack = ingests[k].pack /\ call.generation = ingests[k].generation
        /\ mine.state = Mine(k).state
    BY <1>1, ZenonT(60) DEF HasFields, NoIngest, NoPack
  <2>3. Resumed(k, call, mine)
    BY <2>1, ZenonT(60)
  <2> HIDE DEF call, mine
  <2> QED BY <1>1, <2>2, <2>3, ResumedKeeps
<1>4. CASE DrainPage(k)
  <2>1. PICK after, progressed, entries, pending :
          Resumed(k, [ingests[k] EXCEPT !.after = after, !.progressed = progressed],
                     [Mine(k) EXCEPT !.entries = entries, !.pending = pending])
    BY <1>4, ZenonT(60) DEF DrainPage
  <2> DEFINE call == [ingests[k] EXCEPT !.after = after, !.progressed = progressed]
             mine == [Mine(k) EXCEPT !.entries = entries, !.pending = pending]
  <2>2. /\ HasFields(call, NoIngest) /\ HasFields(mine, NoPack)
        /\ call.pack = ingests[k].pack /\ call.generation = ingests[k].generation
        /\ mine.state = Mine(k).state
    BY <1>1, ZenonT(60) DEF HasFields, NoIngest, NoPack
  <2>3. Resumed(k, call, mine)
    BY <2>1, ZenonT(60)
  <2> HIDE DEF call, mine
  <2> QED BY <1>1, <2>2, <2>3, ResumedKeeps
<1>5. CASE DrainPass(k)
  <2>1. PICK progressed, phase :
          Resumed(k, [ingests[k] EXCEPT !.after = 0, !.progressed = progressed, !.phase = phase],
                     Mine(k))
    BY <1>5, ZenonT(60) DEF DrainPass
  <2> DEFINE call == [ingests[k] EXCEPT !.after = 0, !.progressed = progressed, !.phase = phase]
             mine == Mine(k)
  <2>2. /\ HasFields(call, NoIngest) /\ HasFields(mine, NoPack)
        /\ call.pack = ingests[k].pack /\ call.generation = ingests[k].generation
        /\ mine.state = Mine(k).state
    BY <1>1, ZenonT(60) DEF HasFields, NoIngest, NoPack
  <2>3. Resumed(k, call, mine)
    BY <2>1
  <2> HIDE DEF call, mine
  <2> QED BY <1>1, <2>2, <2>3, ResumedKeeps
<1> QED BY <1>2, <1>3, <1>4, <1>5, ZenonT(60)

\* The end of a call: only the holder of the lease releases it.
LEMMA EndKeeps ==
  ASSUME IngestInv, NEW k \in Ingests, Running(k), ~Running(k)', HasFields(ingests'[k], NoIngest),
         \A j \in Ingests \ {k} : ingests'[j] = ingests[j],
         ingests' = [j \in Ingests |-> ingests'[j]], ingestClock' = ingestClock,
         \/ control' = control
         \/ control.active = ingests[k].pack /\ control' = Released(control),
         DOMAIN packs' = DOMAIN packs, packs' = [p \in DOMAIN packs |-> packs'[p]],
         \A p \in DOMAIN packs : HasFields(packs'[p], NoPack),
         \A p \in DOMAIN packs : control'.active = p => packs'[p] = packs[p]
  PROVE  IngestInv'
<1>1. /\ control' \in [generation: Nat, last: Nat, active: Nat, expires: Nat]
      /\ control'.last = control.last
  <2>1. control \in [generation: Nat, last: Nat, active: Nat, expires: Nat]
    BY DEF IngestInv, IngestTypes
  <2>2. Released(control) \in [generation: Nat, last: Nat, active: Nat, expires: Nat]
        /\ Released(control).last = control.last
    BY <2>1, ZenonT(60) DEF Released
  <2> QED BY <2>1, <2>2, ZenonT(60)
<1>2. control'.active = 0 \/ control' = control
  BY ZenonT(60) DEF Released, IngestInv, IngestTypes
<1>3. IngestTypes'
  BY <1>1, ZenonT(60) DEF IngestInv, IngestTypes, Running
<1>4. \A j \in Ingests \ {k} : Running(j) /\ ingestClock < ingests[j].expires => control' = control
  BY DEF IngestInv
<1>5. control'.active # 0 =>
        control'.active \in DOMAIN packs' /\ packs'[control'.active].state = "pending"
  BY <1>2, ZenonT(60) DEF IngestInv
<1>6. \A j \in Ingests \ {k} :
        Running(j) /\ ingestClock < ingests[j].expires =>
          /\ control'.active = ingests[j].pack /\ control'.generation = ingests[j].generation
          /\ ingests[j].expires <= control'.expires
  BY <1>4 DEF IngestInv
<1> QED BY <1>3, <1>5, <1>6, OthersKeepLeases, ZenonT(60)

LEMMA EndingsKeep ==
  ASSUME IngestInv, NEW k \in Ingests, PublishPack(k) \/ IngestFails(k) \/ Unresolved(k)
  PROVE  IngestInv'
<1>1. HasFields(ingests[k], NoIngest) /\ ingests = [j \in Ingests |-> ingests[j]]
      /\ packs = [p \in DOMAIN packs |-> packs[p]]
      /\ \A p \in DOMAIN packs : HasFields(packs[p], NoPack)
  BY DEF IngestInv, IngestTypes
<1>2. CASE PublishPack(k)
  <2>1. /\ ingests[k].phase = "publish" /\ ingests[k].pack \in DOMAIN packs
        /\ packs' = [packs EXCEPT ![ingests[k].pack] = [@ EXCEPT !.state = "complete"]]
        /\ control.active = ingests[k].pack /\ control' = Released(control)
        /\ ingests' = [ingests EXCEPT ![k] = NoIngest] /\ ingestClock' = ingestClock
    BY <1>2, ZenonT(60) DEF PublishPack
  <2>2. control'.active = 0
    BY <2>1 DEF Released, IngestInv, IngestTypes
  <2>3. /\ Running(k) /\ ~Running(k)' /\ HasFields(ingests'[k], NoIngest)
        /\ \A j \in Ingests \ {k} : ingests'[j] = ingests[j]
        /\ ingests' = [j \in Ingests |-> ingests'[j]]
    BY <1>1, <2>1, ZenonT(60) DEF Running, NoIngest, HasFields
  <2>4. /\ DOMAIN packs' = DOMAIN packs /\ packs' = [p \in DOMAIN packs |-> packs'[p]]
    BY <1>1, <2>1, ZenonT(60)
  <2>5. \A p \in DOMAIN packs : HasFields(packs'[p], NoPack)
    BY <1>1, <2>1, ZenonT(60) DEF HasFields, NoPack
  <2>6. 0 \notin DOMAIN packs
    BY DEF IngestInv, IngestTypes
  <2> QED BY <2>1, <2>2, <2>3, <2>4, <2>5, <2>6, EndKeeps, ZenonT(60)
<1>3. CASE IngestFails(k) \/ Unresolved(k)
  <2>1. PICK phase \in {"failed", "corrupt"} : Running(k) /\ Ended(k, phase)
    BY <1>3 DEF IngestFails, Unresolved, Running
  <2>2. /\ ingests' = [ingests EXCEPT ![k] = [@ EXCEPT !.phase = phase]]
        /\ packs' = packs /\ ingestClock' = ingestClock
        /\ \/ control' = control
           \/ control.active = ingests[k].pack /\ control' = Released(control)
    BY <2>1 DEF Ended
  <2>3. /\ ~Running(k)' /\ HasFields(ingests'[k], NoIngest)
        /\ \A j \in Ingests \ {k} : ingests'[j] = ingests[j]
        /\ ingests' = [j \in Ingests |-> ingests'[j]]
    BY <1>1, <2>1, <2>2, ZenonT(60) DEF Running, NoIngest, HasFields
  <2> QED BY <1>1, <2>1, <2>2, <2>3, EndKeeps, ZenonT(60)
<1> QED BY <1>2, <1>3, ZenonT(60)

\* Deleting packs that are not active, and forgetting calls.
LEMMA DropKeeps ==
  ASSUME IngestInv, DOMAIN packs' \subseteq DOMAIN packs,
         packs' = [p \in DOMAIN packs' |-> packs[p]],
         control.active # 0 => control.active \in DOMAIN packs',
         UNCHANGED << control, ingestClock >>,
         ingests' = [k \in Ingests |-> ingests'[k]],
         \A k \in Ingests : ingests'[k] = ingests[k] \/ ingests'[k] = NoIngest
  PROVE  IngestInv'
<1>1. packs' = [p \in DOMAIN packs' |-> packs'[p]] /\ \A p \in DOMAIN packs' : packs'[p] = packs[p]
  BY ZenonT(60)
<1>2. HasFields(NoIngest, NoIngest) /\ NoIngest.phase = "idle"
  BY DEF HasFields, NoIngest
<1>3. \A k \in Ingests : Running(k)' => Running(k) /\ ingests'[k] = ingests[k]
  BY <1>2, ZenonT(60) DEF Running
<1>4. IngestTypes'
  BY <1>1, <1>2, <1>3, ZenonT(60) DEF IngestInv, IngestTypes
<1> QED BY <1>1, <1>3, <1>4 DEF IngestInv

LEMMA NextKeepsIngests == IngestInv /\ [PackIngestNext]_ingestVars => IngestInv'
<1> SUFFICES ASSUME IngestInv, [PackIngestNext]_ingestVars PROVE IngestInv' OBVIOUS
<1>1. ASSUME NEW k \in Ingests, DiscardPendingPack(k) PROVE IngestInv'
  <2>1. /\ \/ packs' = packs
           \/ control.active = 0 /\ packs' = Dropped({ingests[k].pack})
        /\ ingests' = [ingests EXCEPT ![k] = NoIngest] /\ UNCHANGED << control, ingestClock >>
    BY <1>1, ZenonT(60) DEF DiscardPendingPack
  <2>2. /\ DOMAIN packs' \subseteq DOMAIN packs /\ packs' = [p \in DOMAIN packs' |-> packs[p]]
        /\ control.active # 0 => control.active \in DOMAIN packs'
    BY <2>1, ZenonT(60) DEF Dropped, IngestInv, IngestTypes
  <2>3. /\ ingests' = [j \in Ingests |-> ingests'[j]]
        /\ \A j \in Ingests : ingests'[j] = ingests[j] \/ ingests'[j] = NoIngest
    BY <2>1 DEF IngestInv, IngestTypes
  <2> QED BY <2>1, <2>2, <2>3, DropKeeps, ZenonT(60)
<1>2. ASSUME NEW p \in DOMAIN packs, DeleteCompletePack(p) PROVE IngestInv'
  <2>1. /\ packs' = Dropped({p}) /\ UNCHANGED << control, ingestClock >> /\ ingests' = ingests
        /\ ingests = [k \in Ingests |-> ingests[k]] /\ packs[p].state = "complete"
    BY <1>2, ZenonT(60) DEF DeleteCompletePack, IngestInv, IngestTypes
  <2>2. /\ DOMAIN packs' \subseteq DOMAIN packs /\ packs' = [q \in DOMAIN packs' |-> packs[q]]
        /\ control.active # 0 => control.active \in DOMAIN packs'
    BY <2>1 DEF Dropped, IngestInv
  <2> QED BY <2>1, <2>2, DropKeeps
<1>3. CASE RestartIngests
  <2>1. /\ UNCHANGED << control, packs, ingestClock >> /\ ingests' = [k \in Ingests |-> NoIngest]
        /\ packs = [p \in DOMAIN packs |-> packs[p]]
        /\ control.active # 0 => control.active \in DOMAIN packs
    BY <1>3, ZenonT(60) DEF RestartIngests, IngestInv, IngestTypes
  <2> QED BY <2>1, DropKeeps, ZenonT(60)
<1>4. CASE AdvanceIngestClock
  <2>1. ingestClock' = ingestClock + 1 /\ UNCHANGED << control, packs, ingests >>
    BY <1>4 DEF AdvanceIngestClock
  <2>2. \A k \in Ingests : Running(k)' <=> Running(k)
    BY <2>1, ZenonT(60) DEF Running
  <2> QED BY <2>1, <2>2 DEF IngestInv, IngestTypes
<1>5. CASE UNCHANGED ingestVars
  BY <1>5 DEF ingestVars, IngestInv, IngestTypes, Running
<1> QED BY <1>1, <1>2, <1>3, <1>4, <1>5, ReserveKeeps, WorkKeeps, EndingsKeep, ZenonT(60) DEF PackIngestNext

\* For any number of calls, packs and restarts: an ingest whose own lease runs
\* owns the control row and its pending pack, and no two calls share a pack id.
THEOREM IngestsOwnPacks == PackIngestSpec => []IngestOwnsPack
<1>1. PackIngestInit => IngestInv
  BY DEF PackIngestInit, IngestInv, IngestTypes, Running, NoIngest, HasFields
<1>2. IngestInv => IngestOwnsPack
  <2> SUFFICES ASSUME IngestInv PROVE IngestOwnsPack BY ZenonT(60)
  <2>1. ASSUME NEW k \in Ingests, Running(k), ingestClock < ingests[k].expires
        PROVE  /\ control.active = ingests[k].pack /\ control.generation = ingests[k].generation
               /\ Mine(k).state = "pending"
    BY <2>1 DEF IngestInv, IngestTypes, Mine
  <2> QED BY <2>1 DEF IngestOwnsPack, IngestInv
<1> QED BY <1>1, <1>2, NextKeepsIngests, PTL DEF PackIngestSpec

-------------------------------------------------------------------------------
(* The steps of a clone. *)

\* A call whose repository is taken over after its lease has run out.
LEMMA TakenCall ==
  ASSUME RowsTyped, NEW k \in Clones, calls[k] \in CallRow, CallOK(k), calls'[k] = calls[k],
         calls[k].repo \in DOMAIN repositories, repositories[calls[k].repo].expires <= clock,
         calls[k].repo \notin DOMAIN repositories', calls[k].repo \notin DOMAIN memory'.provisional,
         clock' = clock, sequence'.repo \in Nat, sequence.repo <= sequence'.repo
  PROVE  CallOK(k)'
<1>1. /\ clock \in Nat /\ sequence.repo \in Nat /\ calls[k].lease \in Nat /\ calls[k].repo \in Nat
      /\ repositories[calls[k].repo].expires \in Nat
  BY DEF RowsTyped, RepositoryRow, CallRow
<1>2. calls[k].phase = "discard" \/ ~(clock < calls[k].lease)
  BY <1>1 DEF CallOK
<1>3. calls[k].repo <= sequence'.repo
  BY <1>1 DEF CallOK
<1> QED
  BY <1>2, <1>3 DEF CallOK

\* A clone that begins owns the repository it reserves.
LEMMA BegunOwner ==
  ASSUME RowsTyped, NEW root, NEW X, NEW S, NEW id, NEW cid, NEW row, NEW crow, NEW k \in Clones,
         NEW p, NEW new, NewRows(root, X, S, id, cid, row, crow), BegunMemory(X, id, p),
         BegunCall(k, id, cid, row, p, new), calls \in [Clones -> CallRow]
  PROVE  CallOK(k)'
<1>1. calls'[k] = new /\ new.repo = id /\ new.checkout = cid /\ new.store = p.provisional[id].store
  BY ZenonT(60) DEF BegunCall
<1>2. StoredOwner(k)'
  BY <1>1, ZenonT(60) DEF StoredOwner, NewRows, BegunCall
<1>3. OwnsFacade(k)'
  BY <1>1, ZenonT(60) DEF OwnsFacade, BegunMemory
<1>4. calls'[k].repo <= sequence'.repo
  <2>1. id \in Nat
    BY NewRowsAreNew, ZenonT(60)
  <2>2. sequence'.repo = id
    BY DEF NewRows
  <2> QED
    BY <1>1, <2>1, <2>2
<1>5. calls'[k].lease <= repositories'[calls'[k].repo].expires
  <2>1. repositories'[id] = row /\ row.expires \in Nat
    BY DEF NewRows, RepositoryRow
  <2>2. new.lease = row.expires
    BY DEF BegunCall
  <2> QED
    BY <1>1, <2>1, <2>2
<1> QED
  BY <1>2, <1>3, <1>4, <1>5, ZenonT(60) DEF CallOK

\* A clone that begins leaves the other calls their repositories.
LEMMA BegunOthers ==
  ASSUME CloneInv, NEW root, NEW X, NEW S, NEW id, NEW cid, NEW row, NEW crow,
         NEW p, NewRows(root, X, S, id, cid, row, crow), BegunMemory(X, id, p), NEW j \in Active,
         \A r \in X : r \in DOMAIN repositories /\ repositories[r].expires <= clock,
         calls'[j] = calls[j]
  PROVE  CallOK(j)' /\ calls[j].repo # id
<1>1. /\ j \in Clones /\ CallOK(j) /\ calls[j] \in CallRow /\ RowsTyped /\ clock \in Nat
      /\ calls \in [Clones -> CallRow]
  BY ZenonT(60) DEF CloneInv, CallsOK, RowsOK, RowsTyped, Active
<1>2. sequence.repo \in Nat /\ id = sequence.repo + 1 /\ sequence'.repo = id /\ clock' = clock
  BY <1>1, ZenonT(60) DEF RowsTyped, NewRows
<1>3. calls[j].repo # id
  BY <1>1, <1>2 DEF CallOK, CallRow
<1>4. CASE calls[j].repo \notin X
  <2>1. Untouched(calls[j].repo)
    BY <1>1, <1>3, <1>4, NewRowsUntouched, ZenonT(60)
  <2>2. FacadeUntouched(calls[j].repo)
    BY <1>3, <1>4, ZenonT(60) DEF FacadeUntouched, BegunMemory
  <2>3. /\ clock' \in Nat /\ clock <= clock'
        /\ sequence'.repo \in Nat /\ sequence.repo <= sequence'.repo
    BY <1>1, <1>2
  <2> QED
    BY <1>1, <1>3, <2>1, <2>2, <2>3, UntouchedCall, ZenonT(60)
<1>5. CASE calls[j].repo \in X
  <2>1. calls[j].repo \notin DOMAIN repositories'
    BY <1>3, <1>5, ZenonT(60) DEF NewRows
  <2>2. calls[j].repo \notin DOMAIN memory'.provisional
    BY <1>3, <1>5, ZenonT(60) DEF BegunMemory
  <2>3. clock' = clock /\ sequence'.repo \in Nat /\ sequence.repo <= sequence'.repo
    BY <1>2
  <2>4. calls[j].repo \in DOMAIN repositories /\ repositories[calls[j].repo].expires <= clock
    BY <1>5
  <2> QED
    BY <1>1, <1>3, <2>1, <2>2, <2>3, <2>4, TakenCall, ZenonT(60)
<1> QED
  BY <1>3, <1>4, <1>5, ZenonT(60)

\* Every call is sound after a clone has begun.
LEMMA BegunCallsOK ==
  ASSUME CloneInv, NEW root, NEW X, NEW S, NEW id, NEW cid, NEW row, NEW crow, NEW k \in Clones,
         NEW p, NEW new, NewRows(root, X, S, id, cid, row, crow), BegunMemory(X, id, p),
         BegunCall(k, id, cid, row, p, new), abandoned' = abandoned \ X,
         \A r \in X : r \in DOMAIN repositories /\ repositories[r].expires <= clock
  PROVE  CallsOK' /\ \A r \in DOMAIN repositories' : Provisional(r)' => EndInSight(r)'
<1>1. /\ calls \in [Clones -> CallRow] /\ calls' \in [Clones -> CallRow] /\ new.repo = id
      /\ calls'[k] = new /\ \A j \in Clones : j # k => calls'[j] = calls[j]
  BY ZenonT(60) DEF CloneInv, CallsOK, BegunCall
<1>2. calls[k].phase = "idle" /\ calls'[k].phase # "idle"
  BY <1>1, ZenonT(60) DEF BegunCall
<1>3. /\ Active' = Active \cup {k} /\ k \notin Active /\ Active \subseteq Clones
      /\ \A j \in Active : calls'[j] = calls[j]
  BY <1>1, <1>2, ZenonT(60) DEF Active
<1>4. CallOK(k)'
  <2>1. RowsTyped
    BY ZenonT(60) DEF CloneInv, RowsOK
  <2> QED
    BY <1>1, <2>1, BegunOwner, ZenonT(60)
<1>5. ASSUME NEW j \in Active PROVE CallOK(j)' /\ calls[j].repo # id
  BY <1>3, BegunOthers
<1>6. CallsOK'
  <2>1. \A j \in Active' : CallOK(j)'
    BY <1>3, <1>4, <1>5, ZenonT(60)
  <2>2. \A i, j \in Active : calls[i].repo = calls[j].repo => i = j
    BY ZenonT(60) DEF CloneInv, CallsOK
  <2>3. \A i, j \in Active' : calls'[i].repo = calls'[j].repo => i = j
    BY <1>1, <1>3, <1>5, <2>2
  <2> QED
    BY <1>1, <2>1, <2>3, ZenonT(60) DEF CallsOK
<1>7. ASSUME NEW r \in DOMAIN repositories', Provisional(r)' PROVE EndInSight(r)'
  <2>1. CASE r = id
    BY <1>1, <1>3, <2>1, ZenonT(60) DEF EndInSight
  <2>2. CASE r # id
    <3>1. r \in DOMAIN repositories /\ r \notin X /\ repositories'[r] = repositories[r]
      BY <2>2, ZenonT(60) DEF NewRows
    <3>2. EndInSight(r)
      BY <1>7, <3>1, ZenonT(60) DEF CloneInv, Provisional
    <3> QED
      BY <1>3, <3>1, <3>2, ZenonT(60) DEF EndInSight
  <2> QED
    BY <2>1, <2>2, ZenonT(60)
<1> QED
  BY <1>6, <1>7, ZenonT(60)

\* What cleaning up a provisional repository does to the memory.
LEMMA SweptClone ==
  ASSUME CloneInv, NEW R, ProvisionalIn(repositories, R), NEW n, n = SweptMemory(R)
  PROVE  /\ MemoryOK(n, repositories, checkouts)
         /\ DOMAIN n.provisional = DOMAIN memory.provisional \ {R}
         /\ \A r \in DOMAIN n.provisional : n.provisional[r] = memory.provisional[r]
<1>1. PICK c : c = CHOOSE d \in CheckoutsOf(R) : TRUE
  BY ZenonT(60)
<1>2. CheckoutIn(checkouts, c, R) /\ c # 0
  <2>1. c \in CheckoutsOf(R)
    BY <1>1 DEF CloneInv, RowsOK, SingleCheckouts, ProvisionalIn, Provisional
  <2> QED
    BY <2>1 DEF CheckoutsOf, CheckoutIn, CloneInv, RowsOK, RowsTyped
<1>3. n = EvictProvisional(ProvisionalStore(memory, R, c), R)
  BY <1>1 DEF SweptMemory
<1>4. MemoryOK(memory, repositories, checkouts)
  BY ZenonT(60) DEF CloneInv
<1> QED
  BY <1>2, <1>3, <1>4, SweepKeeps

\* A clone finds at most one repository at its root, and its lease has run out.
LEMMA TakenSwept ==
  ASSUME CloneInv, NEW k \in Clones, NEW root \in Roots, BeginClone(k, root), NEW X,
         X = TakenAt(root), NEW n, n = SweptOf(X)
  PROVE  /\ \A r \in X : ProvisionalIn(repositories, r) /\ repositories[r].expires <= clock
         /\ MemoryOK(n, repositories, checkouts)
         /\ DOMAIN n.provisional = DOMAIN memory.provisional \ X
         /\ \A r \in DOMAIN n.provisional : n.provisional[r] = memory.provisional[r]
<1>1. \A r \in X : r \in DOMAIN repositories
  BY DEF TakenAt, CheckoutsAt, CloneInv, RowsOK, RowsTyped
<1>2. \A r \in X : ProvisionalIn(repositories, r) /\ repositories[r].expires <= clock
  <2>1. \A r \in X : Provisional(r) /\ Expired(r)
    BY DEF BeginClone, TakenAt
  <2>2. clock \in Nat /\ \A r \in DOMAIN repositories : repositories[r].expires \in Nat
    BY ZenonT(60) DEF CloneInv, RowsOK, RowsTyped, RepositoryRow
  <2> QED
    BY <1>1, <2>1, <2>2, ZenonT(60) DEF Provisional, ProvisionalIn, Expired
<1>3. MemoryOK(memory, repositories, checkouts)
  BY DEF CloneInv
<1>4. CASE X = {}
  BY <1>2, <1>3, <1>4 DEF SweptOf
<1>5. CASE X # {}
  <2>1. PICK R : R = CHOOSE repo \in X : TRUE
    OBVIOUS
  <2>2. R \in X
    BY <1>5, <2>1
  <2>3. X = {R}
    <3>1. \A c, d \in CheckoutsAt(root) : c = d
      BY DEF CheckoutsAt, CloneInv, RowsOK, RootsDiffer
    <3> QED
      BY <2>2, <3>1 DEF TakenAt
  <2>4. n = SweptMemory(R) /\ ProvisionalIn(repositories, R)
    BY <1>2, <1>5, <2>1, <2>2, ZenonT(60) DEF SweptOf
  <2>5. /\ MemoryOK(n, repositories, checkouts)
        /\ DOMAIN n.provisional = DOMAIN memory.provisional \ {R}
        /\ \A r \in DOMAIN n.provisional : n.provisional[r] = memory.provisional[r]
    BY <2>4, SweptClone
  <2> QED
    BY <1>2, <2>3, <2>5, ZenonT(60)
<1> QED
  BY <1>4, <1>5, ZenonT(60)

\* Reserving a provisional repository keeps CloneInv.
LEMMA BeginStep ==
  ASSUME CloneInv, NEW k \in Clones, NEW root \in Roots, BeginClone(k, root)
  PROVE  CloneInv'
<1>1. PICK X, S, id, cid, row, crow :
        /\ X = TakenAt(root) /\ S = UNION {CheckoutsOf(r) : r \in X}
        /\ id = NextRepository /\ cid = NextCheckout
        /\ row = [kind |-> "workspace", lifecycle |-> "provisional", expires |-> clock + LEASE,
                  content |-> "config"]
        /\ crow = [repo |-> id, root |-> root, primary |-> TRUE]
  BY ZenonT(60)
<1>2. PICK n, p : n = SweptOf(X) /\ p = ProvisionalStore(n, id, cid)
  OBVIOUS
<1>3. PICK new : new = [phase |-> "fetch", repo |-> id, checkout |-> cid,
                        store |-> p.provisional[id].store, lease |-> row.expires]
  BY ZenonT(60)
<1>4. NewRows(root, X, S, id, cid, row, crow) /\ row.lifecycle = "provisional"
  BY <1>1, BeginsRows
<1>5. /\ \A r \in X : ProvisionalIn(repositories, r) /\ repositories[r].expires <= clock
      /\ MemoryOK(n, repositories, checkouts)
      /\ DOMAIN n.provisional = DOMAIN memory.provisional \ X
      /\ \A r \in DOMAIN n.provisional : n.provisional[r] = memory.provisional[r]
  <2>1. X = TakenAt(root) /\ n = SweptOf(X)
    BY <1>1, <1>2
  <2> QED
    BY <2>1, TakenSwept, ZenonT(60)
<1>6. memory' = p /\ abandoned' = abandoned \ X
  BY <1>1, <1>2, ZenonT(60) DEF BeginClone, TakenAt, SweptOf
<1>7. MemoryOK(p, repositories', checkouts') /\ BegunMemory(X, id, p)
  <2>1. MemoryOK(memory, repositories, checkouts) /\ RowsTyped
    BY DEF CloneInv, RowsOK
  <2>2. \A r \in X : ProvisionalIn(repositories, r)
    BY <1>5
  <2>3. p = ProvisionalStore(n, id, cid)
    BY <1>2, ZenonT(60)
  <2> QED
    BY <1>4, <1>5, <1>6, <2>1, <2>2, <2>3, BeginsMemory, ZenonT(60)
<1>8. BegunCall(k, id, cid, row, p, new)
  <2>1. calls[k].phase = "idle" /\ calls' = [calls EXCEPT ![k] = new]
    BY <1>1, <1>3, <1>6, ZenonT(60) DEF BeginClone
  <2>2. p.provisional[id].store \in Nat
    BY <1>7, MemoryLeads, ZenonT(60) DEF BegunMemory
  <2>3. id \in Nat /\ cid \in Nat /\ row.expires \in Nat
    <3>1. RowsTyped /\ row \in RepositoryRow
      BY <1>4, ZenonT(60) DEF CloneInv, RowsOK, NewRows
    <3> QED
      BY <1>4, <3>1, NewRowsAreNew DEF RepositoryRow
  <2>4. /\ new \in CallRow /\ new.phase = "fetch" /\ new.repo = id /\ new.checkout = cid
        /\ new.store = p.provisional[id].store /\ new.lease = row.expires
    BY <1>3, <2>2, <2>3, ZenonT(60) DEF CallRow
  <2> QED
    BY <1>4, <2>1, <2>4 DEF BegunCall
<1>9. CallsOK' /\ \A r \in DOMAIN repositories' : Provisional(r)' => EndInSight(r)'
  <2>1. \A r \in X : r \in DOMAIN repositories /\ repositories[r].expires <= clock
    BY <1>5 DEF ProvisionalIn
  <2>2. BegunMemory(X, id, p)
    BY <1>7
  <2>3. abandoned' = abandoned \ X
    BY <1>6
  <2> QED
    BY <1>4, <1>8, <2>1, <2>2, <2>3, BegunCallsOK, ZenonT(60)
<1>10. RowsOK'
  BY <1>4, NewRowsOK DEF CloneInv
<1>11. MemoryOK(memory, repositories, checkouts)'
  BY <1>6, <1>7
<1> QED
  BY <1>9, <1>10, <1>11, ZenonT(60) DEF CloneInv

\* The cleanup of an expired clone fails after it evicted the owner's facade:
\* the owner's own lease has run out by then.
LEMMA BeginFailsStep ==
  ASSUME CloneInv, NEW k \in Clones, NEW repo \in DOMAIN repositories, BeginCloneFails(k, repo)
  PROVE  CloneInv'
<1>0. PICK m, n : m = memory /\ n = memory'
  BY ZenonT(60)
<1>1. /\ RowsOK /\ calls \in [Clones -> CallRow]
      /\ UNCHANGED << tables, clock, held, calls, abandoned >>
      /\ Provisional(repo) /\ repositories[repo].expires <= clock
  <2>1. clock \in Nat /\ repositories[repo].expires \in Nat
    BY ZenonT(60) DEF CloneInv, RowsOK, RowsTyped, RepositoryRow
  <2> QED
    BY <2>1, ZenonT(60) DEF BeginCloneFails, CloneInv, CallsOK, Expired
<1>4. memory' = n /\ n = SweptMemory(repo) /\ ProvisionalIn(repositories, repo)
  BY <1>0, <1>1, ZenonT(60) DEF BeginCloneFails, Provisional, ProvisionalIn
<1>5. /\ MemoryOK(n, repositories, checkouts)
      /\ DOMAIN n.provisional = DOMAIN m.provisional \ {repo}
      /\ \A r \in DOMAIN n.provisional : n.provisional[r] = m.provisional[r]
  BY <1>0, <1>4, SweptClone, ZenonT(60)
<1>6. RowsOK' /\ \A r : Untouched(r)
  BY <1>1, SameRows, ZenonT(60)
<1>7. Active' = Active
  BY <1>1 DEF Active
<1>8. ASSUME NEW j \in Active' PROVE CallOK(j)'
  <2>1. j \in Clones /\ CallOK(j) /\ calls'[j] = calls[j] /\ calls[j] \in CallRow
    BY <1>1, <1>7 DEF CloneInv, CallsOK, Active
  <2>2. CASE calls[j].repo # repo
    <3>1. FacadeUntouched(calls[j].repo)
      BY <1>0, <1>4, <1>5, <2>2, ZenonT(60) DEF FacadeUntouched
    <3>2. /\ RowsTyped /\ clock' \in Nat /\ clock <= clock'
          /\ sequence'.repo \in Nat /\ sequence.repo <= sequence'.repo
      <4>1. RowsTyped /\ sequence' = sequence /\ clock' = clock
        BY <1>1, ZenonT(60) DEF RowsOK, tables
      <4>2. sequence.repo \in Nat /\ clock \in Nat
        BY <4>1 DEF RowsTyped
      <4> QED
        BY <4>1, <4>2
    <3> QED
      BY <1>1, <1>6, <2>1, <3>1, <3>2, UntouchedCall, ZenonT(60)
  <2>3. CASE calls[j].repo = repo
    <3>1. clock' = clock /\ sequence' = sequence /\ repositories' = repositories /\ checkouts' = checkouts
      BY <1>1 DEF tables
    <3>2. StoredOwner(j) /\ StoredOwner(j)'
      BY <2>1, <2>3, <3>1, ZenonT(60) DEF CallOK, StoredOwner
    <3>3. calls[j].repo \notin DOMAIN memory'.provisional
      BY <1>4, <1>5, <2>3, ZenonT(60)
    <3>4. calls[j].phase = "discard" \/ ~(clock < calls[j].lease)
      <4>1. clock \in Nat /\ calls[j].lease \in Nat /\ repositories[repo].expires \in Nat
        BY <1>1, <2>1, ZenonT(60) DEF RowsOK, RowsTyped, RepositoryRow, CallRow
      <4> QED
        BY <1>1, <2>1, <2>3, <4>1 DEF CallOK
    <3> QED
      BY <2>1, <3>1, <3>2, <3>3, <3>4, ZenonT(60) DEF CallOK
  <2> QED
    BY <2>2, <2>3, ZenonT(60)
<1>9. CallsOK'
  BY <1>1, <1>7, <1>8, ZenonT(60) DEF CloneInv, CallsOK
<1>10. \A r \in DOMAIN repositories' : Provisional(r)' => EndInSight(r)'
  BY <1>1, <1>7, ZenonT(60) DEF CloneInv, Provisional, EndInSight, tables
<1>11. MemoryOK(memory, repositories, checkouts)'
  BY <1>1, <1>4, <1>5, ZenonT(60) DEF tables
<1> QED
  BY <1>6, <1>9, <1>10, <1>11, ZenonT(60) DEF CloneInv

\* Discarding a provisional repository keeps CloneInv.
LEMMA DiscardStep ==
  ASSUME CloneInv, NEW k \in Clones, DiscardClone(k)
  PROVE  CloneInv'
<1>0. PICK R, c, m : R = calls[k].repo /\ c = calls[k].checkout /\ m = memory
  BY ZenonT(60)
<1>1. /\ k \in Active /\ RowsOK /\ MemoryOK(m, repositories, checkouts)
      /\ calls' = [calls EXCEPT ![k] = NoCall] /\ UNCHANGED << sequence, clock, held, abandoned >>
  BY <1>0, ZenonT(60) DEF DiscardClone, Active, CloneInv
<1>2. /\ R \in DOMAIN repositories => StoredOwner(k)
      /\ R \in DOMAIN m.provisional => OwnsFacade(k)
      /\ StoredOwner(k) => ProvisionalIn(repositories, R) /\ CheckoutIn(checkouts, c, R) /\ c # 0
  BY <1>0, <1>1, OwnRows, ZenonT(60)
<1>3. CASE StoredOwner(k)
  <2>0. PICK S, n : S = CheckoutsOf(R) /\ n = EvictProvisional(ProvisionalStore(m, R, c), R)
    BY ZenonT(60)
  <2>1. /\ repositories' = Without(repositories, {R}) /\ checkouts' = Without(checkouts, S)
        /\ memory' = n
    BY <1>0, <1>2, <1>3, <2>0, ZenonT(60) DEF DiscardClone
  <2>2. \A d : d \in S <=> d \in DOMAIN checkouts /\ checkouts[d].repo = R
    BY <2>0, ZenonT(60) DEF CheckoutsOf
  <2>3. Removes({R}, S)
    BY <1>1, <2>1, <2>2 DEF Removes, Without
  <2>4. RowsOK'
    BY <1>1, <2>3, RemovedRows, ZenonT(60)
  <2>5. /\ MemoryOK(n, repositories, checkouts)
        /\ DOMAIN n.provisional = DOMAIN m.provisional \ {R}
        /\ \A r \in DOMAIN n.provisional : n.provisional[r] = m.provisional[r]
    BY <1>1, <1>2, <1>3, <2>0, SweepKeeps
  <2>6. MemoryOK(n, repositories', checkouts')
    <3>1. \A r \in DOMAIN n.shared \cup DOMAIN n.provisional : r \notin {R}
      BY <1>2, <1>3, <2>5, ZenonT(60) DEF MemoryOK, SharedOK, ReadyIn, ProvisionalIn
    <3>2. \A d \in DOMAIN n.stores : d \notin S
      BY <2>2, <2>5, <3>1, ZenonT(60) DEF MemoryOK, StoresOK
    <3> QED
      BY <2>3, <2>5, <3>1, <3>2, RemovedMemory, ZenonT(60)
  <2>7. CallsOK' /\ \A r \in DOMAIN repositories' : Provisional(r)' => EndInSight(r)'
    <3>1. ASSUME NEW r, r # calls[k].repo PROVE Untouched(r)
      <4>1. r \notin {R} /\ \A d \in S : d \in DOMAIN checkouts => checkouts[d].repo # r
        BY <1>0, <2>2, <3>1, ZenonT(60)
      <4> QED
        BY <2>3, <4>1, RemovalUntouched, ZenonT(60)
    <3>2. \A r : r # calls[k].repo => FacadeUntouched(r)
      BY <1>0, <2>1, <2>5, ZenonT(60) DEF FacadeUntouched
    <3>3. ~ProvisionalIn(repositories', calls[k].repo)
      BY <1>0, <2>3 DEF ProvisionalIn, Removes
    <3> QED
      BY <1>1, <3>1, <3>2, <3>3, EndedCall, ZenonT(60)
  <2> QED
    BY <2>1, <2>4, <2>6, <2>7, ZenonT(60) DEF CloneInv
<1>4. CASE ~StoredOwner(k)
  <2>1. repositories' = repositories /\ checkouts' = checkouts /\ memory' = EvictOwner(memory, k)
    BY <1>4 DEF DiscardClone
  <2>2. RowsOK' /\ \A r : Untouched(r)
    BY <1>1, <2>1, SameRows, ZenonT(60) DEF tables
  <2>3. R \notin DOMAIN repositories /\ R \notin DOMAIN m.provisional
    BY <1>1, <1>2, <1>4, ZenonT(60) DEF MemoryOK, ProvisionalOK, ProvisionalIn
  <2>4. memory' = m
    BY <1>0, <2>1, <2>3 DEF EvictOwner, EvictProvisional
  <2>5. CallsOK' /\ \A r \in DOMAIN repositories' : Provisional(r)' => EndInSight(r)'
    <3>1. \A r : r # calls[k].repo => Untouched(r) /\ FacadeUntouched(r)
      BY <1>0, <2>2, <2>4, ZenonT(60) DEF FacadeUntouched
    <3>2. ~ProvisionalIn(repositories', calls[k].repo)
      BY <1>0, <2>1, <2>3 DEF ProvisionalIn
    <3> QED
      BY <1>1, <3>1, <3>2, EndedCall, ZenonT(60)
  <2>6. MemoryOK(memory', repositories', checkouts')
    BY <1>1, <2>1, <2>4, ZenonT(60)
  <2> QED
    BY <2>2, <2>5, <2>6, ZenonT(60) DEF CloneInv
<1> QED
  BY <1>3, <1>4

\* Without calls in flight there is nothing to own.
LEMMA NoCalls ==
  ASSUME calls = [k \in Clones |-> NoCall]
  PROVE  CallsOK /\ Active = {}
<1>1. NoCall \in CallRow /\ NoCall.phase = "idle"
  BY DEF NoCall, CallRow
<1>2. Active = {}
  BY <1>1 DEF Active
<1> QED
  BY <1>1, <1>2, ZenonT(60) DEF CallsOK

\* A restart of the Durable Object keeps CloneInv.
LEMMA RestartStep ==
  ASSUME CloneInv, RestartClones
  PROVE  CloneInv'
<1>1. /\ UNCHANGED << repositories, checkouts, sequence, clock >> /\ held' = NoRow
      /\ memory' = EmptyMemory /\ calls' = [k \in Clones |-> NoCall]
      /\ abandoned' = abandoned \cup {r \in DOMAIN repositories : Provisional(r)}
  BY DEF RestartClones, RestartRegistry, tables
<1>2. RowsTyped' /\ RootsDiffer' /\ HeldOK'
  <2>1. RowsTyped'
    BY <1>1, ZenonT(60) DEF CloneInv, RowsOK, RowsTyped
  <2>2. RootsDiffer' /\ HeldOK'
    BY <1>1, ZenonT(60) DEF CloneInv, RowsOK, RootsDiffer, HeldOK
  <2> QED
    BY <2>1, <2>2, ZenonT(60)
<1>3. SingleCheckouts'
  BY <1>1 DEF CloneInv, RowsOK, SingleCheckouts, Provisional, PrimariesOf, CheckoutsOf
<1>4. MemoryOK(memory, repositories, checkouts)'
  BY <1>1, EmptyMemoryOK, ZenonT(60)
<1>5. CallsOK'
  <2>1. NoCall \in CallRow /\ NoCall.phase = "idle"
    BY DEF NoCall, CallRow
  <2>2. Active' = {}
    BY <1>1, <2>1 DEF Active
  <2> QED
    BY <1>1, <2>1, <2>2, ZenonT(60) DEF CallsOK
<1>6. \A r \in DOMAIN repositories' : Provisional(r)' => EndInSight(r)'
  BY <1>1, ZenonT(60) DEF Provisional, EndInSight
<1> QED
  BY <1>2, <1>3, <1>4, <1>5, <1>6, ZenonT(60) DEF CloneInv, RowsOK

\* The passing of time, which ends leases, keeps CloneInv.
LEMMA ClockStep ==
  ASSUME CloneInv, AdvanceClock
  PROVE  CloneInv'
<1>1. /\ UNCHANGED << repositories, checkouts, sequence, memory, held, calls, abandoned >>
      /\ clock' = clock + 1 /\ clock \in Nat /\ clock' \in Nat /\ clock <= clock'
  BY DEF AdvanceClock, tables, CloneInv, RowsOK, RowsTyped
<1>2. RowsTyped' /\ RootsDiffer' /\ HeldOK'
  <2>1. RowsTyped'
    BY <1>1, ZenonT(60) DEF CloneInv, RowsOK, RowsTyped
  <2>2. RootsDiffer' /\ HeldOK'
    BY <1>1, ZenonT(60) DEF CloneInv, RowsOK, RootsDiffer, HeldOK
  <2> QED
    BY <2>1, <2>2
<1>3. SingleCheckouts'
  BY <1>1 DEF CloneInv, RowsOK, SingleCheckouts, Provisional, PrimariesOf, CheckoutsOf
<1>4. MemoryOK(memory, repositories, checkouts)'
  BY <1>1, ZenonT(60) DEF CloneInv
<1>5. Active' = Active
  BY <1>1 DEF Active
<1>6. ASSUME NEW j \in Active' PROVE CallOK(j)'
  <2>1. j \in Clones /\ CallOK(j) /\ calls'[j] = calls[j] /\ calls \in [Clones -> CallRow] /\ RowsTyped
    BY <1>1, <1>5, ZenonT(60) DEF CloneInv, CallsOK, RowsOK, Active
  <2>2. Untouched(calls[j].repo) /\ FacadeUntouched(calls[j].repo)
    BY <1>1, ZenonT(60) DEF Untouched, FacadeUntouched
  <2>3. sequence'.repo \in Nat /\ sequence.repo <= sequence'.repo
    BY <1>1, <2>1 DEF RowsTyped
  <2> QED
    BY <1>1, <2>1, <2>2, <2>3, UntouchedCall, ZenonT(60)
<1>7. CallsOK'
  BY <1>1, <1>5, <1>6, ZenonT(60) DEF CloneInv, CallsOK
<1>8. \A r \in DOMAIN repositories' : Provisional(r)' => EndInSight(r)'
  BY <1>1, <1>5, ZenonT(60) DEF CloneInv, Provisional, EndInSight
<1> QED
  BY <1>2, <1>3, <1>4, <1>7, <1>8, ZenonT(60) DEF CloneInv, RowsOK

\* CloneInv holds of an empty database.
LEMMA CloneStarts == CloneInit => CloneInv
<1> SUFFICES ASSUME CloneInit PROVE CloneInv
  OBVIOUS
<1>1. /\ DOMAIN repositories = {} /\ DOMAIN checkouts = {} /\ sequence = [repo |-> 0, checkout |-> 0]
      /\ clock = 0 /\ held = NoRow /\ memory = EmptyMemory /\ calls = [k \in Clones |-> NoCall]
  BY ZenonT(60) DEF CloneInit, RegistryInit, Nothing
<1>2. RowsOK
  BY <1>1 DEF RowsOK, RowsTyped, RootsDiffer, SingleCheckouts, HeldOK
<1>3. MemoryOK(memory, repositories, checkouts)
  BY <1>1, EmptyMemoryOK, ZenonT(60)
<1>4. CallsOK
  BY <1>1, NoCalls
<1> QED
  BY <1>1, <1>2, <1>3, <1>4, ZenonT(60) DEF CloneInv

\* Every step of the registry and of the clones keeps CloneInv.
LEMMA CloneContinues == CloneInv /\ [CloneNext]_cloneVars => CloneInv'
<1> SUFFICES ASSUME CloneInv, [CloneNext]_cloneVars PROVE CloneInv'
  OBVIOUS
<1>1. CASE RegistryNext /\ UNCHANGED << calls, abandoned >>
  BY <1>1, RegistryStep
<1>2. ASSUME NEW k \in Clones,
             \/ \E root \in Roots : BeginClone(k, root)
             \/ \E repo \in DOMAIN repositories : BeginCloneFails(k, repo)
             \/ CloneStep(k) \/ CloneFails(k)
             \/ PublishClone(k) \/ PublishCloneFails(k)
             \/ DiscardClone(k) \/ DiscardCloneFails(k)
      PROVE  CloneInv'
  BY <1>2, BeginStep, BeginFailsStep, CloneStepStep, CloneFailsStep, PublishStep, PublishFailsStep,
     DiscardStep, DiscardFailsStep, ZenonT(60)
<1>3. CASE RestartClones
  BY <1>3, RestartStep
<1>4. CASE AdvanceClock
  BY <1>4, ClockStep, ZenonT(60)
<1>5. CASE UNCHANGED cloneVars
  <2>1. /\ UNCHANGED << tables, clock, calls, abandoned >> /\ UNCHANGED << held, checkouts, sequence >>
        /\ memory' = memory
    BY <1>5, ZenonT(60) DEF cloneVars, registryVars, tables
  <2>2. HeldOK'
    BY <2>1, ZenonT(60) DEF CloneInv, RowsOK, HeldOK
  <2>3. MemoryOK(memory', repositories, checkouts)
    BY <2>1 DEF CloneInv
  <2> QED
    BY <2>1, <2>2, <2>3, ReadingStep, ZenonT(60)
<1> QED
  BY <1>1, <1>2, <1>3, <1>4, <1>5, ZenonT(60) DEF CloneNext

\* The inductive invariant holds throughout.
THEOREM ClonesHold == CloneSpec => []CloneInv
  BY CloneStarts, CloneContinues, PTL DEF CloneSpec

\* Nobody takes over a clone that still believes in its lease, and a provisional
\* repository always has an end in sight, for any number of concurrent calls,
\* roots and restarts, and any lease and renewal window.
THEOREM ClonesStayOwned == CloneSpec => []ClonesOwned
<1>1. CloneInv => ClonesOwned
  BY DEF CloneInv, CallsOK, CallOK, ClonesOwned, EndInSight
<1> QED
  BY <1>1, ClonesHold, PTL

\* No facade outlives its rows, no two checkouts share a root, every repository
\* has the primaries its kind needs, and a kept row that is not stale is the
\* stored one, after any sequence of operations, clones and restarts.
THEOREM RegistryStaysIntact == CloneSpec => []RegistryIntact
<1>1. CloneInv => RegistryIntact
  <2> SUFFICES ASSUME CloneInv PROVE RegistryIntact
    OBVIOUS
  <2>1. MemoryOK(memory, repositories, checkouts) /\ RowsTyped /\ RootsDiffer /\ SingleCheckouts /\ HeldOK
    BY DEF CloneInv, RowsOK
  <2>2. ASSUME NEW f \in DOMAIN memory.live
        PROVE  /\ memory.live[f].repo \in DOMAIN repositories
               /\ memory.live[f].checkout # 0 =>
                    /\ memory.live[f].checkout \in DOMAIN checkouts
                    /\ checkouts[memory.live[f].checkout].repo = memory.live[f].repo
               /\ memory.live[f].over # 0 => memory.live[f].over \in DOMAIN memory.live
    <3>1. \A c \in DOMAIN checkouts : checkouts[c].repo \in DOMAIN repositories
      BY <2>1, ZenonT(60) DEF RowsTyped
    <3> QED
      BY <2>1, <3>1, FacadeSound, ZenonT(60)
  <2>3. ASSUME NEW r \in DOMAIN repositories PROVE CardinalityHolds(r)
    <3>1. repositories[r].kind = "bare" \/ repositories[r].kind = "workspace"
      BY <2>1, ZenonT(60) DEF RowsTyped, RepositoryRow
    <3>2. PrimariesOf(r) \subseteq CheckoutsOf(r) /\ \A c : c \in {c}
      BY DEF PrimariesOf
    <3> QED
      BY <2>1, <3>1, <3>2 DEF SingleCheckouts, CardinalityHolds, One, Provisional
  <2> QED
    BY <2>1, <2>2, <2>3, ZenonT(60) DEF RegistryIntact, RootsDiffer, HeldOK
<1> QED
  BY <1>1, ClonesHold, PTL
===============================================================================
