----------------------------- MODULE PackIngest -----------------------------
(***************************************************************************)
(* Storing a received pack in one repository.  An ingest reserves a pack    *)
(* under a lease, writes its chunks, indexes its entries, resolves the      *)
(* deltas it deferred and publishes the pack as complete.  It loses the     *)
(* processor between any two of these steps and renews its lease when it    *)
(* gets it back.  Offsets are the ordinals of the entries.                  *)
(***************************************************************************)
EXTENDS Keyset, Sequences, TLC

CONSTANTS
  Ingests,            \* concurrent calls of ingest()
  Incoming,           \* packs a peer may send: sequences of entries
  PACK_INGEST_LEASE,  \* lease of an ingest
  MAX_DELTA_DEPTH,    \* longest delta chain an ingest accepts
  INDEX_PAGE,         \* entries indexed between two yields
  PENDING_PAGE,       \* deferred deltas of one page
  MaxPackId, MaxIngestClock, Chunks

ASSUME PackIngestAssumption ==
  /\ {PACK_INGEST_LEASE, INDEX_PAGE, PENDING_PAGE, MaxPackId, Chunks} \subseteq Nat \ {0}
  /\ {MAX_DELTA_DEPTH, MaxIngestClock} \subseteq Nat
  /\ \A pack \in Incoming : \A o \in DOMAIN pack : pack[o].kind \in {"full", "ofs", "ref"}

VARIABLES
  control,        \* git_pack_ingest_control
  packs,          \* git_pack_meta with the data, entries and pending rows of each pack
  activePending,  \* packs the process is ingesting, in memory
  ingests,        \* call -> its phase, lease and position
  ingestClock

ingestVars == << control, packs, activePending, ingests, ingestClock >>

NoIngest == [phase |-> "idle", pack |-> 0, generation |-> 0, expires |-> 0,
             source |-> << >>, next |-> 0, after |-> 0, progressed |-> FALSE]
NoPack == [state |-> "absent", chunks |-> 0, source |-> << >>, entries |-> << >>, pending |-> {}]
Running(k) == ingests[k].phase \notin {"idle", "failed", "corrupt"}

PackIngestInit ==
  /\ control = [generation |-> 0, last |-> 0, active |-> 0, expires |-> 0]
  /\ packs = << >>
  /\ activePending = {}
  /\ ingests = [k \in Ingests |-> NoIngest]
  /\ ingestClock = 0

Released(c) == [c EXCEPT !.active = 0, !.expires = 0]
Dropped(ids) == [p \in DOMAIN packs \ ids |-> packs[p]]

\* The pack of an expired lease, and every unfinished pack that neither the
\* live lease nor a call of this process holds.
Reclaimable ==
  {p \in DOMAIN packs :
     /\ packs[p].state = "pending"
     /\ IF p = control.active THEN ingestClock >= control.expires
        ELSE p \notin activePending}

NextPackId == control.last + 1

Reserve(k, source) ==
  LET id == NextPackId
  IN
  /\ ~Running(k)
  /\ control.active # 0 => ingestClock >= control.expires     \* or EBUSY
  /\ id <= MaxPackId
  /\ packs' = [p \in (DOMAIN packs \ Reclaimable) \cup {id} |->
                 IF p = id THEN [NoPack EXCEPT !.state = "pending", !.source = source] ELSE packs[p]]
  /\ control' = [generation |-> control.generation + 1, last |-> id, active |-> id,
                 expires |-> ingestClock + PACK_INGEST_LEASE]
  /\ activePending' = activePending \cup {id}
  /\ ingests' = [ingests EXCEPT ![k] =
                   [NoIngest EXCEPT !.phase = "receive", !.pack = id, !.source = source,
                                    !.generation = control.generation + 1, !.next = 1,
                                    !.expires = ingestClock + PACK_INGEST_LEASE]]
  /\ UNCHANGED ingestClock

\* the compare-and-set of renewIngestLease
OwnsLease(k) ==
  /\ control.generation = ingests[k].generation
  /\ control.active = ingests[k].pack
  /\ control.expires > ingestClock
RenewalDue(k) == ingestClock >= ingests[k].expires - PACK_INGEST_LEASE \div 2
HeartbeatPassesUnchecked(k) == RenewalDue(k) => control.active # 0
HeartbeatPasses(k) == RenewalDue(k) => OwnsLease(k)
Renewed(k) == IF RenewalDue(k) THEN MaxOf({control.expires, ingestClock + PACK_INGEST_LEASE})
              ELSE ingests[k].expires

\* One step of a call after an await: the heartbeat passes, the pack becomes
\* pack, the call becomes call.
Resumed(k, call, pack) ==
  /\ HeartbeatPasses(k)
  /\ control' = [control EXCEPT !.expires = IF RenewalDue(k) THEN Renewed(k) ELSE @]
  /\ packs' = IF ingests[k].pack \in DOMAIN packs THEN [packs EXCEPT ![ingests[k].pack] = pack]
              ELSE packs
  /\ ingests' = [ingests EXCEPT ![k] = [call EXCEPT !.expires = Renewed(k)]]
  /\ UNCHANGED << activePending, ingestClock >>

Mine(k) == IF ingests[k].pack \in DOMAIN packs THEN packs[ingests[k].pack] ELSE NoPack

WriteChunks(k) ==
  /\ ingests[k].phase = "receive"
  /\ Resumed(k, [ingests[k] EXCEPT !.phase = IF Mine(k).chunks + 1 = Chunks THEN "index" ELSE @],
             [Mine(k) EXCEPT !.chunks = @ + 1])

\* the object ids of the entries known to the index
Named(source, entries, oid) == {o \in DOMAIN entries : source[o].oid = oid}
Depth(entries, offset) ==
  LET depth[o \in DOMAIN entries, fuel \in 0..Cardinality(DOMAIN entries)] ==
        IF entries[o] = 0 \/ fuel = 0 \/ entries[o] \notin DOMAIN entries THEN 0
        ELSE 1 + depth[entries[o], fuel - 1]
  IN depth[offset, Cardinality(DOMAIN entries)]
TooDeepByOne(entries) == \E o \in DOMAIN entries : Depth(entries, o) > MAX_DELTA_DEPTH + 1
TooDeep(entries) == \E o \in DOMAIN entries : Depth(entries, o) > MAX_DELTA_DEPTH

\* The base a delta names in the offset window, none when it is unknown there.
WindowBase(source, entries, o) ==
  IF source[o].kind = "ofs" THEN {source[o].base} \cap DOMAIN entries
  ELSE LET named == Named(source, entries, source[o].base)
       IN IF named = {} THEN {} ELSE {MaxOf(named)}

\* The entries from the next page indexed in order.  deferred are the deltas
\* whose base the object cache has lost or the window does not hold.
Indexed(source, entries, page, deferred) ==
  LET upto[o \in (MinOf(page) - 1)..MaxOf(page)] ==
        IF o < MinOf(page) THEN entries
        ELSE LET earlier == upto[o - 1]
                 base == WindowBase(source, earlier, o)
             IN IF source[o].kind = "full" THEN (o :> 0) @@ earlier
                ELSE IF o \in deferred \/ base = {} THEN earlier
                ELSE (o :> CHOOSE b \in base : TRUE) @@ earlier
  IN upto[MaxOf(page)]

IndexPack(k) ==
  LET call == ingests[k]
      last == MinOf({Len(call.source), call.next + INDEX_PAGE - 1})
      page == call.next..last
  IN
  /\ call.phase = "index"
  /\ \E deferred \in SUBSET page :
       LET entries == Indexed(call.source, Mine(k).entries, page, deferred)
       IN /\ ~TooDeep(entries)
          /\ Resumed(k, [call EXCEPT !.next = last + 1,
                                     !.phase = IF last = Len(call.source) THEN "drain" ELSE @],
                     [Mine(k) EXCEPT !.entries = entries,
                                     !.pending = @ \cup (page \ DOMAIN entries)])

\* the offset the page query resolves a deferred delta against
ResolvedBase(source, entries, o) ==
  IF source[o].kind = "ofs" THEN {source[o].base} \cap DOMAIN entries
  ELSE LET named == Named(source, entries, source[o].base)
       IN IF named = {} THEN {} ELSE {MinOf(named)}

\* The rows of a page that get resolved, with their bases: the deltas on an
\* admitted base, and in turn the deltas on those of them that stay in memory.
Drained(source, entries, page, admitted, retained) ==
  LET start == [o \in {r \in page : ResolvedBase(source, entries, r) \cap admitted # {}} |->
                  CHOOSE b \in ResolvedBase(source, entries, o) : TRUE]
      bases(known, o) == {b \in DOMAIN known \cap retained :
                            IF source[o].kind = "ofs" THEN b = source[o].base
                            ELSE source[b].oid = source[o].base}
      layer[n \in 0..Cardinality(page)] ==
        IF n = 0 THEN start
        ELSE LET known == layer[n - 1]
                 next == {r \in page : ResolvedBase(source, entries, r) = {} /\ bases(known, r) # {}}
             IN known @@ [o \in next |-> MinOf(bases(known, o))]
  IN layer[Cardinality(page)]

\* What is left of the pending rows, and whether the pass has got anywhere.
Remaining(pending, done) == pending \ done
ProgressOfPage(call, done) == done # {}
Progress(call, done) == call.progressed \/ done # {}

\* One page of one pass.  The byte budgets, which the model leaves out, decide
\* which bases are admitted beyond the first and which targets are retained.
DrainPage(k) ==
  LET call == ingests[k]
      rows == {o \in Mine(k).pending : o > call.after}
      page == LowestPage(PENDING_PAGE, rows)
      indexed == UNION {ResolvedBase(call.source, Mine(k).entries, o) : o \in page}
  IN
  /\ call.phase = "drain" /\ page # {}
  /\ \E admitted \in SUBSET indexed, retained \in SUBSET page :
       LET done == Drained(call.source, Mine(k).entries, page, admitted, retained)
           entries == done @@ Mine(k).entries
       IN /\ admitted = {} => indexed = {}
          /\ ~TooDeep(entries)
          /\ Resumed(k, [call EXCEPT !.after = MaxOf(page), !.progressed = Progress(call, DOMAIN done)],
                     [Mine(k) EXCEPT !.entries = entries, !.pending = Remaining(@, DOMAIN done)])

\* A pass is over: the next one, or none when nothing is left.
DrainPass(k) ==
  LET call == ingests[k]
  IN
  /\ call.phase = "drain"
  /\ \A o \in Mine(k).pending : o <= call.after
  /\ Mine(k).pending # {} => call.progressed
  /\ Resumed(k, [call EXCEPT !.after = 0, !.progressed = FALSE,
                             !.phase = IF Mine(k).pending = {} THEN "publish" ELSE @], Mine(k))

\* the publication transaction
PublishPack(k) ==
  LET call == ingests[k]
  IN
  /\ call.phase = "publish"
  /\ HeartbeatPasses(k)
  /\ call.pack \in DOMAIN packs /\ Mine(k).state = "pending"
  /\ DOMAIN Mine(k).entries = DOMAIN call.source
  /\ packs' = [packs EXCEPT ![call.pack].state = "complete"]
  /\ control.generation = call.generation /\ control.active = call.pack
  /\ control' = Released(control)
  /\ activePending' = activePending \ {call.pack}
  /\ ingests' = [ingests EXCEPT ![k] = NoIngest]
  /\ UNCHANGED ingestClock

\* the finally block of a call that throws; phase says why
Ended(k, phase) ==
  /\ activePending' = activePending \ {ingests[k].pack}
  /\ control' = IF control.generation = ingests[k].generation /\ control.active = ingests[k].pack
                THEN Released(control) ELSE control
  /\ ingests' = [ingests EXCEPT ![k].phase = phase]
  /\ UNCHANGED << packs, ingestClock >>

\* the abort signal, the stream, or a lease found stale
IngestFails(k) == Running(k) /\ Ended(k, "failed")

\* no delta of a whole pass had its base
Unresolved(k) ==
  /\ ingests[k].phase = "drain" /\ HeartbeatPasses(k)
  /\ Mine(k).pending # {} /\ ~ingests[k].progressed
  /\ \A o \in Mine(k).pending : o <= ingests[k].after
  /\ Ended(k, "corrupt")

\* receive-pack discards the reservation its failed ingest left
DiscardPendingPack(k) ==
  LET call == ingests[k]
  IN
  /\ call.phase \in {"failed", "corrupt"}
  /\ call.pack \in DOMAIN packs => Mine(k).state = "pending"
  /\ packs' = IF /\ call.pack \in DOMAIN packs
                 /\ control.generation = call.generation /\ control.last = call.pack
                 /\ control.active = 0 /\ call.pack \notin activePending
              THEN Dropped({call.pack}) ELSE packs
  /\ ingests' = [ingests EXCEPT ![k] = NoIngest]
  /\ UNCHANGED << control, activePending, ingestClock >>

\* maintenance deletes a complete pack
DeleteCompletePack(p) ==
  /\ packs[p].state = "complete"
  /\ packs' = Dropped({p})
  /\ UNCHANGED << control, activePending, ingests, ingestClock >>

RestartIngests ==
  /\ activePending' = {}
  /\ ingests' = [k \in Ingests |-> NoIngest]
  /\ UNCHANGED << control, packs, ingestClock >>

AdvanceIngestClock ==
  /\ ingestClock < MaxIngestClock
  /\ ingestClock' = ingestClock + 1
  /\ UNCHANGED << control, packs, activePending, ingests >>

PackIngestNext ==
  \/ \E k \in Ingests :
       \/ \E source \in Incoming : Reserve(k, source)
       \/ WriteChunks(k) \/ IndexPack(k) \/ DrainPage(k) \/ DrainPass(k) \/ PublishPack(k)
       \/ IngestFails(k) \/ Unresolved(k) \/ DiscardPendingPack(k)
  \/ \E p \in DOMAIN packs : DeleteCompletePack(p)
  \/ RestartIngests
  \/ AdvanceIngestClock

PackIngestSpec == PackIngestInit /\ [][PackIngestNext]_ingestVars

-----------------------------------------------------------------------------
\* As long as its own lease runs, an ingest owns the control row and its pack
\* is there and pending: no other ingest reclaims what a live one still writes.
\* No two calls ever write to the same pack id, whatever was reclaimed, deleted
\* or lost in a restart before: ids are not reused.
IngestOwnsPack ==
  /\ \A k \in Ingests :
       Running(k) /\ ingestClock < ingests[k].expires =>
         /\ control.active = ingests[k].pack /\ control.generation = ingests[k].generation
         /\ Mine(k).state = "pending"
  /\ \A j, k \in Ingests : j # k /\ Running(j) /\ Running(k) => ingests[j].pack # ingests[k].pack

\* The inductive form.  The pack that control names is pending, and the lease in
\* control lasts at least as long as the one its call goes by.
HasFields(r, like) == r = [f \in DOMAIN like |-> r[f]]
IngestTypes ==
  /\ control \in [generation: Nat, last: Nat, active: Nat, expires: Nat] /\ ingestClock \in Nat
  /\ packs = [p \in DOMAIN packs |-> packs[p]]
  /\ \A p \in DOMAIN packs : p \in 1..control.last /\ HasFields(packs[p], NoPack)
  /\ ingests = [k \in Ingests |-> ingests[k]]
  /\ \A k \in Ingests :
       /\ HasFields(ingests[k], NoIngest)
       /\ Running(k) => /\ ingests[k].pack \in 1..control.last
                        /\ ingests[k].generation \in Nat /\ ingests[k].expires \in Nat
IngestInv ==
  /\ IngestTypes
  /\ control.active # 0 => control.active \in DOMAIN packs /\ packs[control.active].state = "pending"
  /\ \A j, k \in Ingests : j # k /\ Running(j) /\ Running(k) => ingests[j].pack # ingests[k].pack
  /\ \A k \in Ingests :
       Running(k) /\ ingestClock < ingests[k].expires =>
         /\ control.active = ingests[k].pack /\ control.generation = ingests[k].generation
         /\ ingests[k].expires <= control.expires

\* what a delta chain of the source may rest on, by definition
Resolvable(source) ==
  LET grow(known) == known \cup {o \in DOMAIN source :
                       \/ source[o].kind = "full"
                       \/ source[o].kind = "ofs" /\ source[o].base \in known
                       \/ source[o].kind = "ref" /\ \E b \in known : source[b].oid = source[o].base}
      closure[n \in 0..Len(source)] == IF n = 0 THEN {} ELSE grow(closure[n - 1])
  IN closure[Len(source)] = DOMAIN source

\* A pack that readers see holds every entry of the stream, each delta on the
\* base it names, in the same pack, at the end of a chain that is not too long.
CompletePackWhole ==
  \A p \in DOMAIN packs :
    LET pack == packs[p] IN
    pack.state = "complete" =>
      /\ pack.chunks = Chunks /\ pack.pending = {}
      /\ DOMAIN pack.entries = DOMAIN pack.source
      /\ \A o \in DOMAIN pack.entries : Depth(pack.entries, o) <= MAX_DELTA_DEPTH
      /\ \A o \in DOMAIN pack.entries :
           CASE pack.source[o].kind = "full" -> pack.entries[o] = 0
             [] pack.source[o].kind = "ofs"  -> pack.entries[o] = pack.source[o].base
             [] OTHER -> pack.source[pack.entries[o]].oid = pack.source[o].base
      /\ Resolvable(pack.source)

\* Deferred deltas are given up as lacking a base only when the pack really
\* lacks one: neither paging, nor base groups, nor the order of the entries,
\* nor evicted bases make a good pack fail.
CorruptOnlyUnresolvable ==
  \A k \in Ingests : ingests[k].phase = "corrupt" => ~Resolvable(ingests[k].source)
=============================================================================
