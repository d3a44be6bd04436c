------------------------------- MODULE Clone -------------------------------
(***************************************************************************)
(* Clones over the registry.  A call owns a provisional repository under a  *)
(* lease that it renews at its checkpoints, fills it between its awaits,    *)
(* and publishes or discards it.  Another clone of the same root takes an   *)
(* expired one over.                                                        *)
(***************************************************************************)
EXTENDS Registry

CONSTANTS Clones,     \* concurrent calls of clone()
          MaxClock    \* bound on the clock

VARIABLES
  calls,      \* call -> its phase, owner and local lease
  abandoned   \* repositories whose call ended without discarding them

cloneVars == << registryVars, calls, abandoned >>

NoCall == [phase |-> "idle", repo |-> 0, checkout |-> 0, store |-> 0, lease |-> 0]
Active == {k \in Clones : calls[k].phase # "idle"}

\* storedProvisionalOwner, without the check of the lease
StoredOwner(k) ==
  /\ calls[k].repo \in DOMAIN repositories
  /\ repositories[calls[k].repo].lifecycle = "provisional"
  /\ calls[k].checkout \in DOMAIN checkouts
  /\ checkouts[calls[k].checkout].repo = calls[k].repo

\* provisionalRecordForOwner
OwnsFacade(k) ==
  /\ calls[k].repo \in DOMAIN memory.provisional
  /\ memory.provisional[calls[k].repo].store = calls[k].store

\* requireProvisionalOwner
RequireOwner(k) ==
  /\ StoredOwner(k)
  /\ clock < repositories[calls[k].repo].expires
  /\ OwnsFacade(k)

EvictOwner(m, k) == IF OwnsFacade(k) THEN EvictProvisional(m, calls[k].repo) ELSE m

CloneInit ==
  /\ RegistryInit
  /\ calls = [k \in Clones |-> NoCall]
  /\ abandoned = {}

\* the CAS of a takeover: the lease that was read has run out
ExpiredEarly(repo) == clock >= repositories[repo].expires - RENEW_WINDOW
Expired(repo) == clock >= repositories[repo].expires

Provisional(repo) == repositories[repo].lifecycle = "provisional"

\* the cleanup of an expired clone opens its store, and evicts it afterwards
SweptMemory(repo) ==
  EvictProvisional(ProvisionalStore(memory, repo, CHOOSE c \in CheckoutsOf(repo) : TRUE), repo)

\* beginProvisionalClone and the remote configuration, one synchronous block
BeginClone(k, root) ==
  LET taken == {checkouts[c].repo : c \in CheckoutsAt(root)}
      swept == IF taken = {} THEN memory
               ELSE SweptMemory(CHOOSE repo \in taken : TRUE)
  IN
  /\ calls[k].phase = "idle"
  /\ \A repo \in taken : Provisional(repo) /\ Expired(repo)
  /\ NextRepository <= MaxRepository /\ NextCheckout <= MaxCheckout
  /\ repositories' = [InsertedRepository(Without(repositories, taken), NextRepository,
                                         "workspace", "provisional", clock + LEASE)
                        EXCEPT ![NextRepository].content = "config"]
  /\ checkouts' = InsertedCheckout(Without(checkouts, UNION {CheckoutsOf(r) : r \in taken}),
                                   NextCheckout, NextRepository, root, TRUE)
  /\ sequence' = [repo |-> NextRepository, checkout |-> NextCheckout]
  /\ memory' = ProvisionalStore(swept, NextRepository, NextCheckout)
  /\ calls' = [calls EXCEPT ![k] = [phase |-> "fetch", repo |-> NextRepository,
                                    checkout |-> NextCheckout,
                                    store |-> memory'.provisional[NextRepository].store,
                                    lease |-> clock + LEASE]]
  /\ abandoned' = abandoned \ taken
  /\ UNCHANGED << clock, held >>

\* The cleanup of an expired clone fails: the transaction rolls back, but the
\* facade of the old owner is gone.
BeginCloneFails(k, repo) ==
  /\ calls[k].phase = "idle"
  /\ Provisional(repo) /\ Expired(repo)
  /\ memory' = SweptMemory(repo)
  /\ UNCHANGED << tables, clock, held, calls, abandoned >>

\* heartbeat: nothing while the local lease is far from its end
HeartbeatDue(k) == calls[k].lease - clock <= RENEW_WINDOW

\* renewProvisionalClone of the owner
RenewedExpiry(k) ==
  LET current == repositories[calls[k].repo].expires
  IN IF current - clock > RENEW_WINDOW THEN current ELSE clock + LEASE
LeaseAfter(k) == IF HeartbeatDue(k) THEN IF RequireOwner(k)
                                         THEN RenewedExpiry(k) ELSE 0
                 ELSE calls[k].lease

\* The steps of the fetch and of the local refs and hydration that follow, each
\* of which starts with a checkpoint and writes through the owner's facade.
CloneSteps == [fetch |-> "refs", refs |-> "hydrate", hydrate |-> "publish"]
ContentAfter == [fetch |-> "fetched", refs |-> "attached", hydrate |-> "attached"]

CloneStep(k) ==
  /\ calls[k].phase \in DOMAIN CloneSteps
  /\ HeartbeatDue(k) => RequireOwner(k)
  /\ calls[k].store \in DOMAIN memory.live
  /\ calls[k].repo \in DOMAIN repositories
  /\ repositories' = [repositories EXCEPT ![calls[k].repo].content = ContentAfter[calls[k].phase],
                                          ![calls[k].repo].expires =
                                            IF HeartbeatDue(k) THEN RenewedExpiry(k) ELSE @]
  /\ \E next \in {calls[k].phase, CloneSteps[calls[k].phase]} :
       calls' = [calls EXCEPT ![k].phase = next, ![k].lease = LeaseAfter(k)]
  /\ UNCHANGED << checkouts, sequence, clock, memory, held, abandoned >>

\* The checkpoint, the network or the abort signal fails the call; a renewal
\* that finds the owner stale revokes its facade.
CloneFails(k) ==
  /\ calls[k].phase \in DOMAIN CloneSteps
  /\ memory' = IF HeartbeatDue(k) /\ ~RequireOwner(k) THEN EvictOwner(memory, k) ELSE memory
  /\ calls' = [calls EXCEPT ![k].phase = "discard"]
  /\ UNCHANGED << tables, clock, held, abandoned >>

\* publishProvisionalClone, with the initial checkout or its fallback
PublishClone(k) ==
  /\ calls[k].phase = "publish"
  /\ RequireOwner(k)
  /\ repositories' = [repositories EXCEPT ![calls[k].repo].lifecycle = "ready",
                                          ![calls[k].repo].expires = 0,
                                          ![calls[k].repo].content = "checked out"]
  /\ memory' = RememberCheckout(EvictProvisional(memory, calls[k].repo),
                                calls[k].checkout, calls[k].repo, TRUE)
  /\ calls' = [calls EXCEPT ![k] = NoCall]
  /\ UNCHANGED << checkouts, sequence, clock, held, abandoned >>

\* The owner is stale, or the preparation fails and keeps the owner's facade.
PublishCloneFails(k) ==
  /\ calls[k].phase = "publish"
  /\ memory' = IF RequireOwner(k) THEN memory ELSE EvictOwner(memory, k)
  /\ calls' = [calls EXCEPT ![k].phase = "discard"]
  /\ UNCHANGED << tables, clock, held, abandoned >>

\* discardProvisionalClone, which does not ask whether the lease has expired;
\* a stale owner has nothing to discard
DiscardClone(k) ==
  LET repo == calls[k].repo
      mine == StoredOwner(k) /\ (repo \in DOMAIN memory.provisional => OwnsFacade(k))
  IN
  /\ calls[k].phase = "discard"
  /\ repositories' = IF mine THEN Without(repositories, {repo}) ELSE repositories
  /\ checkouts' = IF mine THEN Without(checkouts, CheckoutsOf(repo)) ELSE checkouts
  /\ memory' = IF mine THEN EvictProvisional(ProvisionalStore(memory, repo, calls[k].checkout), repo)
               ELSE EvictOwner(memory, k)
  /\ calls' = [calls EXCEPT ![k] = NoCall]
  /\ UNCHANGED << sequence, clock, held, abandoned >>

\* The cleanup of the discard fails: the rows stay until a takeover.
DiscardCloneFails(k) ==
  /\ calls[k].phase = "discard"
  /\ StoredOwner(k)
  /\ memory' = EvictProvisional(ProvisionalStore(memory, calls[k].repo, calls[k].checkout),
                                calls[k].repo)
  /\ calls' = [calls EXCEPT ![k] = NoCall]
  /\ abandoned' = abandoned \cup {calls[k].repo}
  /\ UNCHANGED << tables, clock, held >>

\* The isolate is replaced; its calls are gone.
RestartClones ==
  /\ RestartRegistry
  /\ calls' = [k \in Clones |-> NoCall]
  /\ abandoned' = abandoned \cup {r \in DOMAIN repositories : Provisional(r)}

AdvanceClock ==
  /\ clock < MaxClock
  /\ clock' = clock + 1
  /\ UNCHANGED << tables, memory, held, calls, abandoned >>

CloneNext ==
  \/ RegistryNext /\ UNCHANGED << calls, abandoned >>
  \/ \E k \in Clones :
       \/ \E root \in Roots : BeginClone(k, root)
       \/ \E repo \in DOMAIN repositories : BeginCloneFails(k, repo)
       \/ CloneStep(k) \/ CloneFails(k)
       \/ PublishClone(k) \/ PublishCloneFails(k)
       \/ DiscardClone(k) \/ DiscardCloneFails(k)
  \/ RestartClones
  \/ AdvanceClock

CloneSpec == CloneInit /\ [][CloneNext]_cloneVars

-----------------------------------------------------------------------------
\* While a call's own lease runs, its repository is there, provisional, leased
\* for at least as long, and its facade works: nobody takes a clone over that
\* still believes in its lease. And a provisional repository always has an end in
\* sight: the call that made it is still running, or a crash or a failed cleanup
\* left it to the next takeover.
ClonesOwned ==
  /\ \A k \in Active :
       calls[k].phase # "discard" /\ clock < calls[k].lease =>
         /\ StoredOwner(k) /\ OwnsFacade(k)
         /\ calls[k].lease <= repositories[calls[k].repo].expires
  /\ \A r \in DOMAIN repositories :
       Provisional(r) => r \in abandoned \/ \E k \in Active : calls[k].repo = r
=============================================================================
