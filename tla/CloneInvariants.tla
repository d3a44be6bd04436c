---------------------------- MODULE CloneInvariants ---------------------------
(***************************************************************************)
(* What holds of the registry and of clones for every set of roots and      *)
(* calls, every lease and every bound: RegistryIntact and ClonesOwned.      *)
(*                                                                          *)
(* Neither is inductive.  That a facade names rows that exist needs to know *)
(* where every facade comes from (MemoryOK): a map of the memory leads to   *)
(* it, so whoever empties the maps for a row revokes every facade over it.  *)
(* That rows do not clash needs the counters (RowsOK).  That a call owns    *)
(* its repository needs that no two calls have one, and that a facade of a  *)
(* call's repository is the call's own (CallsOK).                           *)
(***************************************************************************)
EXTENDS Clone

\* the row of a repository that is open to everybody, or to its clone alone
ReadyIn(R, r) == r \in DOMAIN R /\ R[r].lifecycle = "ready"
ProvisionalIn(R, r) == r \in DOMAIN R /\ R[r].lifecycle = "provisional"
\* a checkout of repository r
CheckoutIn(C, c, r) == c \in DOMAIN C /\ C[c].repo = r

\* the maps of a database object, as a record
MemoryShape(m) ==
  /\ DOMAIN m = {"shared", "stores", "provisional", "identities", "live", "nextStore", "nextRow"}
  /\ m.nextStore \in Nat \ {0}
  /\ \A f \in DOMAIN m.live : f \in Nat /\ 0 < f /\ f < m.nextStore

\* what the maps say of the facades they lead to, over rows R and C
SharedOK(m, R) ==
  \A r \in DOMAIN m.shared :
    ReadyIn(R, r) /\ m.shared[r] \in DOMAIN m.live /\ m.live[m.shared[r]] = Facade(r, 0, 0)
StoresOK(m, C) ==
  \A c \in DOMAIN m.stores :
    /\ c # 0 /\ c \in DOMAIN C /\ C[c].repo \in DOMAIN m.shared
    /\ m.stores[c] \in DOMAIN m.live
    /\ m.live[m.stores[c]] = Facade(C[c].repo, c, m.shared[C[c].repo])
ProvisionalOK(m, R, C) ==
  \A r \in DOMAIN m.provisional :
    /\ m.provisional[r].checkout # 0
    /\ ProvisionalIn(R, r) /\ CheckoutIn(C, m.provisional[r].checkout, r)
    /\ m.provisional[r].store \in DOMAIN m.live
    /\ m.live[m.provisional[r].store] = Facade(r, m.provisional[r].checkout, 0)

\* every facade that works is found in a map
FacadesFound(m) ==
  \A f \in DOMAIN m.live :
    \/ m.live[f].repo \in DOMAIN m.shared /\ m.shared[m.live[f].repo] = f
    \/ m.live[f].checkout \in DOMAIN m.stores /\ m.stores[m.live[f].checkout] = f
    \/ m.live[f].repo \in DOMAIN m.provisional /\ m.provisional[m.live[f].repo].store = f

MemoryOK(m, R, C) ==
  MemoryShape(m) /\ SharedOK(m, R) /\ StoresOK(m, C) /\ ProvisionalOK(m, R, C) /\ FacadesFound(m)

\* the rows: ids below the counters, roots that differ, the primaries and the
\* single checkout that CardinalityHolds counts
RepositoryRow == [kind: {"workspace", "bare"}, lifecycle: {"ready", "provisional"},
                  expires: Nat, content: {"empty", "config", "fetched", "attached", "checked out"}]
CheckoutRow == [repo: Nat, root: Roots, primary: BOOLEAN]
RowsTyped ==
  /\ sequence \in [repo: Nat, checkout: Nat] /\ clock \in Nat
  /\ \A r \in DOMAIN repositories :
       r \in Nat /\ 0 < r /\ r <= sequence.repo /\ repositories[r] \in RepositoryRow
  /\ \A c \in DOMAIN checkouts :
       /\ c \in Nat /\ 0 < c /\ c <= sequence.checkout /\ checkouts[c] \in CheckoutRow
       /\ checkouts[c].repo \in DOMAIN repositories
RootsDiffer == \A c, d \in DOMAIN checkouts : checkouts[c].root = checkouts[d].root => c = d
SingleCheckouts ==
  \A r \in DOMAIN repositories :
    /\ repositories[r].kind = "bare" => PrimariesOf(r) = {}
    /\ repositories[r].kind = "workspace" => \E c \in CheckoutsOf(r) : PrimariesOf(r) = {c}
    /\ Provisional(r) => \E c \in CheckoutsOf(r) : CheckoutsOf(r) = {c}
HeldOK ==
  held # NoRow =>
    /\ held.checkout \in Nat /\ held.checkout <= sequence.checkout
    /\ held.checkout \in DOMAIN checkouts =>
         /\ checkouts[held.checkout].repo = held.repo
         /\ checkouts[held.checkout].root = held.root
         /\ checkouts[held.checkout].primary = held.primary
RowsOK == RowsTyped /\ RootsDiffer /\ SingleCheckouts /\ HeldOK

\* the calls: repositories of their own, whose provisional rows and facades are
\* theirs, and the lease that is stored outlasts the one they remember
CallRow == [phase: {"idle", "fetch", "refs", "hydrate", "publish", "discard"},
            repo: Nat, checkout: Nat, store: Nat, lease: Nat]
CallOK(k) ==
  /\ calls[k].repo <= sequence.repo
  /\ calls[k].repo \in DOMAIN repositories => StoredOwner(k)
  /\ calls[k].repo \in DOMAIN memory.provisional => OwnsFacade(k)
  /\ calls[k].phase # "discard" /\ clock < calls[k].lease =>
       /\ StoredOwner(k) /\ OwnsFacade(k)
       /\ calls[k].lease <= repositories[calls[k].repo].expires
CallsOK ==
  /\ calls \in [Clones -> CallRow]
  /\ \A k \in Active : CallOK(k)
  /\ \A j, k \in Active : calls[j].repo = calls[k].repo => j = k

\* a provisional repository has an end in sight
EndInSight(r) == r \in abandoned \/ \E k \in Active : calls[k].repo = r

CloneInv ==
  /\ RowsOK /\ MemoryOK(memory, repositories, checkouts) /\ CallsOK
  /\ \A r \in DOMAIN repositories : Provisional(r) => EndInSight(r)


-----------------------------------------------------------------------------
(* What a step leaves alone. *)

\* the row of r and its checkouts are the same after the step
Untouched(r) ==
  /\ r \in DOMAIN repositories <=> r \in DOMAIN repositories'
  /\ r \in DOMAIN repositories => repositories'[r] = repositories[r]
  /\ \A c \in DOMAIN checkouts :
       checkouts[c].repo = r => c \in DOMAIN checkouts' /\ checkouts'[c] = checkouts[c]
  /\ \A c \in DOMAIN checkouts' :
       checkouts'[c].repo = r => c \in DOMAIN checkouts /\ checkouts'[c] = checkouts[c]
\* and so is what the memory holds of a clone into it
FacadeUntouched(r) ==
  /\ r \in DOMAIN memory.provisional <=> r \in DOMAIN memory'.provisional
  /\ r \in DOMAIN memory.provisional => memory'.provisional[r] = memory.provisional[r]
===============================================================================
