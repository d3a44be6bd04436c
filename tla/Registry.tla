------------------------------ MODULE Registry ------------------------------
(***************************************************************************)
(* The registry of repositories and checkouts: the tables git_repositories  *)
(* and git_checkouts, and what one database object remembers about them in  *)
(* memory.  A facade is a store object that callers keep; it works until it *)
(* is revoked.  A refused call changes no table, and what it may have       *)
(* opened on the way is the effect of an open of its own.                   *)
(***************************************************************************)
EXTENDS Naturals, FiniteSets

CONSTANTS Roots,          \* canonical checkout roots
          MaxRepository,  \* bound on repository ids
          MaxCheckout,    \* bound on checkout ids
          LEASE,          \* PROVISIONAL_CLONE_LEASE_MS
          RENEW_WINDOW    \* PROVISIONAL_CLONE_RENEW_WINDOW_MS

ASSUME RegistryAssumption ==
  /\ MaxRepository \in Nat /\ MaxCheckout \in Nat
  /\ LEASE \in Nat \ {0} /\ RENEW_WINDOW \in 0..LEASE

VARIABLES
  repositories,  \* id -> kind, lifecycle, expires (0 when ready), content
  checkouts,     \* id -> repo, root, primary
  sequence,      \* the AUTOINCREMENT counters
  clock,         \* the caller's clock
  memory,        \* the maps of one SqliteGitDatabase
  held           \* at most one checkout row that a caller keeps

tables == << repositories, checkouts, sequence >>
registryVars == << repositories, checkouts, sequence, clock, memory, held >>

Nothing == [x \in {} |-> x]
NoRow == [checkout |-> 0, repo |-> 0, root |-> "", primary |-> FALSE, generation |-> 0]

-----------------------------------------------------------------------------
(* The memory of a database object, and how calls change it. *)

EmptyMemory ==
  [shared |-> Nothing, stores |-> Nothing, provisional |-> Nothing, identities |-> Nothing,
   live |-> Nothing, nextStore |-> 1, nextRow |-> 1]

Facade(repo, checkout, over) == [repo |-> repo, checkout |-> checkout, over |-> over]

\* Map.set and INSERT; Map.delete and DELETE
With(f, x, value) == [y \in DOMAIN f \cup {x} |-> IF y = x THEN value ELSE f[y]]
Without(f, S) == [x \in DOMAIN f \ S |-> f[x]]

\* openShared: the store that is cached for the repository, or a new one
OpenShared(m, repo) ==
  IF repo \in DOMAIN m.shared THEN m
  ELSE [m EXCEPT !.shared = With(@, repo, m.nextStore),
                 !.live = With(@, m.nextStore, Facade(repo, 0, 0)),
                 !.nextStore = @ + 1]

\* a CheckoutStore over the shared store, cached under its checkout
InstallStore(m, checkout, repo) ==
  [m EXCEPT !.stores = With(@, checkout, m.nextStore),
            !.live = With(@, m.nextStore, Facade(repo, checkout, m.shared[repo])),
            !.nextStore = @ + 1]

\* openCheckout, once the row has been found and belongs to a ready repository
OpenStore(m, checkout, repo) ==
  IF checkout \in DOMAIN m.stores THEN m
  ELSE InstallStore(OpenShared(m, repo), checkout, repo)

RememberCheckout(m, checkout, repo, replaceIdentity) ==
  IF checkout \in DOMAIN m.identities /\ ~replaceIdentity THEN m
  ELSE [m EXCEPT !.identities = With(@, checkout, [repo |-> repo, generation |-> m.nextRow]),
                 !.nextRow = @ + 1]

\* rememberCheckout of the rows of a listing, in the order of their ids
RememberCheckouts(m, S, repo) ==
  LET new == S \ DOMAIN m.identities
      Row(c) == [repo |-> repo, generation |-> m.nextRow + Cardinality({d \in new : d < c})]
  IN [m EXCEPT !.identities = [c \in DOMAIN @ \cup S |-> IF c \in new THEN Row(c) ELSE @[c]],
               !.nextRow = @ + Cardinality(new)]

\* evictCheckout of every checkout of a set
EvictCheckouts(m, S) ==
  [m EXCEPT !.live = Without(@, {m.stores[c] : c \in S \cap DOMAIN m.stores}),
            !.stores = Without(@, S),
            !.identities = Without(@, S)]

ProvisionalStore(m, repo, checkout) ==
  IF repo \in DOMAIN m.provisional THEN m
  ELSE [m EXCEPT !.provisional = With(@, repo, [checkout |-> checkout, store |-> m.nextStore]),
                 !.live = With(@, m.nextStore, Facade(repo, checkout, 0)),
                 !.nextStore = @ + 1]

EvictProvisional(m, repo) ==
  IF repo \notin DOMAIN m.provisional THEN m
  ELSE [m EXCEPT !.live = Without(@, {m.provisional[repo].store}),
                 !.provisional = Without(@, {repo})]

DestroyedMemoryKeepingStores(m, repo) ==
  [m EXCEPT !.shared = Without(@, {repo}),
            !.live = Without(@, {m.shared[r] : r \in {repo} \cap DOMAIN m.shared})]
DestroyedMemory(m, repo) ==
  LET gone == {c \in DOMAIN m.identities : m.identities[c].repo = repo}
              \cup {c \in DOMAIN m.stores : m.live[m.stores[c]].repo = repo}
  IN EvictCheckouts([m EXCEPT !.shared = Without(@, {repo}),
                              !.live = Without(@, {m.shared[r] : r \in {repo} \cap DOMAIN m.shared})],
                    gone)

-----------------------------------------------------------------------------
(* Reading the tables. *)

CheckoutsOf(repo) == {c \in DOMAIN checkouts : checkouts[c].repo = repo}
PrimariesOf(repo) == {c \in CheckoutsOf(repo) : checkouts[c].primary}
CheckoutsAt(root) == {c \in DOMAIN checkouts : checkouts[c].root = root}
Lifecycle(c) == repositories[checkouts[c].repo].lifecycle
Ready(repo) == repo \in DOMAIN repositories /\ repositories[repo].lifecycle = "ready"

\* requireCheckoutLifecycleCardinality, which every read of a checkout row makes:
\* a count of one, or of none
One(S) == \E x \in S : S = {x}
CardinalityHolds(repo) ==
  /\ IF repositories[repo].kind = "workspace" THEN One(PrimariesOf(repo)) ELSE PrimariesOf(repo) = {}
  /\ repositories[repo].lifecycle = "provisional" => One(CheckoutsOf(repo))

\* AUTOINCREMENT never reuses a committed id
NextId(id, table) == id + 1

InsertedRepository(rows, id, kind, lifecycle, expires) ==
  With(rows, id, [kind |-> kind, lifecycle |-> lifecycle, expires |-> expires, content |-> "empty"])
InsertedCheckout(rows, id, repo, root, primary) ==
  With(rows, id, [repo |-> repo, root |-> root, primary |-> primary])

NextRepository == NextId(sequence.repo, repositories)
NextCheckout == NextId(sequence.checkout, checkouts)

RowOf(m, c) == [checkout |-> c, repo |-> checkouts[c].repo, root |-> checkouts[c].root,
                primary |-> checkouts[c].primary, generation |-> m.identities[c].generation]

\* rejectStaleCheckoutRow
StaleRow(row) ==
  \/ row.checkout \notin DOMAIN memory.identities
  \/ memory.identities[row.checkout].generation # row.generation

-----------------------------------------------------------------------------
(* The operations. *)

RegistryInit ==
  /\ repositories = Nothing /\ checkouts = Nothing
  /\ sequence = [repo |-> 0, checkout |-> 0]
  /\ clock = 0
  /\ memory = EmptyMemory
  /\ held = NoRow

CreateBareRepository ==
  /\ NextRepository <= MaxRepository
  /\ repositories' = InsertedRepository(repositories, NextRepository, "bare", "ready", 0)
  /\ sequence' = [sequence EXCEPT !.repo = NextRepository]
  /\ UNCHANGED << checkouts, clock, memory, held >>

\* initRepository: the row is remembered and its store is opened at once
CreateRepository(root) ==
  /\ CheckoutsAt(root) = {}
  /\ NextRepository <= MaxRepository /\ NextCheckout <= MaxCheckout
  /\ repositories' = InsertedRepository(repositories, NextRepository, "workspace", "ready", 0)
  /\ checkouts' = InsertedCheckout(checkouts, NextCheckout, NextRepository, root, TRUE)
  /\ sequence' = [repo |-> NextRepository, checkout |-> NextCheckout]
  /\ memory' = OpenStore(RememberCheckout(memory, NextCheckout, NextRepository, TRUE),
                         NextCheckout, NextRepository)
  /\ UNCHANGED << clock, held >>

CreateCheckout(repo, root) ==
  /\ Ready(repo)
  /\ CheckoutsAt(root) = {}
  /\ NextCheckout <= MaxCheckout
  /\ checkouts' = InsertedCheckout(checkouts, NextCheckout, repo, root, FALSE)
  /\ sequence' = [sequence EXCEPT !.checkout = NextCheckout]
  /\ memory' = InstallStore(RememberCheckout(OpenShared(memory, repo), NextCheckout, repo, TRUE),
                            NextCheckout, repo)
  /\ UNCHANGED << repositories, clock, held >>

\* worktreeRemove: the row is looked up and opened, then removed
RemoveCheckout(c) ==
  /\ Lifecycle(c) = "ready" /\ ~checkouts[c].primary
  /\ checkouts' = Without(checkouts, {c})
  /\ memory' = EvictCheckouts(OpenStore(RememberCheckout(memory, c, checkouts[c].repo, FALSE),
                                        c, checkouts[c].repo), {c})
  /\ UNCHANGED << repositories, sequence, clock, held >>

\* worktreePrune of the checkouts of a set whose roots are missing
RemoveCheckouts(repo, S) ==
  /\ Ready(repo)
  /\ S # {} /\ S \subseteq CheckoutsOf(repo) \ PrimariesOf(repo)
  /\ checkouts' = Without(checkouts, S)
  /\ memory' = EvictCheckouts(OpenShared(RememberCheckouts(memory, CheckoutsOf(repo), repo), repo), S)
  /\ UNCHANGED << repositories, sequence, clock, held >>

DestroyRepository(repo) ==
  /\ Ready(repo)
  /\ repositories' = Without(repositories, {repo})
  /\ checkouts' = Without(checkouts, CheckoutsOf(repo))
  /\ memory' = DestroyedMemory(memory, repo)
  /\ UNCHANGED << sequence, clock, held >>

\* findCheckout, checkoutAt and the listings: listCheckouts also answers for a
\* repository that is still provisional, the others do not
LookUp(c) ==
  /\ memory' = RememberCheckout(memory, c, checkouts[c].repo, FALSE)
  /\ held' = RowOf(memory', c)
  /\ UNCHANGED << tables, clock >>

\* openCheckout of the kept row
OpenCheckout ==
  /\ held # NoRow /\ ~StaleRow(held)
  /\ held.checkout \in DOMAIN checkouts /\ Lifecycle(held.checkout) = "ready"
  /\ memory' = OpenStore(memory, held.checkout, checkouts[held.checkout].repo)
  /\ UNCHANGED << tables, clock, held >>

\* The isolate is replaced: a new database object over the same tables.
RestartRegistry ==
  /\ memory' = EmptyMemory /\ held' = NoRow
  /\ UNCHANGED << tables, clock >>

RegistryNext ==
  \/ CreateBareRepository
  \/ \E root \in Roots : CreateRepository(root)
  \/ \E repo \in DOMAIN repositories, root \in Roots : CreateCheckout(repo, root)
  \/ \E c \in DOMAIN checkouts : RemoveCheckout(c) \/ LookUp(c)
  \/ \E repo \in DOMAIN repositories :
       \/ DestroyRepository(repo)
       \/ \E S \in SUBSET CheckoutsOf(repo) : RemoveCheckouts(repo, S)
  \/ OpenCheckout

-----------------------------------------------------------------------------
(* Properties. *)

\* A store object that still works names rows that still exist: whoever removes
\* a checkout or a repository revokes every facade over it. No two checkouts share
\* a root, every repository has the primary checkouts its kind needs, and a row
\* that a caller kept and that is not stale is the row that is stored, even when
\* its id or root was given away and used again.
RegistryIntact ==
  /\ \A f \in DOMAIN memory.live : LET facade == memory.live[f] IN
       /\ facade.repo \in DOMAIN repositories
       /\ facade.checkout # 0 => /\ facade.checkout \in DOMAIN checkouts
                                 /\ checkouts[facade.checkout].repo = facade.repo
       /\ facade.over # 0 => facade.over \in DOMAIN memory.live
  /\ \A c, d \in DOMAIN checkouts : checkouts[c].root = checkouts[d].root => c = d
  /\ \A repo \in DOMAIN repositories : CardinalityHolds(repo)
  /\ held # NoRow /\ ~StaleRow(held) /\ held.checkout \in DOMAIN checkouts
       => /\ checkouts[held.checkout].repo = held.repo
          /\ checkouts[held.checkout].root = held.root
          /\ checkouts[held.checkout].primary = held.primary
=============================================================================
