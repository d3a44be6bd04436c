------------------------------ MODULE Checkout ------------------------------
(***************************************************************************)
(* Moving a checkout to another tree: the guard that refuses to overwrite   *)
(* work, the full, sparse and initial checkouts, hard reset, fast-forward   *)
(* merges and branch moves (packages/git/src/ops/checkout, ops/refs/refs.ts,*)
(* ops/refs/refs-checkout-guard.ts, ops/merge/merge.ts).                    *)
(***************************************************************************)
EXTENDS Workspace

CONSTANTS
  ModeOf,               \* the mode of an identity: "file", "exec", "link" or "commit"
  SPARSE_CHECKOUT_PATHS \* the changes a sparse checkout takes at most

-----------------------------------------------------------------------------
(* The guard: the rows of target, HEAD, index and working tree in path      *)
(* order.                                                                   *)

Covers(target, p) == target[p] # None

\* an untracked file in the place of a directory the target needs; the first
\* selected path below it that changes is the one that meets it
MeetsAncestor(target, selected, prune, p) ==
  {a \in Ancestors[p] :
     /\ File(a) /\ ~Blob(index[a])
     /\ target[a] = None
     /\ \A q \in (Below[a] \cap selected) \ {p} :
          Before[q, p] => ~(IF Blob(index[q]) THEN (Covers(target, q) \/ prune) /\ index[q] # target[q]
                            ELSE Covers(target, q))}

\* an untracked file below a path the checkout writes as a file
HoldsUntracked(p) == \E q \in Below[p] : File(q) /\ ~Blob(index[q]) /\ ~Ignored(q)

checkoutBlockers(baseline, target, selected, prune) ==
  {p \in selected :
     LET ancestors == MeetsAncestor(target, selected, prune, p)
         missing == ~File(p) /\ HoldsUntracked(p)
     IN IF ~Blob(index[p])
        THEN /\ Covers(target, p)
             /\ IF ancestors # {} THEN \E a \in ancestors : ~Ignored(a)
                ELSE IF File(p) THEN ~Ignored(p) ELSE missing
        ELSE /\ Covers(target, p) \/ prune
             /\ index[p] # target[p]
             /\ \/ ancestors # {}
                \/ index[p] # baseline[p]
                \/ IF File(p) THEN worktree[p] # index[p] ELSE missing}

-----------------------------------------------------------------------------
(* The full checkout.                                                       *)

\* leaves of the working tree the target has no entry for
Leaves(w, target) == {q \in Paths : Blob(w[q]) /\ target[q] = None}

\* directories in the way are removed, files above a written path are not
ConflictsBelowOnly(w, target, written) == {p \in written : w[p] = Dir}

\* what the working tree has at a path is not of the type the target writes
EntryType(v) == IF v = Dir THEN "dir" ELSE IF ModeOf[v] = "link" THEN "symlink" ELSE "file"

restoreStructuralConflicts(w, target, written) ==
  {p \in written : w[p] # None /\ EntryType(w[p]) # EntryType(target[p])}
    \cup {a \in Leaves(w, target) : \E p \in written : a \in Ancestors[p] /\ w[p] = None}

\* tracked paths the target lacks whose file is already gone or replaced
Replaced(w, target, absent) ==
  {p \in absent : w[p] = Dir \/ Ancestors[p] \cap Leaves(w, target) # {}}

\* the directories above removed paths that hold nothing else
PrunedDirectories(w, removed) ==
  LET above == UNION {Ancestors[p] : p \in removed}
  IN {d \in above : \A q \in Below[d] : w[q] = None \/ (w[q] = Dir /\ q \in above)}
       \ {d \in above : Blob(w[d])}

\* the index and working tree after checking target out over i and w
checkoutTreeInternal(i, w, target, selected, options) ==
  LET dropped == IF options.discardUnmerged THEN {p \in selected : i[p] = Unmerged} ELSE {}
      i0 == Without(i, dropped)
      w0 == Without(w, {p \in dropped : Blob(w[p])})
      written == {p \in selected : target[p] # None /\ ~(options.preserve /\ i0[p] = target[p])}
      absent == IF options.prune THEN {p \in selected : target[p] = None /\ Blob(i0[p])} ELSE {}
      w1 == Remove(w0, restoreStructuralConflicts(w0, target, written))
      removed == absent \ Replaced(w0, target, absent)
      w2 == Without(w1, removed)
      w3 == Remove(w2, PrunedDirectories(w2, absent))
      files == [p \in {q \in written : ~(i0[q] = target[q] /\ w3[q] = target[q])} |-> target[p]]
  IN [ok |-> /\ \A p \in removed : Removable(w1, p)
             /\ \A d \in PrunedDirectories(w2, absent) : \A a \in Ancestors[d] : ~Blob(w2[a])
             /\ Writable(w3, files),
      index |-> files @@ Without(i0, absent),
      worktree |-> Write(w3, files),
      written |-> DOMAIN files]

\* checkout of paths: HEAD stays and nothing is pruned
CheckoutPaths(target, p, force) ==
  LET result == checkoutTreeInternal(index, worktree, target, Within[p],
                  [prune |-> FALSE, preserve |-> FALSE, discardUnmerged |-> FALSE])
  IN /\ ~operation
     /\ \E q \in Within[p] : target[q] # None
     /\ force \/ checkoutBlockers(head, target, Within[p], FALSE) = {}
     /\ result.ok
     /\ Store(result.index, result.worktree, result.written, result.written)
     /\ UNCHANGED <<head, ignoring, operation>>

HardReset(target) ==
  checkoutTreeInternal(index, worktree, target, Paths,
    [prune |-> TRUE, preserve |-> FALSE, discardUnmerged |-> TRUE])

ResetHard(target) ==
  LET result == HardReset(target)
  IN /\ result.ok
     /\ Store(result.index, result.worktree, result.written, result.written)
     /\ head' = target
     /\ operation' = FALSE
     /\ UNCHANGED ignoring

-----------------------------------------------------------------------------
(* The checkouts that leave a complete tracker with nothing dirty.          *)

InitialCheckout == \A p \in Paths : worktree[p] = None /\ index[p] = None

trackerProvesClean ==
  tracker.complete /\ tracker.baseline = head /\ DirtyPaths = {} /\ Conflicts = {}

\* the tracker proves the checkout clean, and each changed path is what HEAD says
SparseClean(target) ==
  /\ trackerProvesClean
  /\ Cardinality(Changed(head, target)) <= SPARSE_CHECKOUT_PATHS
  /\ \A p \in Changed(head, target) : head[p] # None => worktree[p] = head[p]

checkoutSparseChanges(target) ==
  LET changed == Changed(head, target)
      roots == {p \in changed : target[p] # None /\ worktree[p] = Dir}
      removals == {p \in changed : head[p] # None /\ target[p] = None /\ Ancestors[p] \cap roots = {}}
      w1 == Remove(worktree, roots)
      w2 == Without(w1, removals)
      above == UNION {Ancestors[p] : p \in removals \cup roots}
      w3 == Remove(w2, {d \in above : w2[d] = Dir
                          /\ \A q \in Below[d] : w2[q] = None \/ (w2[q] = Dir /\ q \in above)})
      files == [p \in {q \in changed : target[q] # None} |-> target[p]]
  IN [ok |-> Writable(w3, files) /\ \A p \in removals : Removable(w1, p),
      index |-> [p \in changed |-> target[p]] @@ index,
      worktree |-> Write(w3, files),
      written |-> DOMAIN files]

Initial(target) ==
  [ok |-> TRUE, index |-> target,
   worktree |-> Write(worktree, [p \in {q \in Paths : target[q] # None} |-> target[p]])]

\* a checkout that does not consult the guard
CheckoutUnguarded(target, force) ==
  IF InitialCheckout THEN Initial(target) @@ [sealed |-> TRUE, allowed |-> TRUE]
  ELSE IF SparseClean(target) THEN checkoutSparseChanges(target) @@ [sealed |-> TRUE, allowed |-> TRUE]
  ELSE checkoutTreeInternal(index, worktree, target, Paths,
           [prune |-> TRUE, preserve |-> ~force, discardUnmerged |-> FALSE])
         @@ [sealed |-> FALSE, allowed |-> TRUE]

\* initial and sparse checkouts reseal the tracker; the full one leaves it to the triggers
checkoutInternal(target, force) ==
  IF InitialCheckout THEN Initial(target) @@ [sealed |-> TRUE, allowed |-> TRUE]
  ELSE IF SparseClean(target) THEN checkoutSparseChanges(target) @@ [sealed |-> TRUE, allowed |-> TRUE]
  ELSE checkoutTreeInternal(index, worktree, target, Paths,
           [prune |-> TRUE, preserve |-> ~force, discardUnmerged |-> FALSE])
         @@ [sealed |-> FALSE, allowed |-> force \/ checkoutBlockers(head, target, Paths, TRUE) = {}]

Checkout(target, force) ==
  LET result == checkoutInternal(target, force)
  IN /\ ~operation /\ result.allowed /\ result.ok
     /\ IF result.sealed
        THEN /\ index' = result.index /\ worktree' = result.worktree
             /\ tracker' = resealIndexTracker(target, [p \in Paths |-> {}])
        ELSE Store(result.index, result.worktree, result.written, result.written)
     /\ head' = target
     /\ UNCHANGED <<ignoring, operation>>

-----------------------------------------------------------------------------
(* Branches move.                                                           *)

\* branch --force of the checked-out branch, update-ref and recover-ref
MoveBranch(target) ==
  /\ ~operation
  /\ head' = target
  /\ UNCHANGED <<index, worktree, ignoring, tracker, operation>>

\* what a merge writes is planned from two trees; only planned paths are guarded
MergeAllowed(changed, target) ==
  /\ ~operation /\ Conflicts = {}
  /\ checkoutBlockers(head, target, UNION {Within[p] : p \in changed}, TRUE) = {}
  /\ \A p \in changed : \A q \in Below[p] :
       worktree[q] # None /\ q \notin changed /\ ~(\E c \in changed : q \in Ancestors[c])
         => index[q] = None /\ Ignored(q)

Integrated(changed, target) ==
  LET files == [p \in {q \in changed : target[q] # None} |-> target[p]]
      gone == {p \in changed : target[p] = None \/ worktree[p] = Dir}
                \cup {a \in Paths : File(a) /\ Below[a] \cap DOMAIN files # {}}
  IN Write(Remove(worktree, gone), files)

\* the index rows of the planned paths and of every path above one are replaced
IntegratedIndex(changed, target) ==
  [p \in Paths |-> IF p \in changed THEN target[p]
                   ELSE IF Below[p] \cap changed # {} THEN None ELSE index[p]]

FastForward(target) ==
  LET changed == Changed(head, target)
      i == IntegratedIndex(changed, target)
      w == Integrated(changed, target)
  IN /\ changed # {} /\ MergeAllowed(changed, target)
     /\ index' = i /\ worktree' = w /\ head' = target
     /\ tracker' = advanceIndexTrackerBaseline(
          Journalled([index |-> index, worktree |-> worktree], [index |-> i, worktree |-> w],
                     changed, {p \in changed : target[p] # None}), target)
     /\ UNCHANGED <<ignoring, operation>>

\* a merge that stops at a conflict: the index was that of HEAD and one path is unmerged
StopMerge(p, id) ==
  /\ index = head /\ index[p] # None /\ worktree[p] = index[p]
  /\ MergeAllowed({p}, [head EXCEPT ![p] = id])
  /\ Store([index EXCEPT ![p] = Unmerged], [worktree EXCEPT ![p] = id], {p}, {p})
  /\ operation' = TRUE
  /\ UNCHANGED <<head, ignoring>>

-----------------------------------------------------------------------------
WorkspaceInit ==
  /\ head = EmptyTree /\ index = EmptyTree /\ worktree = EmptyTree
  /\ ignoring \in BOOLEAN /\ operation = FALSE /\ tracker = Incomplete

\* the calls of a behaviour: what is written, the trees of the branches, the paths named
Programs(play) ==
  \/ \E e \in play.edits : Edit(e[1], e[2])
  \/ \E p \in play.named : Mkdir(p) \/ Unlink(p)
  \/ EditIgnore
  \/ invalidateIndexTracker

Stagings(play) ==
  \/ \E only \in BOOLEAN : AddAll(only)
  \/ \E p \in play.named, force \in BOOLEAN : AddPath(p, force)
  \/ \E p \in play.named, cached, force \in BOOLEAN : Rm(p, cached, force)
  \/ \E t \in play.branches : ResetMixed(t) \/ \E p \in play.named : ResetPath(t, p)

Moves(play) ==
  \/ \E t \in play.branches, force \in BOOLEAN : Checkout(t, force)
  \/ \E t \in play.branches, p \in play.named, force \in BOOLEAN : CheckoutPaths(t, p, force)
  \/ \E t \in play.branches : ResetHard(t) \/ MoveBranch(t)
  \/ \E e \in play.edits : StopMerge(e[1], e[2])

WorkspaceSteps(play) ==
  \/ Programs(play) \/ Stagings(play) \/ Moves(play)
  \/ Status
  \/ \E directories \in BOOLEAN : Clean(directories)

-----------------------------------------------------------------------------
(* What the tracker's shortcuts rest on, and the paths they are lost for: a   *)
(* fast-forward and a commit set the baseline without a look at the rows the  *)
(* journal does not list.                                                     *)

\* the paths where the branch was moved under the tracker
MovedRows == {p \in Paths : tracker.baseline[p] # head[p]}

\* the rows the journal does not list, above or below a path whose row it lists:
\* the index held a file above another, and a sparse build drops one of them
ShadowedRows ==
  {p \in Paths \ SnapshotDirty(tracker) :
     index[p] # None /\ (Ancestors[p] \cup Below[p]) \cap SnapshotDirty(tracker) # {}}

\* what the journal does not list is clean: the row is the baseline's, the file the row's
CleanUnlessDirty(p) ==
  /\ "index" \notin tracker.dirty[p] => index[p] = tracker.baseline[p]
  /\ "worktree" \notin tracker.dirty[p] =>
       IF index[p] = None THEN ~File(p) ELSE worktree[p] = index[p]

SparseAgrees ==
  /\ tracker.complete =>
       /\ fullStatus = {r \in sparseStatus : r.worktree = "?" /\ ~File(r.path) => head[r.path] = None}
       /\ \A only \in BOOLEAN : Added(sparseCandidatePaths, only, FALSE) = Added(Paths, only, FALSE)
  /\ SparseCommit(tracker) /\ Conflicts = {} /\ ~FileAboveFile(tracker, index) /\ ShadowedRows = {}
       => planSparseTreeBuild(tracker, index) = index
  /\ \A t \in Branches : SparseClean(t) /\ ~operation =>
       LET sparse == checkoutSparseChanges(t)
           full == checkoutTreeInternal(index, worktree, t, Paths,
                     [prune |-> TRUE, preserve |-> TRUE, discardUnmerged |-> FALSE])
       IN /\ checkoutBlockers(head, t, Paths, TRUE) = {}
          /\ sparse.ok /\ full.ok
          /\ sparse.index = full.index /\ sparse.worktree = full.worktree

\* work: a file whose content neither HEAD nor the index has
Work == {p \in Paths : File(p) /\ ~Ignored(p) /\ ~(worktree[p] = index[p] /\ index[p] = head[p])}

CheckoutKeeps(t) ==
  LET result == checkoutInternal(t, FALSE)
  IN result.allowed /\ result.ok =>
       /\ \A p \in Work : result.worktree[p] = worktree[p]
       /\ \A p \in Changed(head, t) : result.index[p] = t[p]

FastForwardKeeps(t) ==
  LET changed == Changed(head, t)
  IN MergeAllowed(changed, t) =>
       \A p \in Work : index[p] # t[p] /\ Below[p] \cap changed = {} => Integrated(changed, t)[p] = worktree[p]

\* a file stands, and stays, in place of a directory that held a tracked path
\* the target lacks: removing the path, or the directory it was in, is ENOTDIR
HardResetFails(t) ==
  \E p \in Paths : Blob(index[p]) /\ t[p] = None /\ \E a \in Ancestors[p] :
    /\ File(a) /\ index[a] # Unmerged
    /\ IF t[a] # None THEN EntryType(t[a]) = EntryType(worktree[a])
       ELSE /\ index[a] = None /\ \A q \in Below[a] : t[q] = None
            /\ \E b \in Ancestors[p] : a \in Ancestors[b]

\* A hard reset fails in the states HardResetFails describes and in no other
\* (docs/backlog/108 has its second case). Where it does not fail it leaves the
\* index and every tracked file as the target has them, and keeps untracked
\* files that are not in their way.
HardResetExact ==
  \A t \in Branches :
    LET result == HardReset(t)
    IN /\ result.ok <=> ~HardResetFails(t)
       /\ result.ok =>
            /\ result.index = t
            /\ \A p \in Paths :
                 /\ t[p] # None => result.worktree[p] = t[p]
                 /\ Untracked(p) /\ (\A q \in {p} \cup Ancestors[p] \cup Below[p] : t[q] = None)
                      => result.worktree[p] = worktree[p]

\* Clean removes no tracked and no ignored file, even when it fails half way,
\* and rm that is not forced removes no file that is not as HEAD has it, but for
\* an unmerged one and a file in place of a directory a removed path was in.
RemovalsKeepWork ==
  /\ Conflicts = {} => \A d \in BOOLEAN : \A p \in Paths :
       File(p) /\ (index[p] # None \/ Ignored(p)) => Cleaned(d)[p] = worktree[p]
  /\ \A p \in Paths :
       LET outcome == rmOutcome(p, FALSE, FALSE)
       IN outcome.allowed => \A q \in Paths :
            File(q) /\ index[q] # Unmerged /\ outcome.worktree[q] # worktree[q]
              => worktree[q] = head[q] \/ \E r \in Below[q] \cap Within[p] : index[r] # None
=============================================================================
