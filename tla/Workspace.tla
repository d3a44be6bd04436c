----------------------------- MODULE Workspace -----------------------------
(***************************************************************************)
(* One checkout: the tree of HEAD, the index, the working tree, and the     *)
(* index tracker that database triggers keep, which lets status, add and    *)
(* commit look only at the paths it lists (packages/git/src/do-fs/indexes,  *)
(* ops/status, ops/staging, ops/repository/commit.ts).                      *)
(*                                                                         *)
(* A path is the sequence of its components.  An identity stands for a mode *)
(* and a blob.  The stat data an index row caches is left out: a row        *)
(* matches a file exactly when their identities agree.                      *)
(***************************************************************************)
EXTENDS Naturals, Sequences, FiniteSets, TLC

CONSTANTS
  PathOrder,  \* the paths of the model in path order, each after its parent
  Ids,        \* identities
  Branches,   \* the trees of the other branches
  Ignorable   \* the paths an ignore file names

VARIABLES
  head,       \* the tree of HEAD
  index,      \* stage 0 identity, Unmerged or None
  worktree,   \* file identity, Dir or None
  ignoring,   \* whether the ignore file is there
  tracker,    \* the tracker row and its dirty journal
  operation   \* whether an operation journal is active

workspaceVars == <<head, index, worktree, ignoring, tracker, operation>>

None == "none"
Dir == "dir"
Unmerged == "unmerged"
Flags == {"index", "worktree"}

Paths == {PathOrder[i] : i \in DOMAIN PathOrder}
Ancestors == [p \in Paths |-> {SubSeq(p, 1, n) : n \in 1..(Len(p) - 1)}]
Below == [p \in Paths |-> {q \in Paths : p \in Ancestors[q]}]
Within == [p \in Paths |-> {p} \cup Below[p]]
Before == [p, q \in Paths |-> \E i, j \in DOMAIN PathOrder : i < j /\ PathOrder[i] = p /\ PathOrder[j] = q]
EmptyTree == [p \in Paths |-> None]

\* entries that can be a tree: nothing below a blob
Layout(t) == \A p \in Paths : t[p] # None => \A a \in Ancestors[p] : t[a] = None
Trees == {t \in [Paths -> Ids \cup {None}] : Layout(t)}

\* an identity: neither nothing nor a directory nor unmerged stages
Blob(v) == v \notin {None, Dir, Unmerged}
File(p) == Blob(worktree[p])
Ignored(p) == ignoring /\ (({p} \cup Ancestors[p]) \cap Ignorable # {})
Untracked(p) == File(p) /\ index[p] = None
Conflicts == {p \in Paths : index[p] = Unmerged}

-----------------------------------------------------------------------------
(* The file system the working tree is kept in. *)

Without(w, paths) == [p \in paths |-> None] @@ w
Remove(w, roots) == Without(w, UNION {Within[r] : r \in roots})

\* missing parents are created
Write(w, files) ==
  files @@ [p \in UNION {Ancestors[q] : q \in DOMAIN files} |-> Dir] @@ w

\* neither ENOTDIR nor EISDIR
Writable(w, files) ==
  \A p \in DOMAIN files : w[p] # Dir /\ \A a \in Ancestors[p] : ~Blob(w[a])

Empty(w, p) == \A q \in Below[p] : w[q] = None

\* neither ENOTEMPTY nor ENOTDIR; a missing path is removed without an error
Removable(w, p) == Empty(w, p) /\ \A a \in Ancestors[p] : ~Blob(w[a])
Changed(before, after) == {p \in Paths : before[p] # after[p]}

-----------------------------------------------------------------------------
(* The tracker. *)

Incomplete == [complete |-> FALSE, baseline |-> EmptyTree, dirty |-> [p \in Paths |-> {}]]
DirtyPaths == {p \in Paths : tracker.dirty[p] # {}}

resealIndexTracker(tree, seed) == [complete |-> TRUE, baseline |-> tree, dirty |-> seed]
advanceIndexTrackerBaseline(t, tree) == IF t.complete THEN [t EXCEPT !.baseline = tree] ELSE t

\* a trigger that misses the deletion of an index row
JournalledWithoutDeletes(before, after, rows, written) ==
  IF ~tracker.complete THEN tracker
  ELSE LET indexed == {p \in Changed(before.index, after.index) \cup rows : after.index[p] # None}
           touched == indexed \cup Changed(before.worktree, after.worktree) \cup written
       IN [tracker EXCEPT !.dirty = [p \in Paths |->
             @[p] \cup {f \in Flags : p \in indexed \/ (f = "worktree" /\ p \in touched)}]]

\* rows: index rows written; written: files written; both whether or not they changed
Journalled(before, after, rows, written) ==
  IF ~tracker.complete THEN tracker
  ELSE LET indexed == Changed(before.index, after.index) \cup rows
           touched == indexed \cup Changed(before.worktree, after.worktree) \cup written
       IN [tracker EXCEPT !.dirty = [p \in Paths |->
             @[p] \cup {f \in Flags : p \in indexed \/ (f = "worktree" /\ p \in touched)}]]

Store(i, w, rows, written) ==
  /\ index' = i
  /\ worktree' = w
  /\ tracker' = Journalled([index |-> index, worktree |-> worktree],
                           [index |-> i, worktree |-> w], rows, written)

-----------------------------------------------------------------------------
(* Programs change the working tree through the file system. *)

Edit(p, id) ==
  /\ Writable(worktree, p :> id)
  /\ Store(index, Write(worktree, p :> id), {}, {p})
  /\ UNCHANGED <<head, ignoring, operation>>

Mkdir(p) ==
  /\ worktree[p] = None
  /\ \A a \in Ancestors[p] : ~Blob(worktree[a])
  /\ Store(index, Write(worktree, p :> Dir), {}, {})
  /\ UNCHANGED <<head, ignoring, operation>>

Unlink(p) ==
  /\ worktree[p] # None
  /\ Store(index, Remove(worktree, {p}), {}, {})
  /\ UNCHANGED <<head, ignoring, operation>>

\* writing or removing .gitignore makes the tracker incomplete
EditIgnore ==
  /\ ignoring' = ~ignoring
  /\ tracker' = Incomplete
  /\ UNCHANGED <<head, index, worktree, operation>>

\* replaced triggers, a checkout registered below the root, an unrepresentable path
invalidateIndexTracker ==
  /\ tracker' = Incomplete
  /\ UNCHANGED <<head, index, worktree, ignoring, operation>>

-----------------------------------------------------------------------------
(* Status. *)

sparseCandidatePaths == DirtyPaths \cup {p \in Paths : tracker.baseline[p] # head[p]}

DirtyOf(p) ==
  {f \in Flags :
     \/ index[p] = Unmerged
     \/ f = "index" /\ index[p] # head[p]
     \/ f = "worktree" /\ (IF index[p] = None THEN File(p) ELSE worktree[p] # index[p])}

Seed(candidates) == [p \in Paths |-> IF p \in candidates THEN DirtyOf(p) ELSE {}]

Staged(p) ==
  CASE head[p] = None /\ index[p] = None -> " "
    [] head[p] = None /\ index[p] # None -> "A"
    [] head[p] # None /\ index[p] = None -> "D"
    [] OTHER -> IF head[p] = index[p] THEN " " ELSE "M"
WorktreeCode(p) ==
  CASE index[p] = None -> " "
    [] index[p] # None /\ ~File(p) -> "D"
    [] OTHER -> IF worktree[p] = index[p] THEN " " ELSE "M"
TrackedRow(p) ==
  IF index[p] = Unmerged THEN [path |-> p, index |-> "U", worktree |-> "U"]
  ELSE [path |-> p, index |-> Staged(p), worktree |-> WorktreeCode(p)]
Blank(row) == row.index = " " /\ row.worktree = " "

\* the ancestors, shallowest first, that hold no index path
Collapsible(p) == {a \in Ancestors[p] : \A q \in Below[a] : index[q] = None}
Collapsed(p) ==
  IF Collapsible(p) = {} THEN p
  ELSE CHOOSE a \in Collapsible(p) : \A b \in Collapsible(p) : Len(a) <= Len(b)

UntrackedRows(candidates, tracked) ==
  {[path |-> Collapsed(p), index |-> " ", worktree |-> "?"] :
     p \in {q \in candidates : Untracked(q) /\ ~Ignored(q) /\ (Collapsed(q) # q => ~tracked[Collapsed(q)])}}

TrackedRows(candidates) == {r \in {TrackedRow(p) : p \in candidates} : ~Blank(r)}

sparseStatus ==
  TrackedRows(sparseCandidatePaths)
    \cup UntrackedRows(sparseCandidatePaths, [p \in Paths |-> index[p] # None])
fullStatus ==
  TrackedRows(Paths) \cup UntrackedRows(Paths, [p \in Paths |-> index[p] # None \/ head[p] # None])

Status ==
  /\ tracker' =
       IF ~tracker.complete THEN resealIndexTracker(head, Seed(Paths))
       ELSE IF sparseCandidatePaths = {} THEN tracker
       ELSE resealIndexTracker(head, Seed(sparseCandidatePaths))
  /\ UNCHANGED <<head, index, worktree, ignoring, operation>>
-----------------------------------------------------------------------------
(* Staging. *)

\* the index after an add that looks at candidates
Added(candidates, trackedOnly, force) ==
  [p \in Paths |->
     IF p \notin candidates \/ (trackedOnly /\ head[p] = None) THEN index[p]
     ELSE IF ~File(p) THEN None
     ELSE IF index[p] = None /\ Ignored(p) /\ ~force THEN None
     ELSE worktree[p]]

AddAll(trackedOnly) ==
  /\ Store(Added(IF tracker.complete THEN sparseCandidatePaths ELSE Paths, trackedOnly, FALSE),
           worktree, {}, {})
  /\ UNCHANGED <<head, ignoring, operation>>

AddPath(p, force) ==
  /\ \E q \in Within[p] : File(q) \/ index[q] # None
  /\ Store(Added(Within[p], FALSE, force), worktree, {}, {})
  /\ UNCHANGED <<head, ignoring, operation>>

rmCandidateUnsafe(p, cached) ==
  /\ index[p] # Unmerged
  /\ worktree[p] # None
  /\ IF cached THEN index[p] # head[p] /\ worktree[p] # index[p]
     ELSE index[p] # head[p] \/ worktree[p] # index[p]

\* the directories above the removed paths that keep no entry: a surviving entry
\* blocks the directories above it, not itself, even when it is a file
prunedRmDirectories(selected) ==
  LET above == UNION {Ancestors[p] : p \in selected}
      survives(q) == worktree[q] # None /\ ~(q \in selected /\ File(q)) /\ ~(worktree[q] = Dir /\ q \in above)
  IN {d \in above : \A q \in Below[d] : ~survives(q)}

rmOutcome(p, cached, force) ==
  LET selected == {q \in Within[p] : index[q] # None}
      gone == {q \in selected : worktree[q] # None}
      left == Without(worktree, gone)
  IN [allowed |->
        /\ selected # {}
        /\ ~(p \in selected /\ worktree[p] = Dir)                       \* EISDIR
        /\ \A q \in selected : force \/ ~rmCandidateUnsafe(q, cached)   \* EUNSAFEREMOVE
        /\ cached \/ \A q \in gone : Empty(left, q),                     \* ENOTEMPTY
      index |-> Without(index, selected),
      worktree |-> IF cached THEN worktree ELSE Remove(left, prunedRmDirectories(selected))]

Rm(p, cached, force) ==
  LET outcome == rmOutcome(p, cached, force)
  IN /\ outcome.allowed
     /\ Store(outcome.index, outcome.worktree, {}, {})
     /\ UNCHANGED <<head, ignoring, operation>>

ResetMixed(tree) ==
  /\ ~operation
  /\ Store(tree, worktree, {p \in Paths : index[p] # None \/ tree[p] # None}, {})
  /\ UNCHANGED <<head, ignoring, operation>>

ResetPath(tree, p) ==
  /\ ~operation
  /\ Store([q \in Within[p] |-> tree[q]] @@ index, worktree,
           {}, {q \in Within[p] : tree[q] # None})
  /\ UNCHANGED <<head, ignoring, operation>>

-----------------------------------------------------------------------------
(* Commit. *)

\* a plan that takes only the dirty rows whose file is dirty too
SparseTreeByWorktree(t, i) ==
  [p \in Paths |-> IF t.dirty[p] = Flags THEN IF Blob(i[p]) THEN i[p] ELSE None
                   ELSE t.baseline[p]]

\* the commit snapshot: dirty index paths, the directories above them, and the
\* stage 0 rows at dirty paths
SnapshotDirty(t) == {p \in Paths : "index" \in t.dirty[p]}
SnapshotDirectories(t) == UNION {Ancestors[p] : p \in SnapshotDirty(t)}
SnapshotIndex(t, i) == {p \in Paths : t.dirty[p] # {} /\ Blob(i[p])}

\* only the directories above a path whose index row is dirty are rebuilt
planSparseTreeBuild(t, i) ==
  LET dirty == SnapshotDirty(t)
      directories == SnapshotDirectories(t)
      rows == SnapshotIndex(t, i)
  IN [p \in Paths |->
        IF p \in dirty THEN IF p \in rows THEN i[p] ELSE None
        ELSE IF p \in directories \ rows THEN None
        ELSE IF \E a \in Ancestors[p] \cap dirty : a \notin directories THEN None
        ELSE t.baseline[p]]

\* the plan needs a complete tracker with the tree of HEAD as its baseline
SparseCommit(t) == t.complete /\ t.baseline = head

\* the full build takes every row as it is, a file above another one included
CommitTree(t, i) == IF SparseCommit(t) THEN planSparseTreeBuild(t, i) ELSE i

\* the plan meets a dirty row at a directory that keeps entries
FileAboveFile(t, i) ==
  /\ SparseCommit(t)
  /\ \E a \in SnapshotDirectories(t) \cap SnapshotIndex(t, i) :
       \E p \in Below[a] : planSparseTreeBuild(t, i)[p] # None

\* a commit, or the continuation of a merge that stopped
Commit ==
  /\ Conflicts = {}
  /\ ~FileAboveFile(tracker, index)
  /\ CommitTree(tracker, index) # head \/ operation
  /\ head' = CommitTree(tracker, index)
  /\ tracker' = advanceIndexTrackerBaseline(tracker, CommitTree(tracker, index))
  /\ operation' = FALSE
  /\ UNCHANGED <<index, worktree, ignoring>>

-----------------------------------------------------------------------------
(* Clean removes what status calls untracked; each removal is a transaction *)
(* of its own, so an error leaves what was removed before it.               *)

IgnoredThere == {p \in Paths : worktree[p] # None /\ Ignored(p)}
Reported == {r.path : r \in {row \in fullStatus : row.worktree = "?"}}

\* the entry an untracked file goes with: the shallowest one around no ignored path
CleanEntry(p) ==
  LET parts == {b \in Ancestors[p] \cup {p} : Len(b) >= Len(Collapsed(p))
                                              /\ (b = p \/ Below[b] \cap IgnoredThere = {})}
  IN CHOOSE b \in parts : \A c \in parts : Len(b) <= Len(c)

cleanableDirectories ==
  {p \in Paths : worktree[p] = Dir /\ ~Ignored(p)
                 /\ Within[p] \cap (IgnoredThere \cup {q \in Paths : index[q] # None}) = {}}

\* clean -d that protects no ignored path
CleanEntriesWithIgnored(directories) ==
  LET files == {p \in Paths : Untracked(p) /\ ~Ignored(p) /\ Collapsed(p) \in Reported}
      all == {Collapsed(p) : p \in files} \cup cleanableDirectories
  IN IF directories THEN {e \in all : Ancestors[e] \cap all = {}} ELSE {p \in files : Collapsed(p) = p}

CleanEntries(directories) ==
  LET files == {p \in Paths : Untracked(p) /\ ~Ignored(p) /\ Collapsed(p) \in Reported}
      all == {CleanEntry(p) : p \in files} \cup cleanableDirectories
  IN IF directories THEN {e \in all : Ancestors[e] \cap all = {}} ELSE {p \in files : Collapsed(p) = p}

\* rmdir fails above a directory that holds no file
WithFiles(e) == {e} \cup {p \in Below[e] : worktree[p] = Dir /\ \E q \in Below[p] : File(q)}
Stuck(e) == {d \in WithFiles(e) : worktree[d] = Dir
                /\ \E q \in Below[d] \ WithFiles(e) : worktree[q] = Dir}
EntryRemoved(e) ==
  {p \in Within[e] : File(p)}
    \cup {d \in WithFiles(e) : worktree[d] = Dir /\ \A s \in Stuck(e) : Len(d) > Len(s)}

Cleaned(directories) ==
  LET entries == CleanEntries(directories)
      done == {e \in entries : \A s \in entries : Stuck(s) # {} => ~Before[s, e]}
  IN Without(worktree, UNION {EntryRemoved(e) : e \in done})

Clean(directories) ==
  /\ ~operation
  /\ Conflicts = {}
  /\ Store(index, Cleaned(directories), {}, {})
  /\ UNCHANGED <<head, ignoring, operation>>
=============================================================================
