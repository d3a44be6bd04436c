--------------------------- MODULE DiskRecovery ---------------------------
(* Local worktree mutations under an undo journal: the SQLite adapter, the    *)
(* recovery coordinator and the disk writer share one transaction, and the    *)
(* recovery generation committed with the rows decides, after a crash, whether *)
(* the disk rolls back or forward.                                            *)
(*                                                                            *)
(* A step is one file system call with the syncs that follow it, so a crash   *)
(* of the process or of the host leaves the state before or after a step.     *)
(* Renames are atomic.  Recursive removal goes leaf by leaf.  The frames of a *)
(* journal batch and the touches of a batch are disjoint, so a batch is a set.*)
EXTENDS Integers, FiniteSets, Sequences

CONSTANTS
  Paths,        \* the virtual paths below the root
  Root,         \* "/", always a directory
  Parent,       \* Parent[p], a path or Root
  Above,        \* Above[p], p and its ancestors below the root
  Contents,     \* what a file, or a symbolic link, can hold
  Absent, Dir,
  InitialTrees, \* the worktrees a fresh workspace is opened on
  MaxTx,        \* transactions begun
  MaxOps,       \* drive operations per transaction
  MaxCrashes, MaxFaults

VARIABLES
  disk,     \* the worktree
  strays,   \* probe and temporary files of the coordinator in the worktree
  dirs,     \* the transaction directories below the recovery root
  gen,      \* the committed recovery_generation
  rows,     \* the committed database: the tree that its rows describe
  mode,     \* the workspace
  tx,       \* transactions begun so far, and the id of the active one
  txn,      \* the active transaction in memory
  op,       \* the drive operation in progress
  settle,   \* the settlement in progress
  crashes, faults

host == <<disk, strays, dirs>>
sqlite == <<gen, rows>>
bounds == <<crashes, faults>>
vars == <<disk, strays, dirs, gen, rows, mode, tx, txn, op, settle, crashes, faults>>

Tx == 1..MaxTx
Nodes == Contents \cup {Absent, Dir}
Trees == [Paths -> Nodes]
Parents == Paths \cup {Root}
NoTree == <<>>

ASSUME TreeAssumption ==
  /\ Absent # Dir /\ Absent \notin Contents /\ Dir \notin Contents
  /\ Root \notin Paths
  /\ Parent \in [Paths -> Parents]
  /\ Above \in [Paths -> SUBSET Paths]
  /\ \A p \in Paths : Above[p] = {p} \cup (IF Parent[p] = Root THEN {} ELSE Above[Parent[p]])
  /\ InitialTrees \subseteq Trees

-----------------------------------------------------------------------------
(* The tree.                                                                  *)

NodeAt(tree, p) == IF p = Root THEN Dir ELSE tree[p]

Exists(tree, p) == NodeAt(tree, p) # Absent

Under(p) == {q \in Paths : p \in Above[q]}

Ancestors(p) == Above[p] \ {p}

Covered(paths, p) == p # Root /\ Above[p] \cap paths # {}

Branch(tree, p) == [q \in Paths |-> IF q \in Under(p) THEN tree[q] ELSE Absent]

Grafted(tree, p, branch) == [q \in Paths |-> IF q \in Under(p) THEN branch[q] ELSE tree[q]]

Leaves(tree, p) ==
  {q \in Under(p) : /\ tree[q] # Absent
                    /\ \A r \in Under(q) \ {q} : tree[r] = Absent}

\* Every ancestor that is there is a directory, or the path does not resolve.
Resolves(tree, p) == \A a \in Ancestors(p) : tree[a] \in {Absent, Dir}

\* firstMissingRoot, or the path itself when nothing is missing.
TouchPath(tree, p) ==
  IF \A a \in Above[p] : tree[a] # Absent THEN p
  ELSE CHOOSE a \in Above[p] : tree[a] = Absent /\ \A b \in Ancestors(a) : tree[b] # Absent

NearestParent(tree, p) ==
  IF \A a \in Ancestors(p) : tree[a] = Absent THEN Root
  ELSE CHOOSE a \in Ancestors(p) :
         tree[a] # Absent /\ \A b \in Ancestors(p) : a \in Ancestors(b) => tree[b] = Absent

-----------------------------------------------------------------------------
(* Records.                                                                   *)

Touches == [path : Paths, kept : BOOLEAN]
TouchPaths(batches) == UNION {{t.path : t \in batches[i]} : i \in DOMAIN batches}

NoDir == [made |-> FALSE, journal |-> "absent", target |-> 0, touches |-> <<>>,
          probes |-> {}, temps |-> {}, origins |-> {}, backups |-> [p \in Paths |-> NoTree]]

NoTxn == [effects |-> 0, ops |-> 0, journal |-> FALSE, abort |-> FALSE, nested |-> FALSE,
          base |-> 0, work |-> NoTree, saved |-> NoTree, savedEffects |-> 0,
          touches |-> <<>>, probes |-> {}, temps |-> {}]

NoOp == [pc |-> "none", todo |-> {}, batch |-> {}, probing |-> {}, probe |-> Root, parents |-> FALSE]

NoSettle == [on |-> FALSE, id |-> 0, committed |-> FALSE, touches |-> <<>>, paths |-> {},
             probes |-> {}, temps |-> {}, poison |-> FALSE]

Init ==
  /\ disk \in InitialTrees
  /\ rows = disk
  /\ strays = {}
  /\ dirs = [t \in Tx |-> NoDir]
  /\ gen = 0
  /\ mode = "closed"
  /\ tx = 0
  /\ txn = NoTxn
  /\ op = NoOp
  /\ settle = NoSettle
  /\ crashes = 0 /\ faults = 0

-----------------------------------------------------------------------------
(* transactionSync and its savepoints.                                        *)

Begin ==
  /\ mode = "open" /\ tx < MaxTx
  /\ mode' = "tx"
  /\ tx' = tx + 1
  /\ txn' = [NoTxn EXCEPT !.base = gen, !.work = rows]
  /\ UNCHANGED <<host, sqlite, op, settle, bounds>>

InTransaction == mode = "tx" /\ op.pc = "none"

BeginNested ==
  /\ InTransaction /\ txn.saved = NoTree
  /\ txn' = [txn EXCEPT !.saved = txn.work, !.savedEffects = txn.effects]
  /\ UNCHANGED <<host, sqlite, mode, tx, op, settle, bounds>>

NestedSucceeds ==
  /\ InTransaction /\ txn.saved # NoTree
  /\ txn' = [txn EXCEPT !.saved = NoTree]
  /\ UNCHANGED <<host, sqlite, mode, tx, op, settle, bounds>>

\* ROLLBACK TO undoes the rows of the savepoint; disk effects cannot be undone.
NestedFails ==
  /\ InTransaction /\ txn.saved # NoTree
  /\ txn' = [txn EXCEPT !.saved = NoTree, !.work = txn.saved,
                        !.nested = txn.nested \/ txn.effects # txn.savedEffects]
  /\ UNCHANGED <<host, sqlite, mode, tx, op, settle, bounds>>

MemorySettlementWithoutProbes(committed, poison) ==
  [on |-> TRUE, id |-> tx, committed |-> committed, touches |-> txn.touches,
   paths |-> TouchPaths(txn.touches), probes |-> {}, temps |-> txn.temps,
   poison |-> poison]

MemorySettlement(committed, poison) ==
  [on |-> TRUE, id |-> tx, committed |-> committed, touches |-> txn.touches,
   paths |-> TouchPaths(txn.touches), probes |-> txn.probes, temps |-> txn.temps,
   poison |-> poison]

\* #finish: without a journal there is nothing to settle.
Finish(committed, poison) ==
  /\ op' = NoOp
  /\ IF txn.journal
     THEN /\ mode' = "settling"
          /\ settle' = MemorySettlement(committed, poison)
          /\ UNCHANGED txn
     ELSE /\ mode' = IF poison THEN "poisoned" ELSE "open"
          /\ txn' = NoTxn
          /\ UNCHANGED settle

MayCommit == InTransaction /\ txn.saved = NoTree /\ ~txn.abort /\ ~txn.nested

Changed == txn.effects > 0

PublishedWithoutGeneration ==
  /\ gen' = gen
  /\ rows' = txn.work

Published ==
  /\ gen' = IF Changed THEN txn.base + 1 ELSE gen
  /\ rows' = txn.work

CommitSucceeds ==
  /\ MayCommit
  /\ Published
  /\ Finish(TRUE, FALSE)
  /\ UNCHANGED <<host, tx, bounds>>

\* COMMIT throws: the connection is reopened and the generation decides.
CommitUncertain ==
  /\ MayCommit /\ faults < MaxFaults
  /\ faults' = faults + 1
  /\ Published \/ UNCHANGED sqlite
  /\ Finish(gen' >= txn.base + 1, FALSE)
  /\ UNCHANGED <<host, tx, crashes>>

\* COMMIT or ROLLBACK throws and the connection cannot be closed or reopened.
ConnectionLost ==
  /\ InTransaction /\ txn.saved = NoTree /\ faults < MaxFaults
  /\ faults' = faults + 1
  /\ (MayCommit /\ Published) \/ UNCHANGED sqlite
  /\ mode' = "poisoned" /\ txn' = NoTxn /\ op' = NoOp
  /\ UNCHANGED <<host, tx, settle, crashes>>

\* The closure throws, the transaction is abort-only, or a thenable came back.
RollBack ==
  /\ InTransaction /\ txn.saved = NoTree
  /\ \E poison \in BOOLEAN : Finish(FALSE, poison)
  /\ UNCHANGED <<host, sqlite, tx, bounds>>

-----------------------------------------------------------------------------
(* The disk writer: each operation validates, prepares its paths, applies.    *)

TouchedAgain(paths) ==
  LET new == {TouchPath(disk, p) : p \in paths}
  IN {[path |-> q, kept |-> disk[q] # Absent] : q \in {r \in new : Ancestors(r) \cap new = {}}}

\* planRecoveryPreparation: the batch of touches that nothing covers yet.
Touched(paths) ==
  LET old == TouchPaths(txn.touches)
      open == {p \in paths : ~Covered(old, p)}
      new == {q \in {TouchPath(disk, p) : p \in open} : ~Covered(old, q)}
  IN {[path |-> q, kept |-> disk[q] # Absent] : q \in {r \in new : Ancestors(r) \cap new = {}}}

Ready == InTransaction /\ ~txn.abort /\ txn.ops < MaxOps

\* prepare(): with touches to record it needs the journal, then a probe of each new parent.
Prepare(paths, entries, parents) ==
  LET batch == Touched(paths)
      probing == {NearestParent(disk, t.path) : t \in batch} \ txn.probes
  IN /\ Ready
     /\ op' = [pc |-> IF batch = {} THEN "apply"
                      ELSE IF ~txn.journal THEN "directory"
                      ELSE IF probing # {} THEN "probe" ELSE "intent",
               todo |-> entries, batch |-> batch, probing |-> probing, probe |-> Root,
               parents |-> parents]
     /\ txn' = [txn EXCEPT !.ops = @ + 1]
     /\ UNCHANGED <<host, sqlite, mode, tx, settle, bounds>>

WriteFile ==
  \E p \in Paths, v \in Contents, parents \in BOOLEAN :
    /\ Resolves(disk, p) /\ disk[p] # Dir
    /\ Prepare({p}, {[kind |-> "file", path |-> p, value |-> v]}, parents)

\* writeFiles: files, links and directories in one batch.
WriteFiles ==
  \E p, q \in Paths, v \in Contents, w \in Contents \cup {Dir}, parents \in BOOLEAN :
    /\ p # q
    /\ \A r \in {p, q} : Resolves(disk, r)
    /\ disk[p] # Dir
    /\ IF w = Dir THEN disk[q] \in {Absent, Dir} ELSE disk[q] # Dir
    /\ LET all == {[kind |-> "file", path |-> p, value |-> v],
                   [kind |-> IF w = Dir THEN "dir" ELSE "file", path |-> q, value |-> w]}
           actionable == {e \in all : e.kind = "file" \/ disk[e.path] = Absent}
       IN Prepare({e.path : e \in actionable}, actionable, parents)

MakeDirectories ==
  \E p \in Paths :
    /\ Resolves(disk, p) /\ disk[p] = Absent
    /\ Prepare({p}, {[kind |-> "dir", path |-> p, value |-> Dir]}, TRUE)

Symlink ==
  \E p \in Paths, v \in Contents :
    /\ Resolves(disk, p) /\ disk[p] = Absent
    /\ Prepare({p}, {[kind |-> "symlink", path |-> p, value |-> v]}, FALSE)

\* The paths that are there; with force the others are skipped.
Remove ==
  \E paths \in (SUBSET Paths) \ {{}}, recursive \in BOOLEAN :
    /\ \A p \in paths : /\ Resolves(disk, p) /\ disk[p] # Absent
                        /\ recursive \/ Leaves(disk, p) = {p}
    /\ Prepare(paths, {[kind |-> "rm", path |-> p, value |-> Absent] : p \in paths}, FALSE)

\* writeRange and chmod: the replacement is made from the backup or the file in place.
Rewrite ==
  \E p \in Paths, v \in Contents :
    /\ Resolves(disk, p) /\ disk[p] \in Contents
    /\ Prepare({p}, {[kind |-> "file", path |-> p, value |-> v]}, FALSE)

\* Validation throws before anything is prepared.
OperationRefused ==
  /\ InTransaction /\ ~txn.abort
  /\ txn' = [txn EXCEPT !.abort = TRUE]
  /\ UNCHANGED <<host, sqlite, mode, tx, op, settle, bounds>>

-----------------------------------------------------------------------------
(* prepare(), step by step.                                                   *)

Here == dirs[tx]

MakeDirectory ==
  /\ mode = "tx" /\ op.pc = "directory"
  /\ dirs' = [dirs EXCEPT ![tx].made = TRUE]
  /\ op' = [op EXCEPT !.pc = "journal"]
  /\ UNCHANGED <<disk, strays, sqlite, mode, tx, txn, settle, bounds>>

CreateJournal ==
  /\ mode = "tx" /\ op.pc = "journal"
  /\ dirs' = [dirs EXCEPT ![tx].journal = "empty"]
  /\ txn' = [txn EXCEPT !.journal = TRUE]
  /\ op' = [op EXCEPT !.pc = "initial"]
  /\ UNCHANGED <<disk, strays, sqlite, mode, tx, settle, bounds>>

AppendInitial ==
  /\ mode = "tx" /\ op.pc = "initial"
  /\ dirs' = [dirs EXCEPT ![tx].journal = "framed", ![tx].target = txn.base + 1]
  /\ op' = [op EXCEPT !.pc = IF op.probing # {} THEN "probe" ELSE "intent"]
  /\ UNCHANGED <<disk, strays, sqlite, mode, tx, txn, settle, bounds>>

ProbeIntent ==
  /\ mode = "tx" /\ op.pc = "probe"
  /\ \E p \in op.probing :
       /\ dirs' = [dirs EXCEPT ![tx].probes = @ \cup {p}]
       /\ txn' = [txn EXCEPT !.probes = @ \cup {p}]
       /\ op' = [op EXCEPT !.pc = "create", !.probe = p, !.probing = @ \ {p}]
  /\ UNCHANGED <<disk, strays, sqlite, mode, tx, settle, bounds>>

Stray(kind, p) == [kind |-> kind, parent |-> p]

ProbeCreated ==
  /\ mode = "tx" /\ op.pc = "create"
  /\ dirs' = [dirs EXCEPT ![tx].origins = @ \cup {op.probe}]
  /\ op' = [op EXCEPT !.pc = "place"]
  /\ UNCHANGED <<disk, strays, sqlite, mode, tx, txn, settle, bounds>>

ProbePlaced ==
  /\ mode = "tx" /\ op.pc = "place"
  /\ strays' = strays \cup {Stray("probe", op.probe)}
  /\ dirs' = [dirs EXCEPT ![tx].origins = @ \ {op.probe}]
  /\ op' = [op EXCEPT !.pc = "return"]
  /\ UNCHANGED <<disk, sqlite, mode, tx, txn, settle, bounds>>

ProbeReturned ==
  /\ mode = "tx" /\ op.pc = "return"
  /\ strays' = strays \ {Stray("probe", op.probe)}
  /\ dirs' = [dirs EXCEPT ![tx].origins = @ \cup {op.probe}]
  /\ op' = [op EXCEPT !.pc = "clean"]
  /\ UNCHANGED <<disk, sqlite, mode, tx, txn, settle, bounds>>

ProbeCleaned ==
  /\ mode = "tx" /\ op.pc = "clean"
  /\ dirs' = [dirs EXCEPT ![tx].origins = @ \ {op.probe}]
  /\ op' = [op EXCEPT !.pc = IF op.probing # {} THEN "probe" ELSE "intent"]
  /\ UNCHANGED <<disk, strays, sqlite, mode, tx, txn, settle, bounds>>

Framed == UNION {Here.touches[i] : i \in DOMAIN Here.touches}

\* appendApplication: one synced frame per chunk, in memory only after the last.
AppendFrame ==
  /\ mode = "tx" /\ op.pc = "intent"
  /\ \E chunk \in SUBSET (op.batch \ Framed) :
       /\ chunk # {}
       /\ dirs' = [dirs EXCEPT ![tx].touches = Append(@, chunk)]
       /\ IF op.batch \subseteq Framed \cup chunk
          THEN /\ txn' = [txn EXCEPT !.touches = Append(@, op.batch)]
               /\ op' = [op EXCEPT !.pc = IF \E t \in op.batch : t.kept
                                          THEN "backup" ELSE "apply",
                                   !.batch = {t \in op.batch : t.kept}]
          ELSE UNCHANGED <<txn, op>>
  /\ UNCHANGED <<disk, strays, sqlite, mode, tx, settle, bounds>>

\* The next thing to do, or the operation is over and the rows record its outcome.
Applied(todo, tree, t) ==
  /\ op' = IF todo = {} THEN NoOp ELSE [op EXCEPT !.pc = "apply", !.todo = todo, !.batch = {}]
  /\ txn' = IF todo = {} THEN [t EXCEPT !.work = tree] ELSE t

\* What is still to do: a removal skips what is in the backup or already gone.
Remaining(tree) == {e \in op.todo : e.kind # "rm" \/ tree[e.path] # Absent}

MoveBackup ==
  /\ mode = "tx" /\ op.pc = "backup"
  /\ \E t \in op.batch :
       /\ dirs' = [dirs EXCEPT ![tx].backups[t.path] = Branch(disk, t.path)]
       /\ disk' = Grafted(disk, t.path, [q \in Paths |-> Absent])
       /\ LET counted == [txn EXCEPT !.effects = @ + 1]
          IN IF op.batch = {t} THEN Applied(Remaining(disk'), disk', counted)
             ELSE op' = [op EXCEPT !.batch = @ \ {t}] /\ txn' = counted
  /\ UNCHANGED <<strays, sqlite, mode, tx, settle, bounds>>

-----------------------------------------------------------------------------
(* Applying the entries, a directory before what is in it.                    *)

Applying(e) ==
  /\ mode = "tx" /\ op.pc = "apply" /\ e \in op.todo
  /\ \A f \in op.todo : f.path \notin Ancestors(e.path)

Counted == [txn EXCEPT !.effects = @ + 1]

\* ensureDirectories: one missing ancestor, the topmost.
MakeParent ==
  /\ \E e \in op.todo :
       /\ Applying(e) /\ e.kind # "rm" /\ op.parents
       /\ ~Exists(disk, Parent[e.path])
       /\ disk' = [disk EXCEPT ![TouchPath(disk, Parent[e.path])] = Dir]
  /\ txn' = Counted
  /\ UNCHANGED <<strays, dirs, sqlite, mode, tx, op, settle, bounds>>

Placeable(e) == NodeAt(disk, Parent[e.path]) = Dir

\* A directory, or a link made in place.
PlaceEntry ==
  /\ \E e \in op.todo :
       /\ Applying(e) /\ e.kind \in {"dir", "symlink"}
       /\ Placeable(e)
       /\ disk' = [disk EXCEPT ![e.path] = e.value]
       /\ Applied(op.todo \ {e}, disk', Counted)
  /\ UNCHANGED <<strays, dirs, sqlite, mode, tx, settle, bounds>>

\* Only a path that an earlier touch covers is removed in place.
RemoveEntry ==
  /\ \E e \in op.todo :
       /\ Applying(e) /\ e.kind = "rm"
       /\ \E q \in Leaves(disk, e.path) :
            /\ disk' = [disk EXCEPT ![q] = Absent]
            /\ IF q = e.path THEN Applied(Remaining(disk'), disk', Counted) ELSE UNCHANGED <<txn, op>>
  /\ UNCHANGED <<strays, dirs, sqlite, mode, tx, settle, bounds>>

TemporaryIntent ==
  /\ \E e \in op.todo :
       /\ Applying(e) /\ e.kind = "file" /\ Placeable(e)
       /\ dirs' = [dirs EXCEPT ![tx].temps = @ \cup {Parent[e.path]}]
       /\ txn' = [txn EXCEPT !.temps = @ \cup {Parent[e.path]}]
       /\ op' = [op EXCEPT !.pc = "temporary", !.batch = {e}]
  /\ UNCHANGED <<disk, strays, sqlite, mode, tx, settle, bounds>>

ReplacementSynced ==
  /\ mode = "tx" /\ op.pc = "temporary"
  /\ \E e \in op.batch : strays' = strays \cup {Stray("temporary", Parent[e.path])}
  /\ op' = [op EXCEPT !.pc = "replace"]
  /\ UNCHANGED <<disk, dirs, sqlite, mode, tx, txn, settle, bounds>>

ReplacementRenamed ==
  /\ mode = "tx" /\ op.pc = "replace"
  /\ \E e \in op.batch :
       /\ strays' = strays \ {Stray("temporary", Parent[e.path])}
       /\ disk' = [disk EXCEPT ![e.path] = e.value]
       /\ Applied(op.todo \ {e}, disk', Counted)
  /\ UNCHANGED <<dirs, sqlite, mode, tx, settle, bounds>>

\* requireParent throws: the parent is missing, or is no directory.
ParentUnusable ==
  /\ \E e \in op.todo :
       /\ Applying(e) /\ e.kind # "rm" /\ ~Placeable(e)
       /\ ~op.parents \/ Exists(disk, Parent[e.path])
  /\ op' = NoOp
  /\ txn' = [txn EXCEPT !.abort = TRUE]
  /\ UNCHANGED <<host, sqlite, mode, tx, settle, bounds>>

\* A host call fails before its effect: operationFailed makes the transaction
\* abort-only.  A sync that fails after the effect is this step one call later.
OperationFails ==
  /\ mode = "tx" /\ op.pc # "none" /\ faults < MaxFaults
  /\ faults' = faults + 1
  /\ op' = NoOp
  /\ txn' = [txn EXCEPT !.abort = TRUE]
  /\ UNCHANGED <<disk, strays, sqlite, mode, tx, settle, crashes>>
  /\ \/ UNCHANGED dirs
     \* the directory could not be removed after the journal was not created
     \/ op.pc = "directory" /\ dirs' = [dirs EXCEPT ![tx].made = TRUE]
     \/ op.pc = "journal" /\ dirs' = [dirs EXCEPT ![tx] = NoDir]
     \* the frame is written but the sync fails: in the journal, not in memory
     \/ op.pc = "initial" /\ dirs' = [dirs EXCEPT ![tx].journal = "framed",
                                                  ![tx].target = txn.base + 1]
     \/ /\ op.pc = "probe"
        /\ \E p \in op.probing : dirs' = [dirs EXCEPT ![tx].probes = @ \cup {p}]
     \/ /\ op.pc = "intent"
        /\ \E chunk \in SUBSET (op.batch \ Framed) :
             chunk # {} /\ dirs' = [dirs EXCEPT ![tx].touches = Append(@, chunk)]
     \/ \E e \in op.todo :
          /\ Applying(e) /\ e.kind = "file" /\ Placeable(e)
          /\ dirs' = [dirs EXCEPT ![tx].temps = @ \cup {Parent[e.path]}]

Drive ==
  \/ /\ Ready
     /\ WriteFile \/ WriteFiles \/ MakeDirectories \/ Symlink \/ Remove \/ Rewrite
  \/ OperationRefused
  \/ MakeDirectory \/ CreateJournal \/ AppendInitial
  \/ ProbeIntent \/ ProbeCreated \/ ProbePlaced \/ ProbeReturned \/ ProbeCleaned
  \/ AppendFrame \/ MoveBackup
  \/ MakeParent \/ PlaceEntry \/ RemoveEntry
  \/ TemporaryIntent \/ ReplacementSynced \/ ReplacementRenamed
  \/ ParentUnusable \/ OperationFails

Transaction ==
  \/ Begin \/ BeginNested \/ NestedSucceeds \/ NestedFails
  \/ CommitSucceeds \/ CommitUncertain \/ ConnectionLost \/ RollBack

-----------------------------------------------------------------------------
(* settleRecovery.                                                            *)

Settling == mode \in {"settling", "recovering"} /\ settle.on

Stored == dirs[settle.id]

\* A touch is settled; an empty batch goes with its last touch.
Dropped(batches, i, t) ==
  LET left == batches[i] \ {t}
  IN IF left # {} THEN [batches EXCEPT ![i] = left]
     ELSE IF i = 1 THEN Tail(batches) ELSE SubSeq(batches, 1, i - 1)

DiscardBackup ==
  /\ Settling /\ settle.committed /\ settle.touches # <<>>
  /\ \E t \in settle.touches[1] :
       /\ settle' = [settle EXCEPT !.touches = Dropped(@, 1, t)]
       /\ dirs' = IF t.kept THEN [dirs EXCEPT ![settle.id].backups[t.path] = NoTree] ELSE dirs
  /\ UNCHANGED <<disk, strays, sqlite, mode, tx, txn, op, bounds>>

\* The touches are undone in reverse order.
LatestBatch == Len(settle.touches)

\* The touches that the rollback may undo next.
Undoing ==
  IF Settling /\ ~settle.committed /\ settle.touches # <<>>
  THEN settle.touches[LatestBatch] ELSE {}

Undone(t) == settle' = [settle EXCEPT !.touches = Dropped(@, LatestBatch, t)]

HasBackup(t) == t.kept /\ Stored.backups[t.path] # NoTree

\* removePath(target), leaf by leaf, with what the coordinator left in there.
RemoveTarget ==
  /\ \E t \in Undoing :
       /\ Resolves(disk, t.path)
       /\ ~t.kept \/ HasBackup(t)
       /\ \E q \in Leaves(disk, t.path) :
            /\ disk' = [disk EXCEPT ![q] = Absent]
            /\ strays' = {s \in strays : s.parent # q}
  /\ UNCHANGED <<dirs, sqlite, mode, tx, txn, op, settle, bounds>>

CreatedPathRemoved ==
  /\ \E t \in Undoing :
       /\ Resolves(disk, t.path)
       /\ \/ ~t.kept /\ Leaves(disk, t.path) = {}
          \/ t.kept /\ ~HasBackup(t)
       /\ Undone(t)
  /\ UNCHANGED <<host, sqlite, mode, tx, txn, op, bounds>>

BackupRestored ==
  /\ \E t \in Undoing :
       /\ HasBackup(t)
       /\ Leaves(disk, t.path) = {}
       /\ NodeAt(disk, Parent[t.path]) = Dir
       /\ disk' = Grafted(disk, t.path, Stored.backups[t.path])
       /\ dirs' = [dirs EXCEPT ![settle.id].backups[t.path] = NoTree]
       /\ Undone(t)
  /\ UNCHANGED <<strays, sqlite, mode, tx, txn, op, bounds>>

CleanupProbe ==
  /\ Settling /\ settle.touches = <<>>
  /\ \E p \in settle.probes :
       /\ settle' = [settle EXCEPT !.probes = @ \ {p}]
       /\ IF Covered(settle.paths, p) THEN UNCHANGED <<strays, dirs>>
          ELSE /\ strays' = strays \ {Stray("probe", p)}
               /\ dirs' = [dirs EXCEPT ![settle.id].origins = @ \ {p}]
  /\ UNCHANGED <<disk, sqlite, mode, tx, txn, op, bounds>>

CleanupTemporary ==
  /\ Settling /\ settle.touches = <<>> /\ settle.probes = {}
  /\ \E p \in settle.temps :
       /\ settle' = [settle EXCEPT !.temps = @ \ {p}]
       /\ IF Covered(settle.paths, p) THEN UNCHANGED strays
          ELSE strays' = strays \ {Stray("temporary", p)}
  /\ UNCHANGED <<disk, dirs, sqlite, mode, tx, txn, op, bounds>>

Settled == settle.touches = <<>> /\ settle.probes = {} /\ settle.temps = {}

UnlinkJournal ==
  /\ Settling /\ Settled /\ Stored.journal # "absent"
  /\ dirs' = [dirs EXCEPT ![settle.id].journal = "absent"]
  /\ UNCHANGED <<disk, strays, sqlite, mode, tx, txn, op, settle, bounds>>

RemoveTransaction ==
  /\ Settling /\ Settled /\ Stored.journal = "absent"
  /\ dirs' = [dirs EXCEPT ![settle.id] = NoDir]
  /\ settle' = NoSettle
  /\ IF mode = "recovering" THEN UNCHANGED <<mode, txn>>
     ELSE mode' = (IF settle.poison THEN "poisoned" ELSE "open") /\ txn' = NoTxn
  /\ UNCHANGED <<disk, strays, sqlite, tx, op, bounds>>

\* A host call of the settlement fails: the coordinator is poisoned, or the
\* workspace does not open.
SettlementFails ==
  /\ Settling /\ faults < MaxFaults
  /\ faults' = faults + 1
  /\ mode' = IF mode = "recovering" THEN "closed" ELSE "poisoned"
  /\ settle' = NoSettle /\ txn' = NoTxn
  /\ UNCHANGED <<host, sqlite, tx, op, crashes>>

Settlement ==
  \/ DiscardBackup \/ RemoveTarget \/ CreatedPathRemoved \/ BackupRestored
  \/ CleanupProbe \/ CleanupTemporary \/ UnlinkJournal \/ RemoveTransaction

-----------------------------------------------------------------------------
(* Opening, closing and crashing.                                             *)

Pending == {t \in Tx : dirs[t].made}

Empty(d) == d.origins = {} /\ \A p \in Paths : d.backups[p] = NoTree

\* #recover reads every transaction directory before it changes one.
Unreadable == \E t \in Pending : dirs[t].journal # "framed" /\ ~Empty(dirs[t])

Open ==
  /\ mode = "closed" /\ ~Unreadable
  /\ mode' = "recovering"
  /\ UNCHANGED <<host, sqlite, tx, txn, op, settle, bounds>>

RecoverFramedOnly ==
  /\ mode = "recovering" /\ ~settle.on
  /\ \E t \in Pending :
       /\ dirs[t].journal = "framed"
       /\ settle' = [on |-> TRUE, id |-> t, committed |-> gen >= dirs[t].target,
                     touches |-> dirs[t].touches, paths |-> TouchPaths(dirs[t].touches),
                     probes |-> dirs[t].probes, temps |-> dirs[t].temps, poison |-> FALSE]
  /\ UNCHANGED <<host, sqlite, mode, tx, txn, op, bounds>>

RecoverOne ==
  /\ mode = "recovering" /\ ~settle.on
  /\ \E t \in Pending :
       IF dirs[t].journal = "framed"
       THEN /\ settle' = [on |-> TRUE, id |-> t, committed |-> gen >= dirs[t].target,
                          touches |-> dirs[t].touches, paths |-> TouchPaths(dirs[t].touches),
                          probes |-> dirs[t].probes, temps |-> dirs[t].temps, poison |-> FALSE]
            /\ UNCHANGED dirs
       ELSE dirs' = [dirs EXCEPT ![t] = NoDir] /\ UNCHANGED settle
  /\ UNCHANGED <<disk, strays, sqlite, mode, tx, txn, op, bounds>>

Recovered ==
  /\ mode = "recovering" /\ ~settle.on /\ Pending = {}
  /\ mode' = "open"
  /\ UNCHANGED <<host, sqlite, tx, txn, op, settle, bounds>>

Close ==
  /\ mode \in {"open", "poisoned"}
  /\ mode' = "closed"
  /\ UNCHANGED <<host, sqlite, tx, txn, op, settle, bounds>>

\* The process or the host stops: memory and the open SQLite transaction are gone.
Crash ==
  /\ mode \in {"tx", "settling", "recovering"} /\ crashes < MaxCrashes
  /\ crashes' = crashes + 1
  /\ mode' = "closed" /\ txn' = NoTxn /\ op' = NoOp /\ settle' = NoSettle
  /\ UNCHANGED <<host, sqlite, tx, faults>>

Recovery == Open \/ RecoverOne \/ Recovered

Next == Transaction \/ Drive \/ Settlement \/ SettlementFails \/ Recovery \/ Close \/ Crash

Spec == Init /\ [][Next]_vars

-----------------------------------------------------------------------------
(* Properties.                                                                *)

\* Disk and database commit together: a workspace that is open between two
\* transactions shows exactly the tree that the committed rows describe, after
\* any crash, failed call, failed savepoint or uncertain COMMIT.
CommittedTree == mode = "open" => disk = rows

\* No probe, temporary, backup or journal outlives its transaction.
NothingLeftBehind ==
  mode = "open" => /\ strays = {}
                   /\ \A t \in Tx : dirs[t].journal = "absent" /\ Empty(dirs[t])

\* What undoing one batch leaves of a tree.
UndoneBatch(tree, batch, backups) ==
  [q \in Paths |->
     IF \E t \in batch : q \in Under(t.path) /\ (t.kept => backups[t.path] # NoTree)
     THEN LET t == CHOOSE u \in batch : q \in Under(u.path)
          IN IF t.kept THEN backups[t.path][q] ELSE Absent
     ELSE tree[q]]

RolledBack(tree, d) ==
  LET n == Len(d.touches)
      after[k \in 0..n] ==
        IF k = 0 THEN tree ELSE UndoneBatch(after[k - 1], d.touches[n - k + 1], d.backups)
  IN after[n]

\* The undo journal is sufficient at every moment: as long as its generation is
\* not committed, undoing what it lists, last batch first, gives the committed
\* tree back, however much of the transaction or of an earlier undo was done.
UndoRestores ==
  \A t \in Tx : dirs[t].journal = "framed" /\ gen < dirs[t].target
               => RolledBack(disk, dirs[t]) = rows

\* Whatever was interrupted, a workspace that is reopened gets to open.
EventuallyOpens == mode = "closed" ~> mode = "open"
=============================================================================
