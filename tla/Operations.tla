---------------------------- MODULE Operations ----------------------------
(***************************************************************************)
(* The operations that integrate commits into a checkout: merge, cherry-    *)
(* pick, revert and rebase, with the journal that lets them be continued,   *)
(* skipped and aborted after a restart (packages/git/src/ops/merge,         *)
(* ops/replay, ops/rebase, store/operations).  Each call is one transaction *)
(* except a rebase, which runs its start and every step in transactions of  *)
(* their own without yielding: only a crash comes in between.               *)
(***************************************************************************)
EXTENDS Integration

CONSTANT MaxCommits  \* bound on the history

VARIABLES
  history,  \* the commits, each after its parents
  tip,      \* the commit of the checked-out branch
  journal,  \* the durable operation state
  driver,   \* the rebase call in progress: the parent its last step left clean
  before    \* history variable: the checkout when the operation started

operationVars == <<workspaceVars, stages, history, tip, journal, driver, before>>

NoJournal == [kind |-> None, phase |-> None, original |-> 0, source |-> 0, saved |-> <<>>,
              parent |-> 0, step |-> 0, steps |-> <<>>, results |-> <<>>]
NoDriver == [active |-> FALSE, proof |-> 0]
TreeOf(c) == IF c = 0 THEN EmptyTree ELSE history[c].tree

-----------------------------------------------------------------------------
(* Histories.                                                               *)

Parents(c) == {history[c].parents[k] : k \in DOMAIN history[c].parents}
Reach == LET reach[c \in 0..Len(history)] ==
               IF c = 0 THEN {} ELSE {c} \cup UNION {reach[p] : p \in Parents(c)}
         IN reach

bestCommonAncestors(current, incoming) ==
  LET common == Reach[current] \cap Reach[incoming]
  IN {c \in common : \A d \in common \ {c} : c \notin Reach[d]}

selectMergeBases(current, incoming) ==
  IF incoming \in Reach[current] THEN [kind |-> "already-merged", bases |-> {incoming}]
  ELSE IF current \in Reach[incoming] THEN [kind |-> "fast-forward", bases |-> {current}]
  ELSE LET bases == bestCommonAncestors(current, incoming)
       IN [kind |-> IF bases = {} THEN "unrelated" ELSE "divergent", bases |-> bases]

\* two bases are merged into one tree over their own base; more are refused
selectedBaseTreeOwned(bases) ==
  LET first == CHOOSE c \in bases : \A d \in bases : c <= d
      second == CHOOSE c \in bases \ {first} : TRUE
      inner == bestCommonAncestors(first, second)
  IN IF Cardinality(bases) = 1 THEN {TreeOf(first)}
     ELSE IF Cardinality(bases) > 2 \/ Cardinality(inner) # 1 THEN {}
     ELSE {t \in {planVirtualAncestorIntegrationOwned(TreeOf(CHOOSE c \in inner : TRUE),
                                                      TreeOf(first), TreeOf(second))}
             : preflightTreeBuild(t)}

-----------------------------------------------------------------------------
(* Steps common to the operations.                                          *)

\* the tracker after the rows and files of a result were written
Recorded(i, w, written) ==
  Journalled([index |-> index, worktree |-> worktree], [index |-> i, worktree |-> w], written, written)

\* the index and files an application leaves, and what the triggers make of them
Apply(projected) ==
  /\ stages' = AppliedStages(projected)
  /\ index' = AppliedIndex(projected)
  /\ worktree' = AppliedWorktree(projected)
RecordedBy(projected) == Recorded(AppliedIndex(projected), AppliedWorktree(projected), DOMAIN projected)

Materialize(result) ==
  /\ result.ok
  /\ stages' = [p \in Paths |-> IF result.index[p] = Unmerged THEN stages[p] ELSE NoStages]
  /\ index' = result.index
  /\ worktree' = result.worktree

Committed(parents, tree) == Append(history, [parents |-> parents, tree |-> tree])

\* a new commit of the index at the tip, built sparsely where the tracker allows it
Publish(parents, t, i) ==
  /\ ~FileAboveFile(t, i)
  /\ Len(history) < MaxCommits
  /\ history' = Committed(parents, CommitTree(t, i))
  /\ tip' = Len(history) + 1
  /\ head' = CommitTree(t, i)
  /\ tracker' = advanceIndexTrackerBaseline(t, CommitTree(t, i))

NoBefore == [index |-> EmptyTree, worktree |-> EmptyTree, left |-> <<>>]
Begin(j, i, w) ==
  /\ journal' = j /\ operation' = (j.kind # None)
  /\ before' = IF j.kind = None THEN before
               ELSE [index |-> index, worktree |-> worktree, left |-> <<i, w>>]
Idle == ~driver.active /\ journal.kind = None
Active(kinds) == ~driver.active /\ journal.kind \in kinds /\ tip = journal.original
Finish == journal' = NoJournal /\ operation' = FALSE /\ before' = NoBefore

\* the saved state of the touched paths comes back
Restore(saved) ==
  /\ requireRestorable(saved) /\ ~restoreBlocked(saved)
  /\ stages' = RestoredStages(saved)
  /\ Store(RestoredIndex(saved), RestoredWorktree(saved), DOMAIN saved, DOMAIN saved)

-----------------------------------------------------------------------------
(* Merge.                                                                   *)

\* a conflict, or a request not to commit, leaves a journal
MergeOutcome(incoming, fast, commit, step) ==
  LET projected == step.projection.entries
      clean == Conflicted(projected) = {}
  IN /\ IF fast THEN ~Unsafe(step) ELSE ~Refusable(step)
     /\ Apply(projected)
     /\ \/ /\ ~clean \/ (~fast /\ ~commit)
           /\ Begin([NoJournal EXCEPT !.kind = "merge", !.original = tip, !.source = incoming,
                       !.phase = IF clean THEN "ready" ELSE "conflicted", !.saved = Snapshot(projected)],
                    AppliedIndex(projected), AppliedWorktree(projected))
           /\ tracker' = RecordedBy(projected)
           /\ UNCHANGED <<head, history, tip>>
        \/ /\ clean /\ fast /\ Begin(NoJournal, index, worktree)
           /\ tip' = incoming /\ head' = TreeOf(incoming) /\ UNCHANGED history
           /\ tracker' = advanceIndexTrackerBaseline(RecordedBy(projected), TreeOf(incoming))
        \/ /\ clean /\ ~fast /\ commit /\ Begin(NoJournal, index, worktree)
           /\ Publish(<<tip, incoming>>, RecordedBy(projected), AppliedIndex(projected))

Merge(incoming, ff, commit) ==
  LET selection == selectMergeBases(tip, incoming)
      fast == selection.kind = "fast-forward" /\ ff
  IN /\ Idle /\ Conflicts = {}
     /\ selection.kind \in {"fast-forward", "divergent"}
     /\ fast \/ index = head
     /\ \E base \in IF fast THEN {head} ELSE selectedBaseTreeOwned(selection.bases) :
          MergeOutcome(incoming, fast, commit, IntegrationStep(head, base, head, TreeOf(incoming)))
     /\ UNCHANGED <<ignoring, driver>>

\* also what commit does while a merge is active
mergeContinue ==
  /\ Active({"merge"}) /\ Conflicts = {} /\ preflightTreeBuild(index)
  /\ Publish(<<journal.original, journal.source>>, tracker, index)
  /\ Finish
  /\ UNCHANGED <<index, worktree, ignoring, stages, driver>>

mergeAbort ==
  /\ Active({"merge"})
  /\ Restore(journal.saved)
  /\ Finish
  /\ UNCHANGED <<head, ignoring, history, tip, driver>>

-----------------------------------------------------------------------------
(* Cherry-pick and revert: the change of one commit, or its reverse, on the *)
(* tip.                                                                     *)

\* a merge commit names the parent its change is taken against
requireMainline(source, mainline) ==
  mainline \in IF history[source].parents = <<>> THEN {0} ELSE DOMAIN history[source].parents
ParentOf(source, mainline) == IF mainline = 0 THEN 0 ELSE history[source].parents[mainline]
ReplayBase(kind, source, parent) == IF kind = "revert" THEN TreeOf(source) ELSE TreeOf(parent)
ReplayIncoming(kind, source, parent) == IF kind = "revert" THEN TreeOf(parent) ELSE TreeOf(source)
suspendEmpty(kind) == kind = "cherry-pick"

Replayed(kind, source, step) ==
  LET projected == step.projection.entries
      state == [NoJournal EXCEPT !.kind = kind, !.original = tip, !.source = source]
      conflict == \E p \in DOMAIN step.plan : step.plan[p].kind = "conflict"
  IN \/ /\ step.plan = <<>> /\ suspendEmpty(kind)
        /\ Begin([state EXCEPT !.phase = "empty"], index, worktree)
        /\ UNCHANGED <<index, worktree, stages, tracker, head, history, tip>>
     \/ /\ step.plan # <<>> /\ ~Refusable(step) /\ conflict
        /\ Apply(projected)
        /\ Begin([state EXCEPT !.phase = "conflicted", !.saved = Snapshot(projected)],
                 AppliedIndex(projected), AppliedWorktree(projected))
        /\ tracker' = RecordedBy(projected)
        /\ UNCHANGED <<head, history, tip>>
     \/ /\ step.plan # <<>> /\ ~Refusable(step) /\ ~conflict
        /\ Apply(projected)
        /\ Begin(NoJournal, index, worktree)
        /\ Publish(<<tip>>, RecordedBy(projected), AppliedIndex(projected))

startReplay(kind, source, mainline) ==
  /\ Idle /\ Conflicts = {} /\ index = head
  /\ requireMainline(source, mainline)
  /\ Replayed(kind, source,
       IntegrationStep(head, ReplayBase(kind, source, ParentOf(source, mainline)), head,
                       ReplayIncoming(kind, source, ParentOf(source, mainline))))
  /\ UNCHANGED <<ignoring, driver>>

\* a resolution that leaves the tree of HEAD has nothing to commit
continueReplay(kind) ==
  /\ Active({kind}) /\ journal.phase # "empty" /\ Conflicts = {} /\ preflightTreeBuild(index)
  /\ IF index = TreeOf(journal.original)
     THEN /\ IF suspendEmpty(kind) THEN journal' = [journal EXCEPT !.phase = "empty"] /\ UNCHANGED <<operation, before>>
             ELSE Finish
          /\ UNCHANGED <<head, history, tip, tracker>>
     ELSE Publish(<<journal.original>>, tracker, index) /\ Finish
  /\ UNCHANGED <<index, worktree, ignoring, stages, driver>>

\* skip and abort
cancelReplay(kind) ==
  /\ Active({kind})
  /\ IF journal.phase # "empty" /\ DOMAIN journal.saved # {} THEN Restore(journal.saved)
     ELSE UNCHANGED <<index, worktree, tracker, stages>>
  /\ Finish
  /\ UNCHANGED <<head, ignoring, history, tip, driver>>

-----------------------------------------------------------------------------
(* Rebase.                                                                  *)

\* oldest first; merge commits are refused
selectSteps(current, base) ==
  LET range == Reach[current] \ Reach[base]
  IN [k \in 1..Cardinality(range) |-> CHOOSE c \in range : Cardinality({d \in range : d <= c}) = k]
Linear(current, base) ==
  \A c \in Reach[current] \ Reach[base] : Len(history[c].parents) = 1

CleanWorktree == \A p \in Paths : index[p] # None => worktree[p] = index[p]

\* untracked files in the way of a reset that discards tracked changes; an
\* unmerged path is no index entry to it
hardResetBlockers(baseline, target) ==
  LET stray(q) == File(q) /\ ~Blob(index[q]) /\ baseline[q] = None
      met(p) == {a \in Ancestors[p] : stray(a) /\ target[a] = None}
      held(p) == ~File(p) /\ \E q \in Below[p] : stray(q) /\ ~Ignored(q)
  IN {p \in Paths :
        IF Blob(index[p])
        THEN IF index[p] # target[p] /\ met(p) # {} THEN \E a \in met(p) : ~Ignored(a)
             ELSE target[p] # None /\ held(p)
        ELSE /\ target[p] # None
             /\ IF baseline[p] # None THEN held(p)
                ELSE IF met(p) # {} THEN \E a \in met(p) : ~Ignored(a)
                ELSE IF File(p) THEN ~Ignored(p) ELSE held(p)}

\* what a rebase checks out: only the changes where the tracker proves them safe
Materialized(target) ==
  IF SparseClean(target) THEN checkoutSparseChanges(target)
  ELSE checkoutTreeInternal(index, worktree, target, Paths,
         [prune |-> TRUE, preserve |-> TRUE, discardUnmerged |-> FALSE])

materializeTree(target) ==
  /\ SparseClean(target) \/ checkoutBlockers(head, target, Paths, TRUE) = {}
  /\ Materialize(Materialized(target))

hardMaterializeTree(baseline, target) ==
  /\ hardResetBlockers(baseline, target) = {}
  /\ Materialize(HardReset(target))
  /\ tracker' = LET result == HardReset(target) IN Recorded(result.index, result.worktree, result.written)

rebase(upstream) ==
  LET selection == selectMergeBases(tip, upstream)
      base == CHOOSE c \in selection.bases : TRUE
      result == Materialized(TreeOf(upstream))
      recorded == Recorded(result.index, result.worktree, result.written)
  IN /\ Idle
     /\ trackerProvesClean \/ (Conflicts = {} /\ index = head /\ CleanWorktree)
     /\ selection.kind \in {"fast-forward", "divergent"} /\ Cardinality(selection.bases) = 1
     /\ selection.kind = "divergent" => Linear(tip, base)
     /\ materializeTree(TreeOf(upstream))
     /\ IF selection.kind = "fast-forward"
        THEN /\ tip' = upstream /\ head' = TreeOf(upstream)
             /\ tracker' = advanceIndexTrackerBaseline(recorded, TreeOf(upstream))
             /\ UNCHANGED <<history, journal, operation, before, driver>>
        ELSE /\ Begin([NoJournal EXCEPT !.kind = "rebase", !.phase = "running", !.original = tip,
                         !.source = upstream, !.parent = upstream, !.steps = selectSteps(tip, base)],
                      index, worktree)
             /\ driver' = [active |-> TRUE, proof |-> upstream]
             /\ tracker' = recorded
             /\ UNCHANGED <<head, history, tip>>
     /\ UNCHANGED ignoring

\* what a step that does not name the clean parent checks first
requireCurrentBaseline == index = TreeOf(journal.parent) /\ CleanWorktree

Advanced(result) ==
  [journal EXCEPT !.phase = "running", !.step = @ + 1, !.saved = <<>>,
                  !.results = Append(@, result), !.parent = IF result = 0 THEN @ ELSE result]

\* the next step, on the commits written so far; no ref names them yet
Advance(commits, result) ==
  /\ Len(commits) <= MaxCommits
  /\ history' = commits /\ journal' = Advanced(result)
  /\ driver' = [active |-> TRUE, proof |-> IF result = 0 THEN journal.parent ELSE result]
  /\ UNCHANGED <<head, tip, operation, before>>
AdvanceBy(tree) == Advance(Committed(<<journal.parent>>, tree), Len(history) + 1)
AdvanceSkipping == Advance(history, 0)
AdvanceUnlessSame(tree) ==
  LET same == tree = TreeOf(journal.parent)
  IN Advance(IF same THEN history ELSE Committed(<<journal.parent>>, tree),
             IF same THEN 0 ELSE Len(history) + 1)

Driving == driver.active /\ journal.kind = "rebase" /\ tip = journal.original

Source == journal.steps[journal.step + 1]
SourceParent == TreeOf(ParentOf(Source, 1))
CurrentStep == IntegrationStep(TreeOf(journal.parent), SourceParent, TreeOf(journal.parent), TreeOf(Source))
Stepping == Driving /\ journal.phase = "running" /\ journal.step < Len(journal.steps)

\* an empty commit is kept, one that becomes empty is skipped
StepOutcome(step) ==
  LET projected == step.projection.entries
      conflict == \E p \in DOMAIN step.plan : step.plan[p].kind = "conflict"
  IN \/ /\ TreeOf(Source) = SourceParent
        /\ AdvanceBy(TreeOf(journal.parent)) /\ UNCHANGED <<index, worktree, tracker, stages>>
     \/ /\ TreeOf(Source) # SourceParent /\ step.plan = <<>>
        /\ AdvanceSkipping /\ UNCHANGED <<index, worktree, tracker, stages>>
     \/ /\ step.plan # <<>> /\ ~Refusable(step) /\ conflict
        /\ Apply(projected)
        /\ journal' = [journal EXCEPT !.phase = "conflicted", !.saved = Snapshot(projected)]
        /\ driver' = NoDriver /\ tracker' = RecordedBy(projected)
        /\ UNCHANGED <<head, history, tip, operation, before>>
     \/ /\ step.plan # <<>> /\ ~Refusable(step) /\ ~conflict
        /\ Apply(projected) /\ tracker' = RecordedBy(projected)
        /\ AdvanceUnlessSame(AppliedIndex(projected))

applyOneStep ==
  /\ Stepping
  /\ driver.proof = journal.parent \/ requireCurrentBaseline
  /\ StepOutcome(CurrentStep)
  /\ UNCHANGED ignoring

\* a step that throws ends the call and keeps the running journal
StepRefused ==
  /\ Stepping
  /\ TreeOf(Source) # SourceParent /\ Refusable(CurrentStep)
  /\ driver' = NoDriver
  /\ UNCHANGED <<workspaceVars, stages, history, tip, journal, before>>

publishCompleted ==
  /\ Driving /\ journal.phase = "running" /\ journal.step = Len(journal.steps)
  /\ driver.proof = journal.parent \/ requireCurrentBaseline
  /\ tip' = journal.parent /\ head' = TreeOf(journal.parent)
  /\ tracker' = advanceIndexTrackerBaseline(tracker, TreeOf(journal.parent))
  /\ Finish /\ driver' = NoDriver
  /\ UNCHANGED <<index, worktree, ignoring, stages, history>>

\* a rebase that was interrupted goes on; one that stopped commits the resolution
Resumed ==
  /\ IF journal.phase = "running"
     THEN /\ requireCurrentBaseline
          /\ driver' = [active |-> TRUE, proof |-> journal.parent]
          /\ UNCHANGED <<head, index, worktree, tracker, stages, history, tip, journal, operation, before>>
     ELSE IF index = TreeOf(journal.parent)
     THEN hardMaterializeTree(index, index) /\ AdvanceSkipping
     ELSE /\ preflightTreeBuild(index)
          /\ AdvanceBy(index) /\ UNCHANGED <<index, worktree, tracker, stages>>
  /\ UNCHANGED ignoring

\* unstaged edits are not looked for
rebaseContinueDirty == Active({"rebase"}) /\ Conflicts = {} /\ Resumed

rebaseContinue == Active({"rebase"}) /\ Conflicts = {} /\ CleanWorktree /\ Resumed

rebaseSkip ==
  /\ Active({"rebase"}) /\ journal.phase = "conflicted"
  /\ hardMaterializeTree(TreeOf(journal.parent), TreeOf(journal.parent))
  /\ AdvanceSkipping
  /\ UNCHANGED ignoring

rebaseAbort ==
  /\ Active({"rebase"})
  /\ hardMaterializeTree(TreeOf(journal.parent), TreeOf(journal.original))
  /\ Finish
  /\ UNCHANGED <<head, ignoring, history, tip, driver>>

-----------------------------------------------------------------------------
(* What else happens: the program edits and stages, another checkout or      *)
(* update-ref moves the branch, the process dies.                           *)

Restaged == stages' = [p \in Paths |-> IF index'[p] = Unmerged THEN stages[p] ELSE NoStages]

Write1(p, id) ==
  /\ ~driver.active /\ Edit(p, id)
  /\ Restaged /\ UNCHANGED <<history, tip, journal, driver, before>>
Delete1(p) ==
  /\ ~driver.active /\ Unlink(p)
  /\ Restaged /\ UNCHANGED <<history, tip, journal, driver, before>>
Resolve(p) ==
  /\ ~driver.active /\ AddPath(p, TRUE)
  /\ Restaged /\ UNCHANGED <<history, tip, journal, driver, before>>
Removes(p) ==
  /\ ~driver.active /\ Rm(p, FALSE, TRUE)
  /\ Restaged /\ UNCHANGED <<history, tip, journal, driver, before>>
BranchMoved(c) ==
  /\ ~driver.active /\ tip' = c /\ head' = TreeOf(c)
  /\ UNCHANGED <<index, worktree, ignoring, tracker, operation, stages, history, journal, driver, before>>
Crash ==
  /\ driver.active /\ driver' = NoDriver
  /\ UNCHANGED <<workspaceVars, stages, history, tip, journal, before>>
-----------------------------------------------------------------------------
(* Properties.                                                              *)

\* The changes of a side survive at p: the entry itself, all it changed of the base, or a stage row.
SideKept(step, p, b, side, entry) ==
  LET projected == step.projection.entries
      result == AppliedIndex(projected)[p]
      changedText == {k \in DOMAIN TextOf[entry] : b = None \/ TextOf[b][k] # TextOf[entry][k]}
  IN \/ result = entry
     \/ /\ Blob(result) /\ b # None
        /\ \A k \in changedText : TextOf[result][k] = TextOf[entry][k]
        /\ Mode(entry) # Mode(b) => Mode(result) = Mode(entry)
     \/ \E q \in DOMAIN projected : projected[q].logical = p /\ projected[q].stages[side] = entry

\* Integrating two trees loses nothing and disturbs nothing: every entry a side
\* wrote survives in the index, merged, or as a conflict stage at its path or
\* its relocated name; a deletion stands unless the other side has a say; clean
\* results are in the working tree; untracked files stay.
LosesNothing(base, incoming, step) ==
  LET projected == step.projection.entries
      moved == {p \in DOMAIN projected : projected[p].logical # p}
      i == AppliedIndex(projected)
      w == AppliedWorktree(projected)
  IN ~Refusable(step) =>
       /\ \A p \in Paths :
            /\ head[p] \notin {base[p], None} => SideKept(step, p, base[p], "current", head[p])
            /\ incoming[p] \notin {base[p], None} => SideKept(step, p, base[p], "incoming", incoming[p])
            /\ base[p] # None /\ None \in {head[p], incoming[p]} /\ base[p] \in {head[p], incoming[p]}
                 => i[p] = None
            /\ base[p] = head[p] /\ base[p] = incoming[p] /\ p \notin moved => i[p] = base[p]
       /\ \A p \in DOMAIN projected : Blob(i[p]) => w[p] = i[p]
       /\ \A p \in Paths : Untracked(p) /\ ~Ignored(p) => w[p] = worktree[p]

MergeLosesNothing ==
  index = head /\ Idle => \A c \in DOMAIN history :
    selectMergeBases(tip, c).kind = "divergent" =>
      \A base \in selectedBaseTreeOwned(selectMergeBases(tip, c).bases) :
        LosesNothing(base, TreeOf(c), IntegrationStep(head, base, head, TreeOf(c)))

\* Abandoning a merge, cherry-pick or revert is possible as long as nothing else
\* was done, and then the index and every file are what they were; where the
\* program edited since, only what the operation touched comes back.
AbortRestores ==
  journal.kind \in {"merge", "cherry-pick", "revert"} =>
    LET saved == journal.saved
        allowed == requireRestorable(saved) /\ ~restoreBlocked(saved)
        i == RestoredIndex(saved)
        w == RestoredWorktree(saved)
    IN /\ before.left = <<index, worktree>> => allowed /\ i = before.index /\ w = before.worktree
       /\ allowed => \A p \in Paths :
            IF p \in DOMAIN saved THEN i[p] = before.index[p] /\ w[p] = before.worktree[p]
            ELSE i[p] = index[p] /\ w[p] = worktree[p]

Restores(result, target) ==
  /\ result.ok /\ result.index = target
  /\ \A p \in Paths : target[p] # None => result.worktree[p] = target[p]

\* A rebase has one result for each step it has passed, a commit on top of the
\* one before or none; while a call drives it the index and the files are those
\* of the parent its proof names, so no step overwrites an edit; and an abort
\* that is not refused brings the original tree back.
RebaseFaithful ==
  journal.kind = "rebase" =>
    LET made == {k \in DOMAIN journal.results : journal.results[k] # 0}
        previous(k) == {j \in made : j < k}
        onto(k) == IF previous(k) = {} THEN journal.source
                   ELSE journal.results[CHOOSE j \in previous(k) : \A i \in previous(k) : i <= j]
        target == TreeOf(journal.original)
    IN /\ Len(journal.results) = journal.step /\ journal.step <= Len(journal.steps)
       /\ journal.parent = onto(journal.step + 1)
       /\ \A k \in made : history[journal.results[k]].parents = <<onto(k)>>
       /\ driver.active => /\ driver.proof = journal.parent
                           /\ index = TreeOf(journal.parent) /\ CleanWorktree
       /\ hardResetBlockers(TreeOf(journal.parent), target) = {} => Restores(HardReset(target), target)

\* A merge that commits without stopping has every file that one side added: a
\* file and a directory at one path stop it (integration-structure-owned.ts).
CleanMergeComplete ==
  \A c \in DOMAIN history : Len(history[c].parents) = 2 =>
    LET common == bestCommonAncestors(history[c].parents[1], history[c].parents[2])
    IN \A side \in Parents(c), p \in Paths :
         TreeOf(side)[p] # None /\ (\A base \in common : TreeOf(base)[p] = None) => history[c].tree[p] # None

\* An active rebase can be aborted (rebaseAbort, hardMaterializeTree).
RebaseAbortable ==
  journal.kind = "rebase" /\ ~driver.active /\ tip = journal.original =>
    hardResetBlockers(TreeOf(journal.parent), TreeOf(journal.original)) = {}
=============================================================================
