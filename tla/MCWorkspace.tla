---------------------------- MODULE MCWorkspace ----------------------------
(* Instances of Operations: one checkout with a directory of two files, a    *)
(* file in place of the directory, and the names its file side moves to.     *)
EXTENDS Operations

CONSTANT MaxEdits   \* bounds what the program does while an operation is active

VARIABLES
  scenario,  \* what a behaviour is about
  edits,     \* the edits made while an operation was active
  skewed     \* history variable: the paths an advanced baseline was wrong for

mcVars == <<operationVars, scenario, edits, skewed>>

d == <<"d">>
dash == <<"d-">>
x == <<"d", "x">>
y == <<"d", "y">>
z == <<"d", "x", "z">>
dc == <<"dc">>
di == <<"di">>
MCPathOrder == <<d, x, z, y, dc, di>>
DashPathOrder == <<d, dash, x, dc, di>>
Tree(files) == files @@ EmptyTree

\* An identity is named by its regions, "+" for an executable file.
Regions == {"o", "a", "b", Marker}
Texts == Regions \X Regions
Name(mode, t) == (IF mode = "exec" THEN "+" ELSE "") \o t[1] \o t[2]
MCIds == {Name(m, t) : m \in {"file", "exec"}, t \in Texts} \cup {"ln"}
MCTextOf == [id \in MCIds \cup {None} |->
               IF id = "ln" THEN <<"l", "l">> ELSE IF id = None THEN <<>>
               ELSE CHOOSE t \in Texts : \E m \in {"file", "exec"} : Name(m, t) = id]
MCModeOf == [id \in MCIds |-> IF id = "ln" THEN "link"
               ELSE CHOOSE m \in {"file", "exec"} : \E t \in Texts : Name(m, t) = id]
MCRelocations == [p \in Paths |-> IF p = d THEN [current |-> <<dc>>, incoming |-> <<di>>]
                                  ELSE [current |-> <<>>, incoming |-> <<>>]]

-----------------------------------------------------------------------------
(* Staging and checkout.                                                     *)

MCIgnorable == {y}

\* A file where another branch has a directory, two files that change, or a
\* file in a directory of a directory.
Structure == [edits |-> {<<d, "oo">>, <<x, "ao">>}, named |-> {d, x},
              branches |-> {Tree(d :> "oo"), Tree(x :> "oo")}]
Siblings == [edits |-> {<<x, "oo">>, <<y, "oo">>}, named |-> {d, x},
             branches |-> {Tree(x :> "oo"), Tree(x :> "ao" @@ y :> "oo")}]
Nested == [edits |-> {<<d, "oo">>}, named |-> {d, x}, branches |-> {Tree(z :> "oo"), Tree(<<>>)}]
Plays == [structure |-> Structure, siblings |-> Siblings, nested |-> Nested]
Play == Plays[scenario]
MCBranches == UNION {Plays[s].branches : s \in DOMAIN Plays}
\* The full build of an index with a file above another one writes a tree with
\* two entries of one name, which no tree of this model is: such commits end it.
WellFormedHead == Layout(head')

\* A baseline that is wrong for a path stays wrong until the tracker starts anew.
Skew(paths) == skewed' = IF tracker'.complete THEN skewed \cup paths ELSE {}

\* Bounds: no ignore file and no stopped merge beside a change of structure, not
\* both beside two files, and only the former goes on after a wrong baseline.
Played == IF scenario # "siblings" THEN ~ignoring' /\ ~operation'
          ELSE ~(ignoring' /\ operation') /\ skewed' = {}

Advances ==
  \/ Commit /\ Skew(IF SparseCommit(tracker) THEN ShadowedRows ELSE {})
  \/ \E t \in Play.branches : FastForward(t) /\ Skew(IF tracker.complete THEN MovedRows ELSE {})

-----------------------------------------------------------------------------
(* Merge, cherry-pick, revert and rebase.                                    *)

Child(parents, tree) == [parents |-> parents, tree |-> tree]
At(p, ids) == {Tree(p :> id) : id \in ids}

\* Two sides that edit, add, delete, change type and put a file for a directory.
MergeSides == {Tree(<<>>), Tree(x :> "ao" @@ y :> "oo"), Tree(y :> "ob")}
                \cup At(d, {"oo", "ao", "+oo", "ln"}) \cup At(x, {"ao", "bo", "ob"})
Forks == {<<Child(<<>>, b), Child(<<1>>, c), Child(<<1>>, i)>> :
            b \in {Tree(<<>>), Tree(d :> "oo"), Tree(x :> "oo"), Tree(x :> "oo" @@ y :> "oo")},
            c \in MergeSides, i \in MergeSides}

\* Two merge bases.
CrissCrosses == {<<Child(<<>>, Tree(x :> "oo")), Child(<<1>>, l), Child(<<1>>, r),
                   Child(<<2, 3>>, c), Child(<<3, 2>>, i)>> :
                   l \in {Tree(x :> "ao"), Tree(d :> "ao")},
                   r \in {Tree(x :> "ob"), Tree(x :> "bo"), Tree(d :> "ln")},
                   c \in At(x, {"ao", "ab"}), i \in At(x, {"bo", "oo"}) \cup At(d, {"oo"})}

\* Two commits of a branch, and one of its upstream.
Lines == {<<Child(<<>>, Tree(x :> "oo")), Child(<<1>>, u), Child(<<1>>, a), Child(<<3>>, b)>> :
            u \in {Tree(x :> "ob"), Tree(x :> "ao"), Tree(d :> "oo"), Tree(<<>>)},
            a \in {Tree(x :> "oo"), Tree(x :> "ao"), Tree(x :> "oo" @@ y :> "oo")},
            b \in {Tree(x :> "ao"), Tree(d :> "ao")}}

CheckedOut(commits, c) ==
  /\ history = commits /\ tip = c
  /\ head = commits[c].tree /\ index = head
  /\ worktree = Write(EmptyTree, [p \in {q \in Paths : head[q] # None} |-> head[p]])
  /\ ignoring = FALSE /\ operation = FALSE
  /\ tracker = IF c = 3 THEN Incomplete ELSE resealIndexTracker(head, [p \in Paths |-> {}])

NoOperation ==
  /\ stages = [p \in Paths |-> NoStages] /\ journal = NoJournal
  /\ driver = NoDriver /\ before = NoBefore /\ edits = 0 /\ skewed = {}

Calls ==
  \/ /\ scenario = "merge"
     /\ \/ \E ff, commit \in BOOLEAN, c \in {2, 3, 5} \cap DOMAIN history : Merge(c, ff, commit)
        \/ mergeContinue \/ mergeAbort
  \/ /\ scenario = "replay"
     /\ \E kind \in {"cherry-pick", "revert"} :
          \/ \E source \in 1..4, mainline \in 0..1 : startReplay(kind, source, mainline)
          \/ continueReplay(kind) \/ cancelReplay(kind)
  \/ /\ scenario = "rebase"
     /\ \/ \E c \in 1..4 : rebase(c)
        \/ applyOneStep \/ StepRefused \/ publishCompleted
        \/ rebaseContinue \/ rebaseSkip \/ rebaseAbort \/ Crash

Meanwhile ==
  \/ Write1(x, "ab") \/ Write1(dc, "ab") \/ BranchMoved(1)
  \/ \E p \in {d, x} : Resolve(p) \/ Removes(p) \/ Delete1(p)

-----------------------------------------------------------------------------
MCInit ==
  /\ NoOperation
  /\ \/ /\ scenario \in DOMAIN Plays /\ WorkspaceInit
        /\ scenario # "siblings" => ~ignoring
        /\ history = <<>> /\ tip = 0
     \/ /\ scenario = "merge"
        /\ \/ \E h \in Forks : CheckedOut(h, 2)
           \/ \E h \in CrissCrosses : CheckedOut(h, 4)
           \/ \E h \in Lines : CheckedOut(h, 1)
     \/ /\ scenario = "replay" /\ \E h \in Lines : CheckedOut(h, 2)
     \/ /\ scenario = "rebase" /\ \E h \in Lines, c \in {3, 4} :
          CheckedOut(h, c) /\ (c = 3 => h[4].tree[d] # None)

MCNext ==
  /\ UNCHANGED scenario
  /\ \/ /\ scenario \in DOMAIN Plays
        /\ (WorkspaceSteps(Play) /\ Skew({})) \/ Advances
        /\ WellFormedHead /\ Played
        /\ UNCHANGED <<stages, history, tip, journal, driver, before, edits>>
     \/ Calls /\ UNCHANGED <<edits, skewed>>
     \/ /\ journal.kind # None /\ edits < MaxEdits /\ (scenario = "rebase" \/ edits = 0)
        /\ edits' = edits + 1 /\ Meanwhile /\ UNCHANGED skewed

MCSpec == MCInit /\ [][MCNext]_mcVars

-----------------------------------------------------------------------------
(* A rebase that nobody disturbs, and merges with a name that sorts between   *)
(* a directory and its contents.                                              *)

RebaseInit == NoOperation /\ scenario = "rebase" /\ \E h \in Lines : CheckedOut(h, 4)
RebaseSpec == RebaseInit /\ [][Calls /\ UNCHANGED <<scenario, edits, skewed>>]_mcVars

DashInit ==
  /\ NoOperation /\ scenario = "merge"
  /\ \E c, i \in {Tree(d :> "oo" @@ dash :> "oo"), Tree(dash :> "oo" @@ x :> "oo")} :
       CheckedOut(<<Child(<<>>, Tree(dash :> "oo")), Child(<<1>>, c), Child(<<1>>, i)>>, 2)
DashNext == Merge(3, TRUE, TRUE) /\ UNCHANGED <<scenario, edits, skewed>>
DashSpec == DashInit /\ [][DashNext]_mcVars

-----------------------------------------------------------------------------
\* A complete tracker tells the truth about every path its journal does not
\* list: the index row is the baseline's and the file is the index row's.
\* Excepted are the paths for which the baseline was advanced wrongly since the
\* tracker was last sealed by a full scan: where a branch had been moved under
\* the tracker when a merge fast-forwarded, and where a commit was built sparsely
\* from an index that held, or had held, a file above another.
TrackerSound == tracker.complete => \A p \in Paths \ skewed : CleanUnlessDirty(p)

\* While no baseline was advanced wrongly, what the tracker's candidates lead to
\* is what a full scan leads to. Status reports the same, except that it also
\* names an untracked directory that took the place of a file HEAD still has; a
\* commit built from the dirty index paths has the tree of the whole index,
\* unless the index holds or held a file above another, when it is refused or
\* drops one of the two (ShadowedRows); a whole-tree add stages the same; and
\* where the tracker proves a checkout clean, the guard would have allowed it and
\* the sparse checkout does what the full one does.
SparseExact == skewed = {} => SparseAgrees

\* A checkout that is not forced keeps every untracked, modified and staged
\* file and brings what it changes, unless it skips the guard on the word of a
\* tracker whose baseline was advanced wrongly; a fast-forward keeps them too,
\* but for a modified file whose index row already is the target's and a staged
\* file that stands above a path it writes.
CheckoutKeepsWork ==
  ~operation => \A t \in Branches :
    /\ skewed = {} \/ ~SparseClean(t) => CheckoutKeeps(t)
    /\ FastForwardKeeps(t)
=============================================================================
