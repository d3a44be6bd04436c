---------------------------- MODULE Integration ----------------------------
(***************************************************************************)
(* The three-way integration of trees that merge, cherry-pick, revert and   *)
(* rebase share: the rows of base, current and incoming are classified,     *)
(* contents are merged, a plan is projected onto index stages and working   *)
(* tree paths, applied under a guard, and undone from the saved state of    *)
(* the touched paths (packages/git/src/ops/integration, ops/merge).         *)
(*                                                                         *)
(* An identity stands for a mode and a blob; a blob is the sequence of its  *)
(* regions, and two sides conflict where they change one region apart.      *)
(* Paths are rows in byte order, so "d-" is between "d" and "d/x".          *)
(***************************************************************************)
EXTENDS Checkout

CONSTANTS
  TextOf,      \* its content, a sequence of regions
  Relocations  \* for a path and a side, the paths its file may be moved to

VARIABLE
  stages       \* the stage 1 to 3 rows of an unmerged path

Marker == "<>"
Binary == "bin"
Sides == {"current", "incoming"}
Other == [current |-> "incoming", incoming |-> "current"]
Stages(b, c, i) == [base |-> b, current |-> c, incoming |-> i]
NoStages == Stages(None, None, None)

Mode(id) == IF id = None THEN None ELSE ModeOf[id]
Regular(id) == Mode(id) \in {"file", "exec"}
IdOf(mode, text) == CHOOSE id \in Ids : ModeOf[id] = mode /\ TextOf[id] = text

-----------------------------------------------------------------------------
(* Rows.                                                                    *)

\* kind none: nothing to do; occupies: the path stays or becomes a blob
Row(kind, conflict, sides, result, mode, occupies) ==
  [kind |-> kind, conflict |-> conflict, stages |-> sides, result |-> result,
   mode |-> mode, content |-> {}, occupies |-> occupies]

\* the value both sides agree on, or the only one that changed
resolveDimension(b, c, i) ==
  IF c = i THEN {c} ELSE IF b = c THEN {i} ELSE IF b = i THEN {c} ELSE {}

\* a deletion on one side takes the deletion whatever the other side did
classifyRowDeleting(b, c, i) ==
  LET sides == Stages(b, c, i)
  IN IF c = i \/ b = i THEN Row("none", "", sides, c, {}, c # None)
     ELSE Row("clean", "", sides, i, {}, i # None)

classifyRow(b, c, i) ==
  LET sides == Stages(b, c, i)
      modes == {Mode(b), Mode(c), Mode(i)}
      mode == resolveDimension(Mode(b), Mode(c), Mode(i))
      text == resolveDimension(TextOf[b], TextOf[c], TextOf[i])
      conflict(reason) == Row("conflict", reason, sides, None, {}, TRUE)
  IN CASE c = i \/ b = i -> Row("none", "", sides, c, {}, c # None)
       [] b = c /\ c # i -> Row("clean", "", sides, i, {}, i # None)
       [] b \notin {c, i} /\ c # i ->
            CASE b = None -> conflict("add/add")
              [] b # None /\ None \in {c, i} -> conflict("modify/delete")
              [] b # None /\ None \notin {c, i} /\ "commit" \in modes -> conflict("gitlink")
              [] b # None /\ None \notin {c, i} /\ "commit" \notin modes /\ "link" \in modes -> conflict("symlink")
              [] OTHER ->
                   IF mode = {} THEN conflict("mode")
                   ELSE IF text = {} THEN Row("content", "", sides, None, mode, TRUE)
                   ELSE LET result == IdOf(CHOOSE m \in mode : TRUE, CHOOSE t \in text : TRUE)
                        IN IF result = c THEN Row("none", "", sides, c, {}, TRUE)
                           ELSE Row("clean", "", sides, result, {}, TRUE)

\* the paths above p whose row is still on the stack of prefixes when p is met:
\* a row in between that is not below one pops it
OpenPrefixes(rows, p) ==
  {a \in Ancestors[p] \cap DOMAIN rows :
     /\ rows[a].occupies
     /\ None \in {rows[a].stages.base, rows[a].stages.current, rows[a].stages.incoming}
     /\ \A q \in DOMAIN rows : Before[a, q] /\ Before[q, p] => a \in Ancestors[q]}

Structured(rows) ==
  LET nested(p) == rows[p].occupies /\ OpenPrefixes(rows, p) # {}
      clashes(p) == \/ nested(p)
                    \/ \E q \in Below[p] \cap DOMAIN rows : rows[q].occupies /\ p \in OpenPrefixes(rows, q)
  IN [p \in {q \in DOMAIN rows : rows[q].kind # "none" \/ clashes(q)} |->
        IF clashes(p) THEN Row("conflict", "file/directory", rows[p].stages, None, {}, TRUE) ELSE rows[p]]

classifyIntegrationStructureOwned(base, current, incoming) ==
  Structured([p \in {q \in Paths : /\ incoming \notin {base, current}
                                   /\ base[q] # None \/ current[q] # None \/ incoming[q] # None} |->
                classifyRow(base[p], current[p], incoming[p])])

-----------------------------------------------------------------------------
(* Contents.                                                                *)

EmptyText(text) == [k \in DOMAIN text |-> ""]

mergeText(b, c, i) ==
  IF \E k \in DOMAIN c : Binary \in {b[k], c[k], i[k]} THEN [kind |-> "binary", text |-> c]
  ELSE LET merged == [k \in DOMAIN c |->
                        IF c[k] = i[k] \/ b[k] = i[k] THEN c[k] ELSE IF b[k] = c[k] THEN i[k] ELSE Marker]
       IN [kind |-> IF \E k \in DOMAIN merged : merged[k] = Marker THEN "conflict" ELSE "clean",
           text |-> merged]

\* two regular files added apart are merged over an empty file
ContentCandidate(row) ==
  \/ row.kind = "content"
  \/ row.conflict = "add/add" /\ Regular(row.stages.current) /\ Regular(row.stages.incoming)

resolveContentCandidate(row) ==
  LET c == row.stages.current
      i == row.stages.incoming
      added == row.kind # "content"
      mode == IF added THEN {Mode(c)} ELSE row.mode
      reason == IF added THEN "add/add" ELSE "content"
      merged == mergeText(IF added THEN EmptyText(TextOf[c]) ELSE TextOf[row.stages.base], TextOf[c], TextOf[i])
  IN IF merged.kind = "clean" /\ ~(added /\ Mode(c) # Mode(i))
     THEN [row EXCEPT !.kind = "clean", !.conflict = "",
                      !.result = IdOf(CHOOSE m \in mode : TRUE, merged.text)]
     ELSE [row EXCEPT !.kind = "conflict", !.conflict = reason, !.mode = mode, !.content = {merged.text}]

\* the entries of the paths an integration changes
Resolved(rows) ==
  [p \in DOMAIN rows |-> IF ContentCandidate(rows[p]) THEN resolveContentCandidate(rows[p]) ELSE rows[p]]
Effective(entries) ==
  [p \in {q \in DOMAIN entries : ~(entries[q].kind = "clean" /\ entries[q].result = entries[q].stages.current)} |->
     entries[p]]
planIntegrationOwned(base, current, incoming) ==
  Effective(Resolved(classifyIntegrationStructureOwned(base, current, incoming)))

-----------------------------------------------------------------------------
(* Where a plan goes: index stages and working tree files by path.          *)

Projected(logical, zero, sides, file) ==
  [logical |-> logical, zero |-> zero, stages |-> sides, file |-> file]

\* the current side, else the incoming one, with the merged mode and content
selectedWorktree(entry) ==
  LET id == IF entry.stages.current # None THEN entry.stages.current ELSE entry.stages.incoming
      mode == IF entry.mode = {} THEN Mode(id) ELSE CHOOSE m \in entry.mode : TRUE
      text == IF entry.content = {} THEN TextOf[id] ELSE CHOOSE t \in entry.content : TRUE
  IN IF id = None THEN None ELSE IdOf(mode, text)

ordinary(p, entry) ==
  IF entry.kind = "clean" THEN Projected(p, entry.result, NoStages, entry.result)
  ELSE Projected(p, None, entry.stages, selectedWorktree(entry))

OfClass(sides, modes) == [s \in DOMAIN sides |-> IF Mode(sides[s]) \in modes THEN sides[s] ELSE None]
Link(id) == Mode(id) = "link"

\* a regular file and a symbolic link at one path
distinctMaterializableSides(entry) ==
  /\ entry.conflict \in {"add/add", "symlink"}
  /\ \E s \in Sides : Regular(entry.stages[s]) /\ Link(entry.stages[Other[s]])

FileSides(entry) == {s \in Sides : entry.stages[s] # None}
FileSide(entry) ==
  CHOOSE s \in Sides : entry.stages[s] # None /\ (entry.conflict = "file/directory" \/ Regular(entry.stages[s]))

Clash(plan, p) == plan[p].conflict = "file/directory"

\* the file/directory entries whose run of following entries, all below them, holds p
GroupOf(plan, p) ==
  {a \in Ancestors[p] \cap DOMAIN plan :
     Clash(plan, a) /\ \A q \in DOMAIN plan : Before[a, q] /\ Before[q, p] => a \in Ancestors[q]}
GroupRoot(plan, p) == CHOOSE a \in GroupOf(plan, p) : \A b \in GroupOf(plan, p) : Len(a) <= Len(b)
Root(plan, p) == Clash(plan, p) /\ GroupOf(plan, p) = {}

\* inside a group, what only the directory side has stays where it is
descendant(p, entry, side) ==
  IF entry.stages.base = None /\ entry.stages[side] # None /\ entry.stages[Other[side]] = None
  THEN Projected(p, entry.stages[side], NoStages, entry.stages[side])
  ELSE ordinary(p, entry)

\* the first name not reserved, or none
uniqueRelocation(p, side, reserved) ==
  LET names == Relocations[p][side]
      free == {n \in DOMAIN names : names[n] \notin reserved}
  IN IF free = {} THEN {} ELSE {names[CHOOSE n \in free : \A m \in free : n <= m]}

Relocating(plan, p) == Root(plan, p) \/ distinctMaterializableSides(plan[p])

\* a group's children are conflicts and its root has one file side
Projectable(plan, reserved, untracked) ==
  /\ \A p \in DOMAIN plan : Root(plan, p) => Cardinality(FileSides(plan[p])) = 1
  /\ \A p \in DOMAIN plan : GroupOf(plan, p) # {} => Clash(plan, p)
  /\ \A p \in DOMAIN plan : Relocating(plan, p) =>
       LET name == uniqueRelocation(p, FileSide(plan[p]), reserved)
       IN name # {} /\ name \cap untracked = {}

projectEntries(plan, reserved) ==
  LET moves == {p \in DOMAIN plan : Relocating(plan, p)}
      name == [p \in moves |-> CHOOSE q \in uniqueRelocation(p, FileSide(plan[p]), reserved) : TRUE]
      stay == {p \in DOMAIN plan : ~Root(plan, p)}
      moved(p) ==
        LET side == FileSide(plan[p])
            s == plan[p].stages
        IN Projected(p, None,
                     IF Root(plan, p) THEN [s EXCEPT ![Other[side]] = None] ELSE OfClass(s, {"file", "exec"}),
                     s[side])
      stays(p) ==
        IF distinctMaterializableSides(plan[p])
        THEN Projected(p, None, OfClass(plan[p].stages, {"link"}), plan[p].stages[Other[FileSide(plan[p])]])
        ELSE IF GroupOf(plan, p) # {}
        THEN descendant(p, plan[p], Other[FileSide(plan[GroupRoot(plan, p)])])
        ELSE ordinary(p, plan[p])
  IN [q \in stay \cup {name[p] : p \in moves} |->
        IF q \in stay THEN stays(q) ELSE moved(CHOOSE p \in moves : name[p] = q)]

WithAncestors(paths) == paths \cup UNION {Ancestors[p] : p \in paths}

Projection(plan, reserved, untracked) ==
  IF Projectable(plan, reserved, untracked) THEN [ok |-> TRUE, entries |-> projectEntries(plan, reserved)]
  ELSE [ok |-> FALSE, entries |-> <<>>]

\* names the index or a tree takes are passed over, names of untracked files refuse
projectIntegrationWithCollisionsOwned(plan, base, incoming) ==
  LET names == UNION {{Relocations[p][FileSide(plan[p])][n] : n \in DOMAIN Relocations[p][FileSide(plan[p])]}
                        : p \in {q \in DOMAIN plan : Relocating(plan, q)}}
      tracked == WithAncestors({p \in Paths : index[p] # None \/ base[p] # None \/ incoming[p] # None})
      untracked == WithAncestors({p \in Paths : Untracked(p)}) \cap names
      reserved == DOMAIN plan \cup (tracked \cap names)
  IN Projection(plan, reserved, untracked)

\* the paths an application may change
integrationTouched(projected) ==
  WithAncestors(DOMAIN projected \cup {projected[p].logical : p \in DOMAIN projected})

projectedIdentity(entry) ==
  IF entry.zero # None THEN entry.zero
  ELSE IF entry.stages.current # None THEN entry.stages.current
  ELSE IF entry.stages.incoming # None THEN entry.stages.incoming
  ELSE entry.stages.base

prospectiveIntegrationIndexEntriesOwned(projected) ==
  [p \in Paths |-> IF p \in DOMAIN projected THEN projectedIdentity(projected[p])
                   ELSE IF p \in integrationTouched(projected) THEN None ELSE index[p]]

\* no entry below the one right before it
preflightTreeBuild(tree) ==
  \A p \in Paths, q \in Paths :
    tree[p] # None /\ tree[q] # None /\ p \in Ancestors[q]
      => \E r \in Paths : tree[r] # None /\ Before[p, r] /\ Before[r, q]

-----------------------------------------------------------------------------
(* The virtual ancestor of two merge bases: every conflict is collapsed and  *)
(* a side that cannot stay is moved.                                        *)

modeRank == [file |-> 1, exec |-> 2, link |-> 3, commit |-> 4]

\* the entry that follows p in the plan is below it
FollowedBelow(rows, p) ==
  \E q \in Below[p] \cap DOMAIN rows : \A r \in DOMAIN rows : ~(Before[p, r] /\ Before[r, q])

\* the side of a conflict that moves, if one does
relocationRequests(rows, p) ==
  LET c == rows[p].stages.current
      i == rows[p].stages.incoming
  IN IF rows[p].kind # "conflict" THEN {}
     ELSE IF rows[p].conflict = "file/directory"
     THEN IF FollowedBelow(rows, p) /\ Cardinality(FileSides(rows[p])) = 1 THEN FileSides(rows[p]) ELSE {}
     ELSE IF None \in {c, i} \/ Mode(c) = Mode(i) \/ (Regular(c) /\ Regular(i))
             \/ rows[p].conflict \notin {"add/add", "symlink", "gitlink"} THEN {}
     ELSE IF modeRank[Mode(c)] < modeRank[Mode(i)] THEN {"current"} ELSE {"incoming"}

\* names of neither tree, with nothing below them
prepareVirtualRelocations(rows, current, incoming) ==
  LET occupied == {p \in Paths : current[p] # None \/ incoming[p] # None}
      moving == {p \in DOMAIN rows : relocationRequests(rows, p) # {}}
      taken == occupied \cup {q \in Paths : Below[q] \cap occupied # {}}
  IN [p \in moving |-> uniqueRelocation(p, CHOOSE s \in relocationRequests(rows, p) : TRUE, taken)]

collapseVirtualConflict(rows, p) ==
  LET c == rows[p].stages.current
      i == rows[p].stages.incoming
  IN IF ContentCandidate(rows[p])
     THEN LET merged == resolveContentCandidate(rows[p])
          IN IF merged.kind = "clean" THEN merged.result
             ELSE IdOf(CHOOSE m \in merged.mode : TRUE, CHOOSE t \in merged.content : TRUE)
     ELSE IF rows[p].kind = "clean" THEN rows[p].result
     ELSE IF relocationRequests(rows, p) = {"current"} THEN i
     ELSE IF relocationRequests(rows, p) = {"incoming"} THEN c
     ELSE IF c # None THEN c ELSE i

VirtualTree(rows, names, current) ==
  LET moved(q) == {p \in DOMAIN names : q \in names[p]}
      side(p) == CHOOSE s \in relocationRequests(rows, p) : TRUE
  IN [q \in Paths |->
        IF moved(q) # {} THEN LET p == CHOOSE p \in moved(q) : TRUE IN rows[p].stages[side(p)]
        ELSE IF q \in DOMAIN rows THEN collapseVirtualConflict(rows, q) ELSE current[q]]

planVirtualAncestorIntegrationOwned(base, current, incoming) ==
  LET rows == classifyIntegrationStructureOwned(base, current, incoming)
  IN VirtualTree(rows, prepareVirtualRelocations(rows, current, incoming), current)

-----------------------------------------------------------------------------
(* The guard and the application.                                           *)

requireSafeIntegrationWorktreeOwned(plan, baseline, incoming) ==
  plan = <<>> \/ checkoutBlockers(baseline, incoming, UNION {Within[p] : p \in DOMAIN plan}, TRUE) = {}

\* the paths met under a written path with nothing in between that ends its run
UnderRun(roots, present, p) ==
  \E a \in Ancestors[p] \cap roots :
    \A q \in present : Before[a, q] /\ Before[q, p] => a \in Ancestors[q]

\* no tracked or unignored path below a written one is lost, no touched row is unmerged
snapshotDrafts(projected) ==
  LET touched == integrationTouched(projected)
      present == touched \cup {p \in Paths : index[p] # None \/ worktree[p] # None}
  IN /\ \A p \in Paths :
          worktree[p] # None /\ p \notin touched /\ UnderRun(DOMAIN projected, present, p)
            => index[p] = None /\ Ignored(p)
     /\ \A p \in touched : index[p] # Unmerged

\* gitlinks are not supported
validateProjectedIndexEntries(projected) ==
  \A p \in DOMAIN projected :
    "commit" \notin {Mode(projected[p].zero), Mode(projected[p].file)} \cup {Mode(projected[p].stages[s]) : s \in {"base"} \cup Sides}

Unsafe(step) ==
  ~(/\ step.projection.ok
    /\ validateProjectedIndexEntries(step.projection.entries)
    /\ requireSafeIntegrationWorktreeOwned(step.plan, step.baseline, step.incoming)
    /\ snapshotDrafts(step.projection.entries))

\* every integration but a fast-forward also looks at the tree it will write
Refusable(step) ==
  Unsafe(step) \/ ~preflightTreeBuild(prospectiveIntegrationIndexEntriesOwned(step.projection.entries))

\* a planned and projected integration
Stepped(baseline, base, incoming, plan) ==
  [plan |-> plan, baseline |-> baseline, incoming |-> incoming,
   projection |-> projectIntegrationWithCollisionsOwned(plan, base, incoming)]
IntegrationStep(baseline, base, current, incoming) ==
  Stepped(baseline, base, incoming, planIntegrationOwned(base, current, incoming))

Conflicted(projected) == {p \in DOMAIN projected : projected[p].stages # NoStages}

AppliedIndex(projected) ==
  [p \in Paths |-> IF p \in DOMAIN projected
                   THEN IF projected[p].zero # None THEN projected[p].zero
                        ELSE IF projected[p].stages # NoStages THEN Unmerged ELSE None
                   ELSE IF p \in integrationTouched(projected) THEN None ELSE index[p]]

AppliedStages(projected) ==
  [p \in Paths |-> IF p \in DOMAIN projected THEN projected[p].stages
                   ELSE IF p \in integrationTouched(projected) THEN NoStages ELSE stages[p]]

\* what is replaced by a file of another kind, and files above a written path, go first
AppliedWorktree(projected) ==
  LET files == [p \in {q \in DOMAIN projected : projected[q].file # None} |-> projected[p].file]
      gone == {p \in DOMAIN projected : projected[p].file = None \/ worktree[p] = Dir}
                \cup {p \in integrationTouched(projected) : File(p) /\ Below[p] \cap DOMAIN files # {}}
  IN Write(Remove(worktree, gone), files)

\* the paths above a written one, and the one a file was moved from, are not saved
SnapshotProjected(projected) ==
  [p \in DOMAIN projected |-> [index |-> index[p], worktree |-> worktree[p]]]

\* what the journal saves of the touched paths
Snapshot(projected) ==
  [p \in integrationTouched(projected) |-> [index |-> index[p], worktree |-> worktree[p]]]

-----------------------------------------------------------------------------
(* Undoing an application.                                                  *)

\* like reset --merge: a changed tracked file or an untracked one in the way refuses
requireRestorable(saved) ==
  \A p \in DOMAIN saved :
    /\ worktree[p] # None => ~(Blob(index[p]) /\ worktree[p] # index[p])
    /\ File(p) /\ index[p] = None => ~Blob(saved[p].worktree)

restoreBlocked(saved) ==
  LET present == DOMAIN saved \cup {p \in Paths : worktree[p] # None}
      absent == {p \in DOMAIN saved : saved[p].worktree = None}
      roots == {p \in DOMAIN saved : saved[p].worktree # Dir}
  IN \E p \in Paths :
       /\ worktree[p] # None /\ UnderRun(roots, present, p)
       /\ p \notin absent /\ Below[p] \cap absent = {}

RestoredWorktree(saved) ==
  LET removed == {p \in DOMAIN saved :
                    \/ saved[p].worktree = None
                    \/ saved[p].worktree = Dir /\ Blob(worktree[p])
                    \/ Blob(saved[p].worktree) /\ worktree[p] = Dir}
      files == [p \in {q \in DOMAIN saved : saved[q].worktree # None} |-> saved[p].worktree]
  IN Write(Remove(worktree, removed), files)

RestoredIndex(saved) == [p \in Paths |-> IF p \in DOMAIN saved THEN saved[p].index ELSE index[p]]
RestoredStages(saved) == [p \in Paths |-> IF p \in DOMAIN saved THEN NoStages ELSE stages[p]]
=============================================================================
