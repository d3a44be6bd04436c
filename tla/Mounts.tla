------------------------------- MODULE Mounts -------------------------------
(***************************************************************************)
(* Path resolution and mounted views: how a path with "." , ".." and        *)
(* symbolic links becomes a stored path, how a view of several mounts finds *)
(* the mount a virtual path is in, and which store call a write through the *)
(* view ends in (packages/do/src/fs/store/resolve.ts, fs/mounted).          *)
(*                                                                         *)
(* A path is the sequence of its components as written, so "" and "." are   *)
(* components; a stored path has names only.  A link target is a sequence   *)
(* too, with a flag for an absolute one.  Lookups go through a batch that   *)
(* is fetched before the walk: a path that was not planned reads as absent. *)
(***************************************************************************)
EXTENDS Naturals, Sequences, SequencesExt, FiniteSets

CONSTANTS
  MtTrees,      \* the stored trees
  MtTables,     \* the mount tables, sets of [path, source, mode]
  MtInputs,     \* the paths asked for
  MtTargets,    \* the second paths of calls that take two
  MaxFollows    \* how many links one resolution follows

VARIABLE request  \* the call made of a view

NoRequest == [op |-> "none"]
Up == ".."
Skipped == {"", "."}

-----------------------------------------------------------------------------
(* Paths.                                                                   *)

isCanonicalPath(path) == \A k \in DOMAIN path : path[k] \notin Skipped \cup {Up}

Step(parts, component) ==
  IF component \in Skipped THEN parts
  ELSE IF component = Up THEN IF parts = <<>> THEN <<>> ELSE Front(parts)
  ELSE Append(parts, component)

\* where each leading part of a path ends up when no link is followed
LexicalPrefixes(start, pending) ==
  LET at[k \in 0..Len(pending)] == IF k = 0 THEN start ELSE Step(at[k - 1], pending[k])
  IN at

normalize(path) == LexicalPrefixes(<<>>, path)[Len(path)]
Parent(path) == IF path = <<>> THEN <<>> ELSE Front(path)
dirname(path) == Parent(normalize(path))

-----------------------------------------------------------------------------
(* Resolution.                                                              *)

\* the paths a walk may look at until it follows a link
plannedPaths(start, pending) ==
  LET at == LexicalPrefixes(start, pending) IN {at[k] : k \in 0..Len(pending)}

candidatesOf(walk) ==
  IF IsPrefix(walk.root, walk.path)
  THEN plannedPaths(walk.root, SubSeq(walk.path, Len(walk.root) + 1, Len(walk.path))) ELSE {}

Missing == [type |-> "none"]
nodesOn(t, planned) == [p \in planned |-> IF p \in DOMAIN t THEN t[p] ELSE Missing]
Looked(nodes, p) == IF p \in DOMAIN nodes THEN nodes[p] ELSE Missing
NotDirectory(nodes, p) == Looked(nodes, p).type \notin {"none", "dir"}

Found(path) == [kind |-> "path", path |-> path]
Failed(code) == [kind |-> "error", code |-> code]
Outside == [kind |-> "outside"]
ParentOf(rest) == [kind |-> "parent", rest |-> rest]

\* pending: what is left, its last callerTail components the caller's own
RECURSIVE resolveComponents(_, _, _, _, _)
resolveComponents(t, nodes, s, followFinal, confine) ==
  IF s.pending = <<>> THEN Found(s.resolved)
  ELSE IF NotDirectory(nodes, s.resolved) THEN Failed("ENOTDIR")
  ELSE
    LET component == Head(s.pending)
        rest == Tail(s.pending)
        candidate == Append(s.resolved, component)
        node == Looked(nodes, candidate)
        lost == IF node = Missing /\ s.missing = {} THEN {candidate} ELSE s.missing
        next(resolved, missing) ==
          resolveComponents(t, nodes, [s EXCEPT !.resolved = resolved, !.pending = rest, !.missing = missing],
                            followFinal, confine)
        from == IF node.type = "symlink" /\ node.absolute
                THEN SubSeq(s.resolved, 1, confine.depth) ELSE s.resolved
    IN CASE component \in Skipped -> next(s.resolved, s.missing)
         [] component = Up ->
              IF s.missing # {} THEN Failed("ENOENT")
              ELSE IF confine.depth < Len(s.resolved) THEN next(Front(s.resolved), {})
              ELSE IF confine.top THEN next(s.resolved, {})
              ELSE IF Len(s.pending) > s.callerTail THEN Outside
              ELSE ParentOf(rest)
         [] OTHER ->
              IF node.type # "symlink" \/ (~followFinal /\ rest = <<>>) THEN next(candidate, lost)
              ELSE IF s.follows >= MaxFollows THEN Failed("ELOOP")
              ELSE IF node.absolute /\ ~confine.top THEN Outside
              ELSE resolveComponents(t, nodesOn(t, plannedPaths(from, node.target \o rest)),
                     [resolved |-> from, pending |-> node.target \o rest,
                      callerTail |-> IF s.callerTail < Len(rest) THEN s.callerTail ELSE Len(rest),
                      follows |-> s.follows + 1, missing |-> {}],
                     followFinal, confine)

\* a canonical path with no link on the way is its own resolution
followsSymlink(nodes, path, depth, followFinal) ==
  \E k \in (depth + 1)..Len(path) :
    Looked(nodes, SubSeq(path, 1, k)).type = "symlink" /\ (followFinal \/ k < Len(path))

resolveWalk(t, nodes, walk, followFinal) ==
  LET depth == Len(walk.root)
      blocked == {k \in (depth + 1)..Len(walk.path) : NotDirectory(nodes, SubSeq(walk.path, 1, k - 1))}
  IN IF ~IsPrefix(walk.root, walk.path) THEN Outside
     ELSE IF isCanonicalPath(walk.path) /\ ~followsSymlink(nodes, walk.path, depth, followFinal)
     THEN IF blocked = {} THEN Found(walk.path) ELSE Failed("ENOTDIR")
     ELSE resolveComponents(t, nodes,
            [resolved |-> walk.root, pending |-> SubSeq(walk.path, depth + 1, Len(walk.path)),
             callerTail |-> Len(walk.path) - depth, follows |-> 0, missing |-> {}],
            followFinal, [depth |-> depth, top |-> walk.top])

\* one batch is fetched for all the walks
resolveMany(t, walks, followFinal) ==
  LET nodes == nodesOn(t, UNION {candidatesOf(walks[k]) : k \in DOMAIN walks})
  IN [k \in DOMAIN walks |-> resolveWalk(t, nodes, walks[k], followFinal)]
resolveWithin(t, mount, real, followFinal) ==
  resolveMany(t, << [root |-> mount.source, path |-> real, top |-> mount.path = <<>>] >>, followFinal)[1]

-----------------------------------------------------------------------------
(* The mount table.                                                         *)

\* no mount inside another
MountTable(table) == \A m, n \in table : m # n => ~IsPrefix(m.path, n.path)

SyntheticPaths(table) ==
  IF table = {} THEN {<<>>} ELSE UNION {Prefixes(m.path) \ {m.path} : m \in table}

AtMount(mount, real, virtual) == [kind |-> "mount", mount |-> mount, real |-> real, virtual |-> virtual]
AtSynthetic(path) == [kind |-> "synthetic", path |-> path]
AtAbsent(parentSynthetic) == [kind |-> "absent", parentSynthetic |-> parentSynthetic]

locateCanonical(table, path) ==
  LET over == {m \in table : IsPrefix(m.path, path)}
      mount == CHOOSE m \in over : TRUE
  IN IF over # {} THEN AtMount(mount, mount.source \o SubSeq(path, Len(mount.path) + 1, Len(path)), {path})
     ELSE IF path \in SyntheticPaths(table) THEN AtSynthetic(path)
     ELSE AtAbsent(Parent(path) \in SyntheticPaths(table))

Climbing(mount, real) == [kind |-> "climb", mount |-> mount, real |-> real]
entered(mount, rest) ==
  IF Up \in Range(rest) THEN Climbing(mount, mount.source \o rest)
  ELSE AtMount(mount, mount.source \o rest, {})

\* above the mounts every directory is known, so ".." is lexical
RECURSIVE walkAbove(_, _, _)
walkAbove(table, parts, pending) ==
  IF pending = <<>> THEN AtSynthetic(parts)
  ELSE LET current == Step(parts, Head(pending))
           rest == Tail(pending)
           at == {m \in table : m.path = current}
       IN CASE Head(pending) \in Skipped \cup {Up} -> walkAbove(table, current, rest)
            [] Head(pending) \notin Skipped \cup {Up} /\ at # {} -> entered(CHOOSE m \in at : TRUE, rest)
            [] OTHER -> IF current \in SyntheticPaths(table) THEN walkAbove(table, current, rest)
                        ELSE IF Up \in Range(rest) THEN Failed("ENOENT")
                        ELSE AtAbsent(Range(rest) \subseteq Skipped)

walkFrom(table, path) ==
  LET root == {m \in table : m.path = <<>>}
  IN IF root # {} THEN entered(CHOOSE m \in root : TRUE, path) ELSE walkAbove(table, <<>>, path)

\* a ".." inside a mount is resolved there, and goes on above when it climbs out
RECURSIVE locate(_, _, _)
locate(t, table, path) ==
  IF isCanonicalPath(path) THEN locateCanonical(table, path)
  ELSE LET step == walkFrom(table, path)
           resolved == resolveWithin(t, step.mount, step.real, FALSE)
       IN IF step.kind # "climb" THEN step
          ELSE CASE resolved.kind = "path" ->
                      locateCanonical(table, step.mount.path \o SubSeq(resolved.path, Len(step.mount.source) + 1, Len(resolved.path)))
                 [] resolved.kind = "outside" -> AtAbsent(FALSE)
                 [] resolved.kind = "parent" -> locate(t, table, Parent(step.mount.path) \o resolved.rest)
                 [] resolved.kind = "error" -> resolved

-----------------------------------------------------------------------------
(* Reads.                                                                   *)

\* the stored path a read ends at, or none
ReachedIn(t, location, followFinal) ==
  CASE location.kind = "mount" -> resolveWithin(t, location.mount, location.real, followFinal)
    [] location.kind = "synthetic" -> location
    [] OTHER -> Failed("ENOENT")
Reached(t, table, path, followFinal) == ReachedIn(t, locate(t, table, path), followFinal)

\* the path in the view; one that is in no mount is taken as it is written
virtualRealPath(mount, real) == mount.path \o SubSeq(real, Len(mount.source) + 1, Len(real))
Virtual(found, mount) == IF found.kind = "path" THEN Found(virtualRealPath(mount, found.path)) ELSE found
realpathIn(t, location, path) ==
  CASE location.kind = "synthetic" -> Found(location.path)
    [] location.kind = "absent" -> Found(normalize(path))
    [] location.kind = "mount" -> Virtual(resolveWithin(t, location.mount, location.real, TRUE), location.mount)
    [] OTHER -> location
realpathOf(t, table, path) == realpathIn(t, locate(t, table, path), path)

\* a directory above the mounts holds what leads to one
childrenOf(table, path) ==
  {c \in SyntheticPaths(table) \cup {m.path : m \in table} : c # <<>> /\ Front(c) = path}
Names(paths) == [kind |-> "names", names |-> {Last(p) : p \in paths}]
StoredNames(t, dir) ==
  IF dir.kind = "path" /\ dir.path \in DOMAIN t /\ t[dir.path].type = "dir"
  THEN Names({p \in DOMAIN t : p # <<>> /\ Front(p) = dir.path}) ELSE Failed("ENOENT")
readdirIn(t, table, location) ==
  CASE location.kind = "synthetic" -> Names(childrenOf(table, location.path))
    [] location.kind = "mount" -> StoredNames(t, resolveWithin(t, location.mount, location.real, TRUE))
    [] OTHER -> Failed("ENOENT")
readdirOf(t, table, path) == readdirIn(t, table, locate(t, table, path))

\* paths are resolved in one batch and those outside the mounts read as absent
readFilesOf(t, table, paths) ==
  LET located == [k \in DOMAIN paths |-> locate(t, table, paths[k])]
      inside == SelectSeq([k \in DOMAIN paths |-> k], LAMBDA k : located[k].kind = "mount")
      walks == [n \in DOMAIN inside |-> [root |-> located[inside[n]].mount.source, path |-> located[inside[n]].real,
                                          top |-> located[inside[n]].mount.path = <<>>]]
      found == resolveMany(t, walks, TRUE)
      failing == {located[k] : k \in DOMAIN paths} \cup Range(found)
  IN IF \E r \in failing : r.kind = "error" THEN CHOOSE r \in failing : r.kind = "error"
     ELSE [kind |-> "batch",
           files |-> [k \in DOMAIN paths |-> IF k \in Range(inside) THEN found[CHOOSE n \in DOMAIN inside : inside[n] = k]
                                              ELSE Outside]]

-----------------------------------------------------------------------------
(* Writes: the refusal, or the stored paths the store is asked to change and *)
(* those it is asked to remove or replace.                                   *)

Refused(code) == [kind |-> "refused", code |-> code]
Nothing == [kind |-> "nothing"]
Calls(changed, replaced) == [kind |-> "calls", changed |-> changed, replaced |-> replaced]

\* what an absent target means: the call creates parents, needs one, or needs the target
absentError(location, absent) ==
  IF absent = "creates" \/ (absent = "parent" /\ location.parentSynthetic) THEN Refused("EROFS")
  ELSE Refused("ENOENT")

writable(location, absent) ==
  CASE location.kind = "synthetic" -> Refused("EROFS")
    [] location.kind = "absent" -> absentError(location, absent)
    [] location.kind = "error" -> Refused(location.code)
    [] location.kind = "mount" -> IF location.mount.mode = "ro" THEN Refused("EROFS") ELSE location

isMountRootLexical(t, target) == target.real = target.mount.source

\* only a final "." or "/" may name the source through a link
endsInDirectory(target) == Last(target.real) \in Skipped
isMountRoot(t, target) ==
  IF target.real = <<>> \/ ~endsInDirectory(target) THEN target.real = target.mount.source
  ELSE resolveWithin(t, target.mount, target.real, FALSE) = Found(target.mount.source)

\* goes on with the resolved target
Then(t, target, followFinal, Go(_)) ==
  IF target.kind = "refused" THEN target
  ELSE LET found == resolveWithin(t, target.mount, target.real, followFinal)
       IN IF found.kind = "path" THEN Go(found.path)
          ELSE Refused(IF found.kind = "error" THEN found.code ELSE "ENOENT")
notMountRoot(t, target) ==
  IF target.kind # "refused" /\ isMountRoot(t, target) THEN Refused("EBUSY") ELSE target

Earliest(positions) == CHOOSE k \in positions : \A j \in positions : k <= j
Changes(p) == Calls({p}, {})
Replaces(p) == Calls({p}, {p})

\* writeFile, createFile, writeRange, truncate and chmod follow a final link
writeFileAt(t, location) == Then(t, notMountRoot(t, writable(location, "parent")), TRUE, Changes)
createFileAt(t, location) == Then(t, notMountRoot(t, writable(location, "creates")), TRUE, Changes)
changeInPlace(t, location) == Then(t, writable(location, "exists"), TRUE, Changes)
writeFileStreamOf(t, location) == Then(t, writable(location, "parent"), TRUE, Changes)

\* a new name at the lexical path, which must be free
Fresh(t, target, existing(_)) ==
  IF target.kind = "refused" THEN target
  ELSE LET canonical == [target EXCEPT !.real = normalize(target.real)]
           found == resolveWithin(t, canonical.mount, canonical.real, FALSE)
       IN IF canonical.real = <<>> THEN Refused("EEXIST")
          ELSE IF found.kind # "path"
          THEN Refused(IF found.kind = "error" THEN found.code ELSE "ENOENT")
          ELSE IF found.path \in DOMAIN t THEN existing(t[found.path].type) ELSE Changes(found.path)
Taken(type) == Refused("EEXIST")
TakenUnlessDir(type) == IF type = "dir" THEN Nothing ELSE Refused("EEXIST")

symlinkAt(t, location) == Fresh(t, notMountRoot(t, writable(location, "parent")), Taken)
mkdirOf(t, path, location, recursive) ==
  IF location.kind = "synthetic" \/ normalize(path) = <<>>
  THEN IF recursive /\ location.kind = "synthetic" THEN Nothing ELSE Refused("EEXIST")
  ELSE LET target == writable(location, IF recursive THEN "creates" ELSE "parent")
       IN IF target.kind # "refused" /\ isMountRoot(t, target)
          THEN IF recursive THEN Nothing ELSE Refused("EBUSY")
          ELSE IF recursive THEN Fresh(t, target, TakenUnlessDir) ELSE Fresh(t, target, Taken)

\* unlink and rmdir, rm, and removal of a batch
unlinkAt(t, location) == Then(t, notMountRoot(t, writable(location, "exists")), FALSE, Replaces)
rmAt(t, path, location, force) ==
  IF normalize(path) = <<>> THEN Refused("EPERM")
  ELSE IF force /\ location.kind = "absent" THEN Nothing
  ELSE unlinkAt(t, location)
removeFilesOf(t, paths, located, force) ==
  LET kept == {k \in DOMAIN paths : ~(located[k].kind = "absent" /\ force)}
      targets == [k \in kept |-> writable(located[k], "exists")]
      found == [k \in kept |-> resolveWithin(t, targets[k].mount, targets[k].real, FALSE)]
      gone == {found[k].path : k \in {j \in kept : found[j].kind = "path"}}
  IN IF \E k \in DOMAIN paths : normalize(paths[k]) = <<>> THEN Refused("EBUSY")
     ELSE IF \E k \in kept : targets[k].kind = "refused"
     THEN targets[Earliest({k \in kept : targets[k].kind = "refused"})]
     ELSE IF \E k \in kept : isMountRoot(t, targets[k]) THEN Refused("EBUSY")
     ELSE IF \E k \in kept : found[k].kind = "error" THEN Refused("ENOTDIR")
     ELSE IF ~force /\ (\E k \in kept : found[k].kind # "path") THEN Refused("ENOENT")
     ELSE Calls(gone, gone)

\* the new name of rename and link: the parent is resolved, then the name below it
NewName(t, target, Go(_)) ==
  LET canonical == normalize(target.real)
      parent == resolveWithin(t, target.mount, Parent(canonical), TRUE)
      at == resolveWithin(t, target.mount, Append(parent.path, Last(canonical)), FALSE)
  IN IF target.kind = "refused" THEN target
     ELSE IF canonical = <<>> THEN Refused("EEXIST")
     ELSE IF parent.kind # "path" THEN Refused("ENOENT")
     ELSE IF parent.path \notin DOMAIN t \/ t[parent.path].type # "dir" THEN Refused("ENOENT")
     ELSE IF at.kind # "path" THEN Refused("ENOENT")
     ELSE Go(at.path)

linkOf(t, source, to) ==
  LET target == notMountRoot(t, writable(to, "parent"))
      existing == resolveWithin(t, source.mount, source.real, TRUE)
  IN IF source.kind # "mount" THEN Refused(IF source.kind = "synthetic" THEN "EPERM" ELSE "ENOENT")
     ELSE IF target.kind = "refused" THEN target
     ELSE IF source.mount # target.mount THEN Refused("EXDEV")
     ELSE IF existing.kind # "path" THEN Refused("ENOENT")
     ELSE NewName(t, target, LAMBDA p : IF p \in DOMAIN t THEN Refused("EEXIST") ELSE Changes(p))

renameOf(t, old, new, source, to) ==
  LET moved == notMountRoot(t, IF source.kind = "absent" THEN Refused("ENOENT") ELSE writable(source, "exists"))
      target == notMountRoot(t, writable(to, "parent"))
      from == resolveWithin(t, moved.mount, moved.real, FALSE)
  IN IF <<>> \in {normalize(old), normalize(new)} THEN Refused("EINVAL")
     ELSE IF moved.kind = "refused" THEN moved
     ELSE IF target.kind = "refused" THEN target
     ELSE IF moved.mount # target.mount THEN Refused("EXDEV")
     ELSE IF from.kind # "path" \/ from.path \notin DOMAIN t THEN Refused("ENOENT")
     ELSE NewName(t, target, LAMBDA p : IF p = from.path THEN Nothing
                                        ELSE IF IsPrefix(from.path, p) THEN Refused("EINVAL")
                                        ELSE IF p \in DOMAIN t /\ (t[p].type = "dir") # (t[from.path].type = "dir")
                                        THEN Refused("ENOTDIR")
                                        ELSE Calls({from.path, p}, {from.path, p}))

\* a batch of files and directories; a mount point or a synthetic directory
\* already is the directory an entry names
writeFilesOf(t, entries, located, parents) ==
  LET named == {k \in DOMAIN entries : ~(located[k].kind = "synthetic" /\ entries[k].directory)}
      targets == [k \in named |-> writable(located[k], IF parents THEN "creates" ELSE "parent")]
      refusals == {k \in named : targets[k].kind = "refused"}
      roots == {k \in named : isMountRoot(t, targets[k])}
      written == named \ roots
      found == [k \in written |-> resolveWithin(t, targets[k].mount, targets[k].real, FALSE)]
  IN IF refusals # {} THEN targets[Earliest(refusals)]
     ELSE IF \E k \in roots : ~entries[k].directory THEN Refused("EBUSY")
     ELSE IF \E k \in written : found[k].kind # "path" THEN Refused("ENOENT")
     ELSE Calls({found[k].path : k \in written},
                {found[k].path : k \in {j \in written : ~entries[j].directory}})

copyFilesOf(t, source, to, parents) ==
  LET target == notMountRoot(t, writable(to, IF parents THEN "creates" ELSE "parent"))
      from == resolveWithin(t, source.mount, source.real, FALSE)
      at == resolveWithin(t, target.mount, target.real, FALSE)
  IN IF source.kind # "mount" THEN Refused(IF source.kind = "synthetic" THEN "EPERM" ELSE "ENOENT")
     ELSE IF target.kind = "refused" THEN target
     ELSE IF from.kind # "path" \/ at.kind # "path" THEN Refused("ENOENT")
     ELSE Calls({at.path}, {at.path})

touchFilesOf(t, location, create) ==
  Then(t, writable(location, IF create THEN "parent" ELSE "exists"), TRUE, Changes)

-----------------------------------------------------------------------------
(* Requests.                                                                *)

Locate(path) == locate(request.tree, request.table, path)

entriesOf(directory) == << [directory |-> directory], [directory |-> TRUE] >>
Outcome(t, at, to) ==
     CASE request.op = "writeFile" -> writeFileAt(t, at)
       [] request.op = "createFile" -> createFileAt(t, at)
       [] request.op = "chmod" -> changeInPlace(t, at)
       [] request.op = "stream" -> writeFileStreamOf(t, at)
       [] request.op = "symlink" -> symlinkAt(t, at)
       [] request.op = "mkdir" -> mkdirOf(t, request.path, at, request.flag)
       [] request.op = "unlink" -> unlinkAt(t, at)
       [] request.op = "rm" -> rmAt(t, request.path, at, request.flag)
       [] request.op = "removeFiles" -> removeFilesOf(t, <<request.path, request.to>>, <<at, to>>, request.flag)
       [] request.op = "link" -> linkOf(t, at, to)
       [] request.op = "rename" -> renameOf(t, request.path, request.to, at, to)
       [] request.op = "writeFiles" -> writeFilesOf(t, entriesOf(request.flag), <<at, to>>, request.flag)
       [] request.op = "copyFiles" -> copyFilesOf(t, at, to, request.flag)
       [] request.op = "touchFiles" -> touchFilesOf(t, at, request.flag)

Reads == {"stat", "readFile", "readdir", "realpath", "readFiles"}
Pairs == {"readFiles", "removeFiles", "link", "rename", "writeFiles", "copyFiles"}
Flagged == {"mkdir", "rm", "removeFiles", "writeFiles", "copyFiles", "touchFiles"}
Writes == ({"writeFile", "createFile", "chmod", "stream", "symlink", "unlink"} \cup Pairs \cup Flagged) \ Reads

MtInit == request = NoRequest
Ask(t, table, path) ==
  \E op \in Reads \cup Writes, to \in MtTargets, flag \in BOOLEAN :
    /\ op \notin Pairs => to = <<>>
    /\ op \notin Flagged => flag = FALSE
    /\ request' = [op |-> op, tree |-> t, table |-> table, path |-> path, to |-> to, flag |-> flag]
MtNext ==
  /\ request = NoRequest
  /\ \E t \in MtTrees, table \in MtTables, path \in MtInputs : MountTable(table) /\ Ask(t, table, path)

-----------------------------------------------------------------------------
(* What a view promises.                                                    *)

\* the namespace a view shows: the mounts' sources grafted onto directories
NodeIn(t, table, path) ==
  LET at == locateCanonical(table, path)
  IN CASE at.kind = "synthetic" -> [type |-> "dir"]
       [] at.kind = "mount" -> IF at.real \in DOMAIN t THEN t[at.real] ELSE Missing
       [] OTHER -> Missing
MountTop(table, path) == (CHOOSE m \in table : IsPrefix(m.path, path)).path

\* a walk of that namespace component by component, where a link that is
\* absolute or climbs out of its mount leads nowhere
RECURSIVE Namespace(_, _, _, _)
Namespace(t, table, s, followFinal) ==
  IF s.pending = <<>> THEN [kind |-> "path", path |-> s.at, climbed |-> s.climbed]
  ELSE
    LET component == Head(s.pending)
        rest == Tail(s.pending)
        child == Append(s.at, component)
        node == NodeIn(t, table, child)
        inLink == Len(s.pending) > s.own
        nowhere == [kind |-> "error", climbed |-> s.climbed]
        go(at, missing) == Namespace(t, table, [s EXCEPT !.at = at, !.pending = rest, !.missing = missing], followFinal)
    IN IF NodeIn(t, table, s.at).type \notin {"none", "dir"} THEN nowhere
       ELSE CASE component \in Skipped -> go(s.at, s.missing)
              [] component = Up ->
                   IF s.missing \/ (inLink /\ s.at # <<>> /\ s.at \in {m.path : m \in table}) THEN nowhere
                   ELSE Namespace(t, table, [s EXCEPT !.at = Parent(s.at), !.pending = rest,
                                                      !.climbed = s.climbed \/ s.at = <<>>], followFinal)
              [] OTHER ->
                   IF node.type # "symlink" \/ (~followFinal /\ rest = <<>>)
                   THEN go(child, s.missing \/ node = Missing)
                   ELSE IF s.follows >= MaxFollows \/ (node.absolute /\ MountTop(table, child) # <<>>) THEN nowhere
                   ELSE Namespace(t, table,
                          [at |-> IF node.absolute THEN <<>> ELSE s.at, pending |-> node.target \o rest,
                           own |-> IF s.own < Len(rest) THEN s.own ELSE Len(rest),
                           follows |-> s.follows + 1, missing |-> FALSE, climbed |-> s.climbed], followFinal)

NamespaceWalk(t, table, path, followFinal) ==
  Namespace(t, table, [at |-> <<>>, pending |-> path, own |-> Len(path), follows |-> 0, missing |-> FALSE,
                       climbed |-> FALSE], followFinal)

\* a root mount whose source is below the stored root: the paths planned for a
\* walk that tries to climb above it are above the source, so what the walk
\* looks at from then on reads as absent
LosesPlan(table, walked) == walked.climbed /\ \E m \in table : m.path = <<>> /\ m.source # <<>>

\* the same place as a stored path
Stored(table, found) ==
  IF found.kind # "path" THEN Failed("ENOENT")
  ELSE LET at == locateCanonical(table, found.path)
       IN CASE at.kind = "mount" -> Found(at.real)
            [] at.kind = "synthetic" -> at
            [] at.kind = "absent" -> Failed("ENOENT")

SameEnd(reached, expected) ==
  reached = expected \/ {reached.kind, expected.kind} = {"error"}
    \/ (expected.kind = "error" /\ reached.kind = "outside")
ReadEnds(reached, walked) ==
  LosesPlan(request.table, walked) \/ SameEnd(reached, Stored(request.table, walked))
Walked == NamespaceWalk(request.tree, request.table, request.path, TRUE)
ReadsNamespace(followFinal) ==
  ReadEnds(Reached(request.tree, request.table, request.path, followFinal),
           NamespaceWalk(request.tree, request.table, request.path, followFinal))

\* a listing shows what is there, and the real path names where the walk ends
ListsNamespace(listed, walked) ==
  LET shown == {p \in {Append(walked.path, n) : n \in {"d", "f", "l", "m", "o", "s"}} :
                  NodeIn(request.tree, request.table, p) # Missing}
  IN LosesPlan(request.table, walked)
     \/ IF walked.kind = "path" /\ NodeIn(request.tree, request.table, walked.path).type = "dir"
        THEN listed = Names(shown) ELSE listed.kind = "error"
NamesEnd(real, walked) ==
  LosesPlan(request.table, walked) \/ walked.kind # "path" \/ real = Found(walked.path)
    \/ locateCanonical(request.table, walked.path).kind = "absent"

\* what a batch reads for each path is what it reads for it alone
ReadsAlike(batch, alone) ==
  /\ batch.kind = "batch" =>
       \A k \in DOMAIN alone : batch.files[k].kind = "path" \/ alone[k].kind = "path" => batch.files[k] = alone[k]
  /\ batch.kind = "error" => \E k \in DOMAIN alone : alone[k].kind = "error"
BatchesAlike ==
  ReadsAlike(readFilesOf(request.tree, request.table, <<request.path, request.to>>),
             << Reached(request.tree, request.table, request.path, TRUE),
                Reached(request.tree, request.table, request.to, TRUE) >>)

WritesWithin(outcome, writables) ==
  outcome.kind = "calls" =>
    /\ \A p \in outcome.changed : \E m \in writables : IsPrefix(m.source, p)
    /\ \A p \in outcome.replaced : \E m \in writables : IsPrefix(m.source, p) /\ p # m.source
WritesInside ==
  WritesWithin(Outcome(request.tree, Locate(request.path), Locate(request.to)),
               {m \in request.table : m.mode = "rw"})

\* Mounted views (createMountedFilesystem): a read ends where a walk of the view's
\* namespace ends, alone or in a batch; a write changes only stored paths inside
\* the source of a writable mount and never removes or replaces the source itself.
ViewSound ==
  CASE request.op \in {"stat", "readFile"} -> ReadsNamespace(request.op = "readFile")
    [] request.op = "readdir" -> ListsNamespace(readdirOf(request.tree, request.table, request.path), Walked)
    [] request.op = "realpath" -> NamesEnd(realpathOf(request.tree, request.table, request.path), Walked)
    [] request.op = "readFiles" -> BatchesAlike
    [] request.op \in Writes -> WritesInside
    [] OTHER -> TRUE
=============================================================================
