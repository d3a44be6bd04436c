------------------------------- MODULE Paging -------------------------------
(***************************************************************************)
(* Paged reading of the file system of packages/do: scan, scanStream,      *)
(* globPage, discoverFiles, discoverFilesContaining and listEntries, in    *)
(* the store and through a mounted view (fs/store/scan*, fs/mounted).      *)
(* Each page is one call; between two pages anyone may change the tree.    *)
(*                                                                         *)
(* The order of paths is the order of their bytes, and a name may sort     *)
(* between a directory and what is below it ("a" < "a-" < "a/x"), so a     *)
(* path is the sequence of its characters, each a number that keeps the    *)
(* order: "-" < "/" < "0" < letters.                                       *)
(***************************************************************************)
EXTENDS Integers, Sequences, FiniteSets, SequencesExt, FiniteSetsExt, TLC

Slash == 2
Zero == 3
Star == 9       \* "*" in a pattern

CONSTANTS PgTrees,       \* the trees a reader may start from: path -> kind
          PgChanges,     \* changes between pages: [path, kind], kind "none" removes
          PgTables,      \* mount tables: sequences of [path, source] in path order
          PgCalls,       \* paged calls
          PgLinks,       \* the directories the symbolic link at PgLink may lead to
          PgLink,        \* a real path that is a symbolic link to a directory
          PgPatternMax,  \* GLOB_PATTERN_MAX_BYTES
          PgMaxChanges   \* bounds the changes between pages

\* A kind is "dir", "link", or a regular file: one chunk that holds the searched
\* bytes ("hit"), one chunk that does not ("miss"), or several chunks ("large").
Regular == {"hit", "miss", "large"}

VARIABLES tree,    \* the real paths with their kinds
          link,    \* where the link leads
          view,    \* the mount table in use; <<>> reads the store itself
          reader,  \* the paged call in progress
          epoch,   \* the mutation epoch of the file system
          steady   \* rows visible since the call began

pgVars == <<tree, link, view, reader, epoch, steady>>

-----------------------------------------------------------------------------
(* Paths. *)

Before(a, b) ==
    LET shared == DOMAIN a \cap DOMAIN b
        differ == {k \in shared : a[k] # b[k]}
    IN  IF differ = {} THEN Len(a) < Len(b) ELSE a[Min(differ)] < b[Min(differ)]

PgRoot == <<Slash>>
Below(directory) == IF directory = PgRoot THEN PgRoot ELSE directory \o <<Slash>>
subtreeSuccessor(directory) == IF directory = PgRoot THEN <<Zero>> ELSE directory \o <<Zero>>
Under(path, directory) == path # directory /\ IsPrefix(Below(directory), path)

Dirname(path) ==
    LET slash == Max({k \in DOMAIN path : path[k] = Slash})
    IN  IF slash = 1 THEN PgRoot ELSE SubSeq(path, 1, slash - 1)

Ranked(rows, Less(_, _)) ==
    [k \in 1..Cardinality(rows) |->
        CHOOSE p \in rows : Cardinality({q \in rows : Less(q, p)}) = k - 1]
Sorted(paths) == Ranked(paths, Before)
Take(rows, limit) == SubSeq(rows, 1, Min({limit, Len(rows)}))

-----------------------------------------------------------------------------
(* Pages of the store. *)

\* scan: rows strictly below the root, past the cursor, at most `limit`.
\* `after` is a path or <<>>; `skip` the directory of afterSubtree, or <<>>.
scan(t, root, after, skip, filesOnly, limit) ==
    Take(Sorted({p \in DOMAIN t :
            /\ Before(Below(root), p) /\ Before(p, subtreeSuccessor(root))
            /\ after = <<>> \/ Before(after, p)
            /\ skip = <<>> \/ ~Before(p, subtreeSuccessor(skip))
            /\ filesOnly => t[p] # "dir"}), limit)

\* SQLite's GLOB over a whole path.
RECURSIVE Globbed(_, _)
Globbed(pattern, path) ==
    IF pattern = <<>> THEN path = <<>>
    ELSE IF Head(pattern) = Star
    THEN \E k \in 0..Len(path) : Globbed(Tail(pattern), SubSeq(path, k + 1, Len(path)))
    ELSE path # <<>> /\ Head(path) = Head(pattern) /\ Globbed(Tail(pattern), Tail(path))

\* The rows of GLOB_SQL, DISCOVER_FILES_SQL and SEARCH_SQL: every path, the
\* regular files outside the excluded roots, and the files that contain the
\* bytes or may contain them.
Selected(t, kind, excluded, p) ==
    CASE kind = "glob" -> TRUE
      [] kind = "discover" -> t[p] \in Regular /\ \A x \in excluded : ~Under(p, x)
      [] kind = "search" -> t[p] \in {"hit", "large"}

\* globPage, discoverFiles and discoverFilesContaining ask for one row more than
\* the limit, which tells whether another page follows.
FirstOf(found, limit) ==
    [rows |-> Take(found, limit), next |-> IF Len(found) > limit THEN found[limit] ELSE <<>>]

keysetPage(t, root, kind, pattern, excluded, after, limit) ==
    FirstOf(Sorted({p \in DOMAIN t :
                /\ Before(Below(root), p) /\ Before(p, subtreeSuccessor(root))
                /\ after = <<>> \/ Before(after, p)
                /\ Globbed(pattern, p) /\ Selected(t, kind, excluded, p)}), limit)

\* A row of listEntries: a directory with an entry, or with <<>> when it is empty.
RowBefore(a, b) == \/ Before(a[1], b[1])
                   \/ a[1] = b[1] /\ Before(a[2], b[2])

Groups(t, directories) ==
    UNION {LET entries == {p \in DOMAIN t : p # PgRoot /\ Dirname(p) = d}
           IN  {<<d, p>> : p \in IF entries = {} THEN {<<>>} ELSE entries} : d \in directories}

listEntries(t, root, after, recursive, limit) ==
    LET directories == {root} \cup {p \in DOMAIN t : recursive /\ t[p] = "dir" /\ Under(p, root)}
    IN  FirstOf(Ranked({r \in Groups(t, directories) : after = <<>> \/ RowBefore(after, r)},
                       RowBefore), limit)

-----------------------------------------------------------------------------
(* The mounted view. *)

Prefix(m) == IF m.path = PgRoot THEN <<>> ELSE m.path
Base(m) == IF m.source = PgRoot THEN <<>> ELSE m.source

NonRoot(path) == IF path = <<>> THEN PgRoot ELSE path
RestOf(prefix, path) == IF path = PgRoot THEN <<>> ELSE SubSeq(path, Len(prefix) + 1, Len(path))

virtualOf(m, real) == NonRoot(Prefix(m) \o RestOf(Base(m), real))
realIn(m, path) == NonRoot(Base(m) \o RestOf(Prefix(m), path))
inMount(m, path) == path = m.path \/ IsPrefix(Prefix(m) \o <<Slash>>, path)

\* The directories above the mounts; "/" is one unless it is a mount.
Synthetic(table) ==
    IF table = <<>> THEN {}
    ELSE {PgRoot : m \in {n \in Range(table) : n.path # PgRoot}}
           \cup UNION {{SubSeq(m.path, 1, k - 1) : k \in {j \in 2..Len(m.path) : m.path[j] = Slash}}
                       : m \in Range(table)}

childrenOf(table, directory) ==
    {p \in Synthetic(table) \cup {m.path : m \in Range(table)} :
        p # PgRoot /\ Dirname(p) = directory}

\* itemsUnder: points (synthetic directories, mount roots) and one range per
\* mount, in the order of the keys they start at.
itemsUnder(table, root) ==
    Ranked(
        {[kind |-> "point", key |-> p, mounted |-> FALSE] : p \in {q \in Synthetic(table) : Under(q, root)}}
          \cup UNION {{[kind |-> "point", key |-> m.path, mounted |-> TRUE],
                       [kind |-> "tree", key |-> Prefix(m) \o <<Slash>>, mounted |-> TRUE]}
                      : m \in {n \in Range(table) : Under(n.path, root)}},
        LAMBDA a, b : Before(a.key, b.key))

MountOf(table, item) == CHOOSE m \in Range(table) : item.key \in {m.path, Prefix(m) \o <<Slash>>}

\* pointVisible.
PointVisible(path, after, skip) ==
    IF skip # <<>> THEN ~Before(path, subtreeSuccessor(skip))
    ELSE after = <<>> \/ Before(after, path)

\* resumeIn: where a page resumes inside one mount.
resumeIn(m, after, skip) ==
    LET upper == subtreeSuccessor(m.path)
        lower == Prefix(m) \o <<Slash>>
        none == [skipped |-> TRUE, after |-> <<>>, skip |-> <<>>]
        whole == [none EXCEPT !.skipped = FALSE]
    IN  IF skip # <<>>
        THEN IF inMount(m, skip) THEN [whole EXCEPT !.skip = realIn(m, skip)]
             ELSE IF Before(subtreeSuccessor(skip), upper) THEN whole ELSE none
        ELSE IF after = <<>> THEN whole
        ELSE IF ~Before(after, upper) THEN none
        ELSE IF Before(after, lower) THEN whole
        ELSE [whole EXCEPT !.after = realIn(m, after)]

Rebased(m, rows) == [k \in DOMAIN rows |-> virtualOf(m, rows[k])]

ScanMount(t, m, real, after, skip, filesOnly, limit) ==
    LET resume == resumeIn(m, after, skip)
    IN  IF resume.skipped THEN <<>>
        ELSE Rebased(m, scan(t, real, resume.after, resume.skip, filesOnly, limit))

\* mountRootStat: a mount whose source was removed has no entry.
Present(t, table, path) == \A m \in Range(table) : m.path = path => m.source \in DOMAIN t

scanAbove(t, table, root, after, skip, filesOnly, limit) ==
    FoldLeft(LAMBDA out, item :
        IF Len(out) >= limit THEN out
        ELSE IF item.kind = "point"
        THEN IF filesOnly \/ ~PointVisible(item.key, after, skip) \/ ~Present(t, table, item.key)
             THEN out ELSE Append(out, item.key)
        ELSE LET m == MountOf(table, item)
             IN  out \o ScanMount(t, m, m.source, after, skip, filesOnly, limit - Len(out)),
        <<>>, itemsUnder(table, root))

\* mountPattern: the positions the pattern can be at after the mount's path.  One
\* position makes an exact real pattern, unless it is too long for SQLite; several
\* make one that matches more, and what it finds is filtered.
Closure(pattern, states) ==
    states \cup {j \in 1..Len(pattern) + 1 : \E s \in states :
                    s <= j /\ \A k \in s..j - 1 : pattern[k] = Star}

statesAfter(pattern, text) ==
    FoldLeft(LAMBDA states, char : Closure(pattern,
                {IF pattern[s] = Star THEN s ELSE s + 1 :
                    s \in {n \in states : n <= Len(pattern) /\ pattern[n] \in {Star, char}}}),
             Closure(pattern, {1}), text)

mountPattern(pattern, m) ==
    LET states == statesAfter(pattern, Prefix(m))
        rest(s) == SubSeq(pattern, s, Len(pattern))
        last == Max(states)
        exact == Base(m) \o rest(last)
    IN  IF states = {} THEN [none |-> TRUE, exact |-> FALSE, real |-> <<>>]
        ELSE IF Cardinality(states) = 1 /\ Len(exact) <= PgPatternMax
        THEN [none |-> FALSE, exact |-> TRUE, real |-> exact]
        ELSE [none |-> FALSE, exact |-> FALSE,
              real |-> IF last <= Len(pattern) /\ pattern[last] = Star THEN rest(last)
                       ELSE <<Star>> \o rest(last)]

\* excludedIn: the excluded roots inside one mount; a mount below one is left out.
Excludes(m, excluded) == \E x \in excluded : x = m.path \/ Under(m.path, x)
excludedIn(m, excluded) == {realIn(m, x) : x \in {y \in excluded : IsPrefix(Prefix(m) \o <<Slash>>, y)}}

\* globPageFrom, discoverFrom and searchFrom over the items of the root.
searchFrom(t, table, items, real, kind, pattern, excluded, after, limit) ==
    FoldLeft(LAMBDA page, item :
        IF page.stop THEN page
        ELSE IF Len(page.rows) >= limit
        THEN [page EXCEPT !.stop = TRUE, !.next = IF kind = "glob" THEN Last(page.rows) ELSE <<>>]
        ELSE IF item.kind = "point"
        THEN IF kind = "glob" /\ PointVisible(item.key, after, <<>>) /\ Globbed(pattern, item.key)
             THEN [page EXCEPT !.rows = Append(@, item.key)] ELSE page
        ELSE LET m == MountOf(table, item)
                 translated == mountPattern(pattern, m)
                 resume == resumeIn(m, after, <<>>)
                 found == keysetPage(t, IF real = <<>> THEN m.source ELSE real, kind, translated.real,
                                     excludedIn(m, excluded), resume.after, limit - Len(page.rows))
                 kept == SelectSeq(Rebased(m, found.rows),
                                   LAMBDA p : translated.exact \/ Globbed(pattern, p))
             IN  IF translated.none \/ resume.skipped \/ (kind = "discover" /\ Excludes(m, excluded))
                 THEN page
                 ELSE [rows |-> page.rows \o kept, stop |-> found.next # <<>>,
                       next |-> IF found.next = <<>> THEN <<>> ELSE virtualOf(m, found.next)],
        [rows |-> <<>>, stop |-> FALSE, next |-> <<>>], items)

\* groupsUnder: the directories whose entries are listed, in order.  A mount whose
\* root and subtree are adjacent is listed at once ("all"), otherwise in two parts.
GroupKey(g) == IF g.part = "tree" THEN g.directory \o <<Slash>> ELSE g.directory

\* Groups that list every mount at once, whatever sorts between its root and below.
GroupsTogether(table, root, recursive) ==
    Ranked({[directory |-> d, part |-> "synthetic"] :
                    d \in {root} \cup {q \in Synthetic(table) : recursive /\ Under(q, root)}}
              \cup {[directory |-> m.path, part |-> "all"] :
                    m \in {n \in Range(table) : recursive /\ Under(n.path, root)}},
            LAMBDA a, b : Before(GroupKey(a), GroupKey(b)))

groupsUnder(table, root, recursive) ==
    LET items == itemsUnder(table, root)
        keys == {items[k].key : k \in DOMAIN items}
        parts(m) == IF \E key \in keys : Before(m.path, key) /\ Before(key, m.path \o <<Slash>>)
                    THEN {"root", "tree"} ELSE {"all"}
        synthetic == {root} \cup {q \in Synthetic(table) : recursive /\ Under(q, root)}
        mounts == {n \in Range(table) : recursive /\ Under(n.path, root)}
    IN  Ranked({[directory |-> d, part |-> "synthetic"] : d \in synthetic}
                       \cup UNION {{[directory |-> m.path, part |-> x] : x \in parts(m)} : m \in mounts},
                     LAMBDA a, b : Before(GroupKey(a), GroupKey(b)))

\* covers: whether a cursor in this directory resumes inside the group.
Covers(g, directory) ==
    \/ g.part \in {"root", "all"} /\ directory = g.directory
    \/ g.part \in {"tree", "all"} /\ Under(directory, g.directory)

realCursor(m, cursor) == <<realIn(m, cursor[1]), IF cursor[2] = <<>> THEN <<>> ELSE realIn(m, cursor[2])>>
virtualItem(m, row) == <<virtualOf(m, row[1]), IF row[2] = <<>> THEN <<>> ELSE virtualOf(m, row[2])>>
VirtualItems(m, rows) == [k \in DOMAIN rows |-> virtualItem(m, rows[k])]

pageOf(rows, more) == [rows |-> rows, next |-> IF more /\ rows # <<>> THEN Last(rows) ELSE <<>>]

\* One group of listAbove, with `wanted` rows left: the rows, and whether more follow.
ListGroup(t, table, g, after, wanted) ==
    LET m == CHOOSE n \in Range(table) : n.path = g.directory
        present == {p \in childrenOf(table, g.directory) : Present(t, table, p)}
        children == Ranked({<<g.directory, p>> : p \in
                        {q \in IF present = {} THEN {<<>>} ELSE present :
                            \/ after = <<>> \/ Before(after[1], g.directory)
                            \/ after[2] # <<>> /\ Before(after[2], q)}}, RowBefore)
        cursor == IF after # <<>> /\ Covers(g, after[1]) THEN realCursor(m, after)
                  ELSE IF g.part = "tree" THEN <<m.source, subtreeSuccessor(m.source)>> ELSE <<>>
        found == listEntries(t, m.source, cursor, g.part # "root", wanted)
        none == [rows |-> <<>>, more |-> FALSE]
    IN  IF g.part = "synthetic"
        THEN IF after # <<>> /\ Before(g.directory, after[1]) THEN none
             ELSE [rows |-> Take(children, wanted), more |-> Len(children) > wanted]
        ELSE IF after # <<>> /\ ~Covers(g, after[1]) /\ ~Before(after[1], GroupKey(g)) THEN none
        ELSE [rows |-> VirtualItems(m, found.rows), more |-> found.next # <<>>]

listAbove(t, table, root, after, recursive, limit) ==
    LET page == FoldLeft(LAMBDA out, g :
                    IF out.more THEN out
                    ELSE IF Len(out.rows) >= limit THEN [out EXCEPT !.more = TRUE]
                    ELSE LET found == ListGroup(t, table, g, after, limit - Len(out.rows))
                         IN  [rows |-> out.rows \o found.rows, more |-> found.more],
                    [rows |-> <<>>, more |-> FALSE], groupsUnder(table, root, recursive))
    IN  pageOf(page.rows, page.more)

-----------------------------------------------------------------------------
(* The root of a call: the real directory it resolves to, kept in a cache  *)
(* between its pages while nothing is written.                             *)

resolveRoot(target, input) ==
    LET follow(real) == IF real = PgLink THEN target ELSE real
        mounts == {m \in Range(view) : inMount(m, input)}
        m == CHOOSE n \in mounts : TRUE
        real == follow(realIn(m, input))
    IN  IF view = <<>> THEN [kind |-> "store", mount |-> <<>>, real |-> follow(input)]
        ELSE IF input \in Synthetic(view) THEN [kind |-> "above", mount |-> <<>>, real |-> input]
        ELSE IF mounts = {} \/ ~(real = m.source \/ Under(real, m.source))
        THEN [kind |-> "none", mount |-> <<>>, real |-> input]
        ELSE [kind |-> "mount", mount |-> m, real |-> real]

\* scanPage and scan.
ScanPage(root, after, skip, filesOnly, limit) ==
    CASE root.kind = "store" -> scan(tree, root.real, after, skip, filesOnly, limit)
      [] root.kind = "mount" -> ScanMount(tree, root.mount, root.real, after, skip, filesOnly, limit)
      [] root.kind = "above" -> scanAbove(tree, view, root.real, after, skip, filesOnly, limit)
      [] root.kind = "none" -> <<>>

ListPage(root, after, recursive, limit) ==
    CASE root.kind = "store" -> listEntries(tree, root.real, after, recursive, limit)
      [] root.kind = "above" -> listAbove(tree, view, root.real, after, recursive, limit)
      [] root.kind = "none" -> pageOf(IF after # <<>> /\ ~Before(after[1], root.real) THEN <<>>
                                      ELSE <<<<root.real, <<>>>>>>, FALSE)
      [] root.kind = "mount" ->
            IF after # <<>> /\ ~inMount(root.mount, after[1]) /\ Before(root.mount.path, after[1])
            THEN pageOf(<<>>, FALSE)
            ELSE LET found == listEntries(tree, root.real,
                                IF after # <<>> /\ inMount(root.mount, after[1])
                                THEN realCursor(root.mount, after) ELSE <<>>, recursive, limit)
                 IN  pageOf(VirtualItems(root.mount, found.rows), found.next # <<>>)

KeysetPage(root, call, after) ==
    LET whole == [kind |-> "tree", key |-> Prefix(root.mount) \o <<Slash>>, mounted |-> TRUE]
    IN  CASE root.kind = "store" ->
                keysetPage(tree, root.real, call.kind, call.pattern, call.excluded, after, call.limit)
          [] root.kind = "above" ->
                searchFrom(tree, view, itemsUnder(view, root.real), <<>>, call.kind, call.pattern,
                           call.excluded, after, call.limit)
          [] root.kind = "mount" ->
                searchFrom(tree, view, <<whole>>, root.real, call.kind, call.pattern,
                           call.excluded, after, call.limit)
          [] root.kind = "none" -> [rows |-> <<>>, next |-> <<>>]

\* orderedScan: one page of a stream that does not enter the pruned directories.
\* A page that ends inside one resumes past all of it.
Walked(page, call, pruned) ==
    FoldLeft(LAMBDA acc, p :
        LET stack == SelectSeq(acc.stack, LAMBDA d : Before(p, subtreeSuccessor(d)))
        IN  IF stack # <<>> /\ ~Before(p, Below(Last(stack)))
            THEN [acc EXCEPT !.stack = stack]
            ELSE [rows |-> Append(acc.rows, p),
                  stack |-> IF p \in call.prune THEN Append(stack, p) ELSE stack],
        [rows |-> <<>>, stack |-> pruned], page)

EndsInside(page, stack) ==
    /\ page # <<>> /\ stack # <<>>
    /\ ~Before(Last(page), Below(Last(stack)))
    /\ Before(Last(page), subtreeSuccessor(Last(stack)))

StreamCursor(page, walk, call, after) ==
    [rows |-> walk.rows, done |-> Len(page) < call.limit,
     after |-> IF page = <<>> THEN after ELSE Last(page),
     skip |-> IF EndsInside(page, walk.stack) THEN Last(walk.stack) ELSE <<>>,
     pruned |-> IF EndsInside(page, walk.stack) THEN Front(walk.stack) ELSE walk.stack]

orderedScan(page, call, after, pruned) == StreamCursor(page, Walked(page, call, pruned), call, after)

-----------------------------------------------------------------------------
(* A reader: one paged call from its first page to its last. *)

\* What the view shows at this moment: the reference the pages are held to.
Shown(t) ==
    LET real(m) == {p \in DOMAIN t : p = m.source \/ Under(p, m.source)}
        mounted(m) == [p \in {virtualOf(m, q) : q \in real(m)} |-> t[realIn(m, p)]]
    IN  IF view = <<>> THEN t
        ELSE FoldSet(LAMBDA m, shown : mounted(m) @@ shown, [p \in Synthetic(view) |-> "dir"], Range(view))

\* The rows a call should return if the file system stood still; a mount whose
\* source is gone is listed as an empty directory that has no entry.
Expected(t, target, call) ==
    LET shown == Shown(t)
        root == resolveRoot(target, call.root)
        top == IF root.kind = "mount" THEN virtualOf(root.mount, root.real) ELSE root.real
        below == {p \in DOMAIN shown : Under(p, top) /\ root.kind # "none"}
    IN  CASE call.kind \in {"scan", "stream"} ->
                {p \in below : /\ call.filesOnly => shown[p] # "dir"
                               /\ \A d \in call.prune : Under(d, top) => ~Under(p, d)}
          [] call.kind = "glob" -> {p \in below : Globbed(call.pattern, p)}
          [] call.kind = "discover" ->
                {p \in below : /\ Globbed(call.pattern, p) /\ shown[p] \in Regular
                               /\ \A x \in call.excluded : ~Under(p, x)}
          [] call.kind = "search" -> {p \in below : Globbed(call.pattern, p) /\ shown[p] \in {"hit", "large"}}
          [] call.kind = "list" ->
                Groups(shown, {top} \cup {p \in below \cup {m.path : m \in Range(view)} :
                                            /\ call.recursive /\ Under(p, top)
                                            /\ p \in DOMAIN shown => shown[p] = "dir"})

NewReader(call) ==
    [call |-> call, root |-> resolveRoot(link, call.root), epoch |-> epoch, after |-> <<>>, skip |-> <<>>,
     pruned |-> <<>>, got |-> <<>>, astray |-> {}, done |-> FALSE]

PgInit ==
    /\ tree \in PgTrees /\ link \in PgLinks /\ view \in PgTables
    /\ epoch = 0
    /\ \E call \in PgCalls : /\ reader = NewReader(call)
                             /\ steady = Expected(tree, link, call)

\* A cache of roots that no mutation clears.
RootKept == IF reader.after = <<>> THEN resolveRoot(link, reader.call.root) ELSE reader.root

\* ResolvedRoots: scan, globPage and listEntries resolve their root again on a
\* first page and after any mutation; the others are given a resolved root.
RootOfPage ==
    IF reader.call.kind \in {"scan", "glob", "list"} /\ (reader.after = <<>> \/ reader.epoch # epoch)
    THEN resolveRoot(link, reader.call.root) ELSE reader.root

\* The rows of the next page, and the reader's cursor after it.
ScanCursor(rows, call, after) ==
    [rows |-> rows, done |-> Len(rows) < call.limit, skip |-> <<>>, pruned |-> <<>>,
     after |-> IF rows = <<>> THEN after ELSE Last(rows)]

KeysetCursor(page) ==
    [rows |-> page.rows, done |-> page.next = <<>>, skip |-> <<>>, pruned |-> <<>>, after |-> page.next]

NextPage(root, call) ==
    CASE call.kind = "stream" ->
            orderedScan(ScanPage(root, reader.after, reader.skip, call.filesOnly, call.limit),
                        call, reader.after, reader.pruned)
      [] call.kind = "scan" ->
            ScanCursor(ScanPage(root, reader.after, reader.skip, call.filesOnly, call.limit),
                       call, reader.after)
      [] call.kind = "list" -> KeysetCursor(ListPage(root, reader.after, call.recursive, call.limit))
      [] OTHER -> KeysetCursor(KeysetPage(root, call, reader.after))

Delivered(root, page) ==
    reader' = [reader EXCEPT !.root = root, !.epoch = epoch, !.after = page.after, !.skip = page.skip,
                   !.pruned = page.pruned, !.got = @ \o page.rows, !.done = page.done,
                   !.astray = @ \cup (Range(page.rows) \ Expected(tree, link, reader.call))]

ReadPage ==
    /\ ~reader.done
    /\ Delivered(RootOfPage, NextPage(RootOfPage, reader.call))
    /\ UNCHANGED <<tree, link, view, epoch, steady>>

\* Another caller writes between two pages.
Meanwhile ==
    /\ epoch' = epoch + 1 /\ UNCHANGED <<view, reader>>
    /\ steady' = steady \cap Expected(tree', link', reader.call)

PgAdd(change) ==
    /\ change.path \notin DOMAIN tree
    /\ Dirname(change.path) \in DOMAIN tree /\ tree[Dirname(change.path)] = "dir"
    /\ tree' = (change.path :> change.kind) @@ tree

\* A path goes with everything below it; what the link leads to stays.
PgRemove(change) ==
    /\ change.path \in DOMAIN tree /\ change.path # link
    /\ tree' = [p \in {q \in DOMAIN tree : q # change.path /\ ~Under(q, change.path)} |-> tree[p]]

ChangeTree ==
    /\ epoch < PgMaxChanges /\ ~reader.done
    /\ \E change \in PgChanges : PgAdd(change) \/ PgRemove(change)
    /\ UNCHANGED link /\ Meanwhile

Retarget ==
    /\ epoch < PgMaxChanges /\ ~reader.done
    /\ link' \in (PgLinks \cap DOMAIN tree) \ {link} /\ UNCHANGED tree /\ Meanwhile

PgNext == ReadPage \/ ChangeTree \/ Retarget
PgSpec == PgInit /\ [][PgNext]_pgVars

-----------------------------------------------------------------------------
(* Properties. *)

\* A page only returns rows that the view shows when it is read: a cached root
\* never outlives the mutation that moved it, and a translated pattern, cursor or
\* excluded root lets nothing else through. Over all pages the rows come in
\* strictly increasing order, so none is delivered twice, whatever is written
\* between the pages.
PagesTrue ==
    LET got == reader.got
        less(a, b) == IF reader.call.kind = "list" THEN RowBefore(a, b) ELSE Before(a, b)
    IN  /\ reader.astray = {}
        /\ \A k \in 1..Len(got) - 1 : less(got[k], got[k + 1])

\* A call that ran to its end has returned every row that was there all along.
\* Discovery and search above several mounts are left out: they end with a mount
\* that fills the page exactly, without a cursor for the mounts after it
\* (fs/mounted/search.ts, discoverFrom and searchFrom).
AboveMounts == reader.call.kind \in {"discover", "search"} /\ reader.root.kind = "above"
PagesComplete == reader.done /\ ~AboveMounts => steady \subseteq Range(reader.got)
=============================================================================
