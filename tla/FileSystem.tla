----------------------------- MODULE FileSystem -----------------------------
(***************************************************************************)
(* The Durable Object file system of packages/do: the tables of            *)
(* fs/schema.ts and every call that changes them.  A call is one           *)
(* synchronous transaction, so it is one action; a refused call changes    *)
(* nothing.  Paths are resolved (Mounts.tla resolves them).                *)
(*                                                                         *)
(* `fs` holds the tables: rev and next (fs_meta), node (fs_nodes), path    *)
(* (fs_paths), chunk (fs_chunks, indexed from 0) and mark                  *)
(* (fs_subtree_revs).  `seen` holds what callers keep across calls: the    *)
(* file handles of discoverFiles and the stat data of a Git index row.     *)
(***************************************************************************)
EXTENDS Integers, Sequences, FiniteSets, SequencesExt, FiniteSetsExt, TLC

CONSTANTS FsPaths,       \* the paths of the instance, closed under prefixes
          FsOrder,       \* the same paths in comparePaths order
          ChunkSize,     \* CHUNK_SIZE
          FsBatches,     \* inputs of writeFiles: path -> [type, bytes, id]
          FsRemovals,    \* inputs of removeFiles: [paths, recursive]
          FsCopies,      \* inputs of copyFiles: sequences of [from, to]
          CopyBudget,    \* the bytes one copyFiles call may copy
          CopyLimit,     \* COPY_ENTRY_LIMIT
          FsData,        \* the bytes of a ranged or appending write
          FsSizes,       \* offsets and lengths
          MaxRev,        \* bounds the number of mutations
          MaxSeen        \* bounds the retained observations

ASSUME FsAssumption ==
    /\ <<>> \in FsPaths /\ Range(FsOrder) = FsPaths
    /\ \A p \in FsPaths : p # <<>> => Front(p) \in FsPaths
    /\ ChunkSize \in Nat \ {0}

VARIABLES fs, seen,
          torn           \* history variable: the inodes one writeFiles call gave
                         \* two contents, the longer one under an earlier name

fsVars == <<fs, seen, torn>>

NodeAt(f, p) == f.node[f.path[p]]
TypeOf(f, p) == IF p \in DOMAIN f.path THEN NodeAt(f, p).type ELSE "none"
NamesOf(f, i) == {p \in DOMAIN f.path : f.path[p] = i}
Ancestry(p) == {q \in FsPaths : IsPrefix(q, p)}
Beneath(p) == {q \in FsPaths : IsStrictPrefix(p, q)}
InOrder(paths) == SelectSeq(FsOrder, LAMBDA p : p \in paths)

Only(f, keys) == [k \in keys |-> f[k]]

\* The content of inode i: what its chunks hold, up to its size.
Bytes(f, i) ==
    LET all == FoldLeftDomain(LAMBDA acc, k : acc \o f.chunk[i][k - 1], <<>>,
                              [k \in 1..Cardinality(DOMAIN f.chunk[i]) |-> k])
    IN  SubSeq(all, 1, Min({Len(all), f.node[i].size}))

\* `bytes` cut into CHUNK_SIZE pieces.
Chunked(bytes) ==
    [k \in 0..((Len(bytes) + ChunkSize - 1) \div ChunkSize) - 1 |->
        SubSeq(bytes, k * ChunkSize + 1, Min({(k + 1) * ChunkSize, Len(bytes)}))]

\* What validateChunkLayout accepts: contiguous chunks of the expected lengths.
LayoutValid(f, i) ==
    LET size == f.node[i].size
    IN  /\ DOMAIN f.chunk[i] = 0..((size + ChunkSize - 1) \div ChunkSize) - 1
        /\ \A k \in DOMAIN f.chunk[i] : Len(f.chunk[i][k]) = Min({ChunkSize, size - k * ChunkSize})

-----------------------------------------------------------------------------
(* Subtree revisions. *)

\* Mutant: the other names of a changed hard link are not marked.
MarkedByName(f, above, inPlace, whole, dropped) ==
    LET named == UNION {Ancestry(d) : d \in above}
                   \cup UNION {Ancestry(Front(p)) : p \in (inPlace \ {<<>>}) \cup whole}
        kept == DOMAIN f.mark \ UNION {Beneath(p) : p \in dropped}
        marks == named \cup whole
    IN  [f EXCEPT !.mark = [p \in kept \cup marks |->
            IF p \in marks
            THEN [rev |-> f.rev,
                  replaced |-> IF p \in whole THEN f.rev
                               ELSE IF p \in kept THEN f.mark[p].replaced ELSE 0]
            ELSE f.mark[p]]]

\* recordSubtreeChanges, after the call's revision bump and table changes.
\* `above` are directories, every ancestor of which is marked; `whole` are
\* replaced paths, `dropped` the replaced directories among them.
Marked(f, above, inPlace, whole, dropped) ==
    LET linked == UNION {Ancestry(Front(q)) : q \in
                    UNION {NamesOf(f, f.path[p]) \ {<<>>} :
                           p \in {q \in inPlace : NodeAt(f, q).nlink > 1}}}
        named == UNION {Ancestry(d) : d \in above}
                   \cup UNION {Ancestry(Front(p)) : p \in (inPlace \ {<<>>}) \cup whole}
        kept == DOMAIN f.mark \ UNION {Beneath(p) : p \in dropped}
        marks == named \cup linked \cup whole
    IN  [f EXCEPT !.mark = [p \in kept \cup marks |->
            IF p \in marks
            THEN [rev |-> f.rev,
                  replaced |-> IF p \in whole THEN f.rev
                               ELSE IF p \in kept THEN f.mark[p].replaced ELSE 0]
            ELSE f.mark[p]]]

RecordCreated(f, created, inPlace) ==
    Marked(f, {Front(p) : p \in created}, inPlace, {}, {})

RecordReplaced(f, inPlace, whole, dropped) == Marked(f, {}, inPlace, whole, dropped)

\* subtreeRev: the newest of the root's own mark, a replacement of it or of an
\* ancestor, and its own node.
subtreeRev(f, root) ==
    Max({0} \cup {f.mark[p].rev : p \in {root} \cap DOMAIN f.mark}
            \cup {f.mark[p].replaced : p \in Ancestry(root) \cap DOMAIN f.mark}
            \cup {NodeAt(f, p).rev : p \in {root} \cap DOMAIN f.path})

-----------------------------------------------------------------------------
(* Writes. *)

FsInit ==
    /\ fs = [rev |-> 0, next |-> 2,
             node |-> (1 :> [type |-> "dir", mode |-> "dir", size |-> 0, rev |-> 0,
                             nlink |-> 1, id |-> {}]),
             path |-> (<<>> :> 1), chunk |-> (1 :> <<>>), mark |-> <<>>]
    /\ seen = {}
    /\ torn = {}

Bumped(f) == [f EXCEPT !.rev = @ + 1]

\* The node row of a written entry; an implicit parent is an empty directory.
NodeRow(f, entry, nlink) ==
    [type |-> entry.type, mode |-> entry.type, size |-> Len(entry.bytes),
     rev |-> f.rev, nlink |-> nlink, id |-> entry.id]

NewDirectory == [type |-> "dir", bytes |-> <<>>, id |-> {}]

\* The chunks written for inode i by the entries of `batch` that lead to it, in
\* path order: a later entry replaces a chunk an earlier one wrote.
UpsertedChunks(f, batch, i) ==
    FoldLeft(LAMBDA acc, p : IF f.path[p] = i /\ batch[p].type = "file"
                             THEN Chunked(batch[p].bytes) @@ acc ELSE acc,
             <<>>, InOrder(DOMAIN batch))

\* The inodes whose last entry in `batch` has fewer chunks than an earlier one:
\* chunks are deleted once, before the entries' chunks land, so its tail stays.
Overhung(f, batch) ==
    {i \in DOMAIN f.node :
        LET names == InOrder(NamesOf(f, i) \cap DOMAIN batch)
            chunks(p) == Cardinality(DOMAIN Chunked(batch[p].bytes))
        IN  \E k \in DOMAIN names : chunks(names[k]) > chunks(Last(names))}

\* The names writeFiles needs that exist neither in the tables nor in the batch.
MissingParents(f, batch) ==
    UNION {Ancestry(Front(p)) : p \in DOMAIN batch} \ (DOMAIN batch \cup DOMAIN f.path)

WriteRefused(f, batch, parents) ==
    \/ \E p \in DOMAIN batch, q \in FsPaths : IsStrictPrefix(q, p) /\
          IF q \in DOMAIN batch THEN batch[q].type # "dir"
          ELSE q \in DOMAIN f.path /\ TypeOf(f, q) # "dir"
    \/ ~parents /\ MissingParents(f, batch) # {}
    \/ \E p \in DOMAIN batch \cap DOMAIN f.path : (TypeOf(f, p) = "dir") # (batch[p].type = "dir")

\* writeFiles: parents are created, a directory that exists is left alone, a
\* file keeps its inode and gets new chunks.
writeFiles(f, batch, parents) ==
    LET implicit == MissingParents(f, batch)
        creating == InOrder(implicit \cup (DOMAIN batch \ DOMAIN f.path))
        entry(p) == IF p \in DOMAIN batch THEN batch[p] ELSE NewDirectory
        overwriting == {p \in DOMAIN batch \cap DOMAIN f.path : batch[p].type # "dir"}
        path == [p \in DOMAIN f.path \cup Range(creating) |->
                    IF p \in DOMAIN f.path THEN f.path[p]
                    ELSE f.next + (CHOOSE k \in DOMAIN creating : creating[k] = p) - 1]
        h == [Bumped(f) EXCEPT !.next = @ + Len(creating), !.path = path]
        written == Range(creating) \cup overwriting
        inodes == {path[p] : p \in written}
        last(i) == Last(InOrder({p \in written : path[p] = i}))
        links(i) == IF i \in DOMAIN f.node THEN f.node[i].nlink ELSE 1
        tables == [h EXCEPT
            !.node = [i \in DOMAIN f.node \cup inodes |->
                IF i \in inodes THEN NodeRow(h, entry(last(i)), links(i)) ELSE f.node[i]],
            !.chunk = [i \in DOMAIN f.node \cup inodes |->
                IF i \in inodes THEN UpsertedChunks(h, batch, i) ELSE f.chunk[i]]]
    IN  IF WriteRefused(f, batch, parents) \/ (creating = <<>> /\ overwriting = {}) THEN f
        ELSE RecordCreated(tables, Range(creating), overwriting)

\* writeFileStream: one file, its parent a directory, rewritten or appended to
\* piece by piece; a source that fails rolls the transaction back.
Appended(chunks, size, bytes) ==
    LET tail == size % ChunkSize
        k == size \div ChunkSize
        fill == IF tail = 0 THEN <<>> ELSE SubSeq(bytes, 1, Min({ChunkSize - tail, Len(bytes)}))
        rest == Chunked(SubSeq(bytes, Len(fill) + 1, Len(bytes)))
        base == IF tail = 0 THEN k ELSE k + 1
    IN  [j \in DOMAIN chunks \cup {base + r : r \in DOMAIN rest} |->
            IF j \in DOMAIN chunks
            THEN IF tail # 0 /\ j = k THEN chunks[j] \o fill ELSE chunks[j]
            ELSE rest[j - base]]

StreamRefused(f, p) ==
    \/ p = <<>> \/ TypeOf(f, Front(p)) # "dir"
    \/ TypeOf(f, p) \notin {"none", "file"}
    \/ TypeOf(f, p) = "file" /\ ~LayoutValid(f, f.path[p])

writeFileStream(f, p, bytes, append) ==
    LET existing == p \in DOMAIN f.path
        i == IF existing THEN f.path[p] ELSE f.next
        size == IF append /\ existing THEN f.node[i].size ELSE 0
        before == IF append /\ existing THEN f.chunk[i] ELSE <<>>
        node == IF existing
                THEN [f.node[i] EXCEPT !.size = size + Len(bytes), !.rev = f.rev + 1, !.id = {}]
                ELSE [type |-> "file", mode |-> "file", size |-> Len(bytes),
                      rev |-> f.rev + 1, nlink |-> 1, id |-> {}]
        tables == [Bumped(f) EXCEPT
            !.next = IF existing THEN @ ELSE @ + 1,
            !.path = (p :> i) @@ @,
            !.node = (i :> node) @@ @,
            !.chunk = (i :> Appended(before, size, bytes)) @@ @]
    IN  IF StreamRefused(f, p) THEN f
        ELSE IF existing THEN RecordCreated(tables, {}, {p}) ELSE RecordCreated(tables, {p}, {})

\* touchFiles: missing files are created empty, existing nodes get a new time
\* and revision and keep their content identifier.
touchFiles(f, paths, create) ==
    LET missing == InOrder(paths \ DOMAIN f.path)
        found == paths \cap DOMAIN f.path
        path == [p \in DOMAIN f.path \cup paths |->
                    IF p \in DOMAIN f.path THEN f.path[p]
                    ELSE f.next + (CHOOSE k \in DOMAIN missing : missing[k] = p) - 1]
        touched == {f.path[p] : p \in found}
        fresh == {path[p] : p \in Range(missing)}
        tables == [Bumped(f) EXCEPT
            !.next = @ + Len(missing), !.path = path,
            !.node = [i \in DOMAIN f.node \cup fresh |->
                IF i \in fresh THEN [type |-> "file", mode |-> "file", size |-> 0,
                                     rev |-> f.rev + 1, nlink |-> 1, id |-> {}]
                ELSE IF i \in touched THEN [f.node[i] EXCEPT !.rev = f.rev + 1]
                ELSE f.node[i]],
            !.chunk = [i \in fresh |-> <<>>] @@ @]
    IN  IF \/ missing # <<>> /\ ~create
           \/ \E p \in Range(missing) : TypeOf(f, Front(p)) # "dir"
        THEN f ELSE RecordCreated(tables, Range(missing), found)

-----------------------------------------------------------------------------
(* In-place changes of one file. *)

\* EXTEND_CHUNKS: every chunk from the one holding the old end to the last of
\* the new size, cut or zero-filled to its length there.
extendChunks(chunks, size, newSize) ==
    LET touched == (size \div ChunkSize)..((newSize + ChunkSize - 1) \div ChunkSize) - 1
        wanted(k) == Min({ChunkSize, newSize - k * ChunkSize})
        existing(k) == IF k \in DOMAIN chunks THEN chunks[k] ELSE <<>>
    IN  [k \in DOMAIN chunks \cup touched |->
            IF k \notin touched THEN chunks[k]
            ELSE LET kept == SubSeq(existing(k), 1, Min({wanted(k), Len(existing(k))}))
                 IN  kept \o [z \in 1..(wanted(k) - Len(kept)) |-> 0]]

\* Mutant: the last chunk is taken to be replaced whole.
PlannedWithoutTail(chunks, bytes, offset, oldSize) ==
    LET end == offset + Len(bytes)
        newSize == Max({oldSize, end})
        first == offset \div ChunkSize
        last == (end - 1) \div ChunkSize
        previous(k) == IF k = first /\ offset % ChunkSize # 0 /\ k \in DOMAIN chunks
                       THEN chunks[k] ELSE <<>>
        at(k, n) == k * ChunkSize + n - 1
    IN  [k \in first..last |->
            [n \in 1..Min({ChunkSize, newSize - k * ChunkSize}) |->
                IF at(k, n) >= offset /\ at(k, n) < end THEN bytes[at(k, n) - offset + 1]
                ELSE IF n <= Len(previous(k)) THEN previous(k)[n] ELSE 0]]

\* planChunkWrites: the chunks a write of `bytes` at `offset` replaces.  Only
\* the two boundary chunks are read (boundaryChunks).
planChunkWrites(chunks, bytes, offset, oldSize) ==
    LET end == offset + Len(bytes)
        newSize == Max({oldSize, end})
        first == offset \div ChunkSize
        last == (end - 1) \div ChunkSize
        loaded == (IF offset % ChunkSize # 0 THEN {first} ELSE {})
                    \cup (IF end % ChunkSize # 0 THEN {last} ELSE {})
        previous(k) == IF k \in loaded \cap DOMAIN chunks THEN chunks[k] ELSE <<>>
        at(k, n) == k * ChunkSize + n - 1
    IN  [k \in first..last |->
            [n \in 1..Min({ChunkSize, newSize - k * ChunkSize}) |->
                IF at(k, n) >= offset /\ at(k, n) < end THEN bytes[at(k, n) - offset + 1]
                ELSE IF n <= Len(previous(k)) THEN previous(k)[n] ELSE 0]]

\* Mutant: the node's revision is kept.
InPlaceKeepingRev(f, p, chunks, size) ==
    LET i == f.path[p]
    IN  RecordCreated([Bumped(f) EXCEPT
            !.chunk[i] = chunks,
            !.node[i] = [@ EXCEPT !.size = size, !.id = {}]], {}, {p})

InPlace(f, p, chunks, size) ==
    LET i == f.path[p]
    IN  RecordCreated([Bumped(f) EXCEPT
            !.chunk[i] = chunks,
            !.node[i] = [@ EXCEPT !.size = size, !.rev = f.rev + 1, !.id = {}]], {}, {p})

writeRangeRaw(f, p, bytes, offset) ==
    LET i == f.path[p]
        size == f.node[i].size
        end == offset + Len(bytes)
        base == IF offset > size THEN extendChunks(f.chunk[i], size, end) ELSE f.chunk[i]
    IN  IF \/ TypeOf(f, p) # "file" \/ bytes = <<>>
           \/ end > size /\ ~LayoutValid(f, i)
        THEN f
        ELSE InPlace(f, p, planChunkWrites(base, bytes, offset, size) @@ base, Max({size, end}))

\* truncateRaw, shrinking: later chunks go and the boundary chunk is cut.
cutChunks(chunks, length) ==
    LET last == IF length = 0 THEN -1 ELSE (length - 1) \div ChunkSize
    IN  [k \in {j \in DOMAIN chunks : j <= last} |->
            IF k = last /\ length % ChunkSize # 0
            THEN SubSeq(chunks[k], 1, length - last * ChunkSize) ELSE chunks[k]]

truncateRaw(f, p, length) ==
    LET i == f.path[p]
        size == f.node[i].size
    IN  IF TypeOf(f, p) # "file" \/ (length > size /\ ~LayoutValid(f, i)) THEN f
        ELSE InPlace(f, p, IF length < size THEN cutChunks(f.chunk[i], length)
                           ELSE IF length > size THEN extendChunks(f.chunk[i], size, length)
                           ELSE f.chunk[i], length)

chmodRaw(f, p, mode) ==
    IF p \notin DOMAIN f.path THEN f
    ELSE RecordCreated([Bumped(f) EXCEPT !.node[f.path[p]] =
            [@ EXCEPT !.mode = mode, !.rev = f.rev + 1]], {}, {p})

-----------------------------------------------------------------------------
(* Names. *)

\* link and linkRaw: another name for a file, under an existing directory.
linkRaw(f, from, to) ==
    LET i == f.path[from]
        names == [Bumped(f) EXCEPT !.path = (to :> i) @@ @]
    IN  IF TypeOf(f, from) # "file" \/ to \in DOMAIN f.path \/ TypeOf(f, Front(to)) # "dir" THEN f
        ELSE RecordCreated([names EXCEPT !.node[i] =
                [@ EXCEPT !.nlink = Cardinality(NamesOf(names, i)), !.rev = names.rev]], {}, {from})

\* Mutant: a removed name is not counted off its surviving inode.
RelinkedUncounted(f, path, losers) ==
    LET alive == {path[p] : p \in DOMAIN path}
    IN  [f EXCEPT !.path = path,
            !.node = [i \in DOMAIN f.node \cap alive |->
                IF i \in losers THEN [f.node[i] EXCEPT !.rev = f.rev] ELSE f.node[i]],
            !.chunk = Only(f.chunk, DOMAIN f.node \cap alive)]

\* Nodes and chunks once the names are `path`: an inode without a name goes, one
\* of `losers` that keeps some is relinked and gets the call's revision.
Relinked(f, path, losers) ==
    LET alive == {path[p] : p \in DOMAIN path}
        names(i) == {p \in DOMAIN path : path[p] = i}
    IN  [f EXCEPT !.path = path,
            !.node = [i \in DOMAIN f.node \cap alive |->
                IF i \in losers
                THEN [f.node[i] EXCEPT !.nlink = Cardinality(names(i)), !.rev = f.rev]
                ELSE f.node[i]],
            !.chunk = Only(f.chunk, DOMAIN f.node \cap alive)]

RemovalRefused(f, paths, recursive) ==
    \/ <<>> \in paths
    \/ ~recursive /\ \E p \in paths : TypeOf(f, p) = "dir" /\ Beneath(p) \cap DOMAIN f.path # {}

removeFiles(f, paths, recursive) ==
    LET exact == paths \cap DOMAIN f.path
        directories == {p \in exact : TypeOf(f, p) = "dir"}
        targets == exact \cup (IF recursive THEN UNION {Beneath(p) : p \in directories} ELSE {})
        left == Only(f.path, DOMAIN f.path \ targets)
    IN  IF exact = {} \/ RemovalRefused(f, paths, recursive) THEN f
        ELSE RecordReplaced(Relinked(Bumped(f), left, {f.path[p] : p \in targets \cap DOMAIN f.path}),
                            {}, exact, directories)

\* rename: the checks of fs/ops.ts and the target's emptiness.
RenameRefused(f, old, new) ==
    \/ old \notin DOMAIN f.path \/ old = <<>> \/ new = <<>> \/ old = new
    \/ TypeOf(f, Front(new)) # "dir"
    \/ TypeOf(f, old) = "dir" /\ IsStrictPrefix(old, new)
    \/ new \in DOMAIN f.path /\ (TypeOf(f, old) = "dir") # (TypeOf(f, new) = "dir")
    \/ Beneath(new) \cap DOMAIN f.path # {}

Landed(old, new, p) == new \o SubSeq(p, Len(old) + 1, Len(p))

\* The names after moving `old` and everything below it to `new`.
MovedNames(f, old, new) ==
    LET moved == {p \in DOMAIN f.path : IsPrefix(old, p)}
        kept == DOMAIN f.path \ (moved \cup {new})
    IN  [q \in kept \cup {Landed(old, new, p) : p \in moved} |->
            IF q \in kept THEN f.path[q]
            ELSE f.path[CHOOSE p \in moved : Landed(old, new, p) = q]]

renameRaw(f, old, new) ==
    LET same == new \in DOMAIN f.path /\ f.path[old] = f.path[new]
        gone == {f.path[p] : p \in {new} \cap DOMAIN f.path}
        g == Relinked(Bumped(f), MovedNames(f, old, new), gone)
        landed == {g.path[p] : p \in {q \in DOMAIN g.path : IsPrefix(new, q)}}
    IN  IF RenameRefused(f, old, new) THEN f
        ELSE IF same
        THEN RecordReplaced(Relinked(Bumped(f), Only(f.path, DOMAIN f.path \ {old}), {f.path[new]}),
                            {new}, {old}, {})
        ELSE RecordReplaced([g EXCEPT !.node = [i \in DOMAIN g.node |->
                IF i \in landed THEN [g.node[i] EXCEPT !.rev = g.rev] ELSE g.node[i]]],
                {}, {old, new}, {old, new})

\* The entries one call copies: as many as the budget allows, and the first.
CopyPrefix(f, entries) ==
    LET size(c) == IF TypeOf(f, c.from) = "file" THEN NodeAt(f, c.from).size ELSE 0
        total(k) == FoldLeft(LAMBDA sum, c : sum + size(c), 0, SubSeq(entries, 1, k))
        page == 1..Min({Len(entries), CopyLimit})
    IN  Max({k \in page : \A j \in 2..k : total(j) <= CopyBudget})

\* validateSource over the whole page, then every entry up to the budget's.
SourceRefused(f, entries) ==
    LET page == 1..Min({Len(entries), CopyLimit})
        found(k) == entries[k].from \in DOMAIN f.path
    IN  \/ \E k \in page : TypeOf(f, entries[k].from) = "file" /\ ~LayoutValid(f, f.path[entries[k].from])
        \/ \E k \in page \cap 1..CopyPrefix(f, entries) + 1 : ~found(k)

CopyRefused(f, copies) ==
    \/ \E c \in copies : IsPrefix(c.from, c.to)
    \/ \E c, d \in copies : c # d /\ c.to = d.to
    \/ \E c \in copies, q \in FsPaths : IsStrictPrefix(q, c.to) /\
          IF \E d \in copies : d.to = q
          THEN \E d \in copies : d.to = q /\ TypeOf(f, d.from) # "dir"
          ELSE q \in DOMAIN f.path /\ TypeOf(f, q) # "dir"
    \/ \E c \in copies : c.to \in DOMAIN f.path /\
          \/ f.path[c.to] = f.path[c.from]
          \/ (TypeOf(f, c.to) = "dir") # (TypeOf(f, c.from) = "dir")

\* copyFiles: every destination gets a new inode; the names replaced lose theirs.
\* A duplicate destination among the copied entries is refused.
copyFiles(f, entries) ==
    LET prefix == SubSeq(entries, 1, CopyPrefix(f, entries))
        copies == Range(prefix)
        implicit == UNION {Ancestry(Front(c.to)) : c \in copies}
                      \ (DOMAIN f.path \cup {c.to : c \in copies})
        planned == {c \in copies : ~(TypeOf(f, c.to) = "dir" /\ TypeOf(f, c.from) = "dir")}
        ordered == InOrder(implicit \cup {c.to : c \in planned})
        fresh == [p \in Range(ordered) |->
                    f.next + (CHOOSE k \in DOMAIN ordered : ordered[k] = p) - 1]
        source(p) == f.path[(CHOOSE c \in planned : c.to = p).from]
        node(p) == IF p \in implicit THEN NodeRow(Bumped(f), NewDirectory, 1)
                   ELSE [f.node[source(p)] EXCEPT !.rev = f.rev + 1, !.nlink = 1]
        inode(i) == CHOOSE p \in DOMAIN fresh : fresh[p] = i
        added == [Bumped(f) EXCEPT
            !.next = @ + Len(ordered),
            !.node = [i \in Range(fresh) |-> node(inode(i))] @@ @,
            !.chunk = [i \in Range(fresh) |->
                IF inode(i) \in implicit THEN <<>> ELSE f.chunk[source(inode(i))]] @@ @]
        old == {f.path[p] : p \in Range(ordered) \cap DOMAIN f.path}
    IN  IF SourceRefused(f, entries) \/ CopyRefused(f, copies) \/ ordered = <<>> THEN f
        ELSE RecordCreated(Relinked(added, fresh @@ f.path, old), Range(ordered), {})

-----------------------------------------------------------------------------
(* The initial worktree writer. *)

\* #preflight: the root is absent or an empty directory, its ancestors are
\* directories.
InitialAvailable(f, root) ==
    /\ \A q \in Ancestry(root) \ {root} : TypeOf(f, q) = "dir"
    /\ TypeOf(f, root) \in {"none", "dir"}
    /\ Beneath(root) \cap DOMAIN f.path = {}

\* The session's entries come in path order; one below a file is ENOTDIR, which
\* rolls the transaction back.
SessionRefused(batch) == \E p, q \in DOMAIN batch : IsStrictPrefix(p, q)

\* Every entry of `batch` below the root with the directories it needs, in one
\* revision, and one mark for the root when the session closes.
initialWrite(f, root, batch) ==
    LET needed == UNION {Ancestry(Front(p)) \cap ({root} \cup Beneath(root)) : p \in DOMAIN batch}
        creating == InOrder((needed \cup DOMAIN batch) \ DOMAIN f.path)
        fresh == [p \in Range(creating) |->
                    f.next + (CHOOSE k \in DOMAIN creating : creating[k] = p) - 1]
        entry(p) == IF p \in DOMAIN batch THEN batch[p] ELSE NewDirectory
        at(i) == CHOOSE p \in DOMAIN fresh : fresh[p] = i
        tables == [Bumped(f) EXCEPT
            !.next = @ + Len(creating), !.path = fresh @@ @,
            !.node = [i \in Range(fresh) |-> NodeRow(Bumped(f), entry(at(i)), 1)] @@ @,
            !.chunk = [i \in Range(fresh) |-> Chunked(entry(at(i)).bytes)] @@ @]
    IN  IF creating = <<>> \/ SessionRefused(batch) THEN f
        ELSE Marked(tables, {root}, {}, {}, {})

-----------------------------------------------------------------------------
(* What callers keep. *)

\* The stat data of a path with the content it had: a discoverFiles handle, or
\* what indexEntryFor puts into a Git index row after hashing the file.
Observed(f, p) ==
    LET i == f.path[p]
    IN  [path |-> p, ino |-> i, rev |-> f.node[i].rev, size |-> f.node[i].size,
         mode |-> f.node[i].mode, bytes |-> Bytes(f, i)]

\* readFileHandles: content, or none when the handle is stale.
HandleRead(f, o) ==
    IF /\ o.path \in DOMAIN f.path /\ f.path[o.path] = o.ino
       /\ f.node[o.ino].type = "file"
       /\ f.node[o.ino].size = o.size /\ f.node[o.ino].rev = o.rev
       /\ LayoutValid(f, o.ino)
    THEN {Bytes(f, o.ino)} ELSE {}

\* indexMatchesStat, the modification time left out: the row is trusted without
\* reading the file.
indexMatchesStat(f, o) ==
    /\ o.path \in DOMAIN f.path /\ f.path[o.path] = o.ino
    /\ f.node[o.ino].size = o.size /\ f.node[o.ino].rev = o.rev
    /\ f.node[o.ino].mode = o.mode

-----------------------------------------------------------------------------
(* Actions. *)

Mutate(f) == f # fs /\ fs' = f /\ UNCHANGED <<seen, torn>>

FsWrite == \E batch \in FsBatches, parents \in BOOLEAN :
    LET f == writeFiles(fs, batch, parents)
    IN  f # fs /\ fs' = f /\ torn' = torn \cup Overhung(fs, batch) /\ UNCHANGED seen
FsStream == \E p \in FsPaths, bytes \in FsData, append \in BOOLEAN :
    Mutate(writeFileStream(fs, p, bytes, append))
FsTouch == \E p \in FsPaths, create \in BOOLEAN : Mutate(touchFiles(fs, {p}, create))
FsWriteRange == \E p \in DOMAIN fs.path, bytes \in FsData, offset \in FsSizes :
    Mutate(writeRangeRaw(fs, p, bytes, offset))
FsTruncate == \E p \in DOMAIN fs.path, length \in FsSizes : Mutate(truncateRaw(fs, p, length))
FsChmod == \E p \in DOMAIN fs.path : TypeOf(fs, p) = "file" /\ Mutate(chmodRaw(fs, p, "exec"))
FsLink == \E from \in DOMAIN fs.path, to \in FsPaths : Mutate(linkRaw(fs, from, to))
FsRemove == \E removal \in FsRemovals : Mutate(removeFiles(fs, removal.paths, removal.recursive))
FsRename == \E old \in DOMAIN fs.path, new \in FsPaths :
    /\ \A p \in DOMAIN fs.path : IsPrefix(old, p) => Landed(old, new, p) \in FsPaths
    /\ Mutate(renameRaw(fs, old, new))
FsCopy == \E copies \in FsCopies : Mutate(copyFiles(fs, copies))
FsInitialWrite == \E root \in FsPaths, batch \in FsBatches :
    /\ \A p \in DOMAIN batch : IsStrictPrefix(root, p) /\ batch[p].type # "dir"
    /\ InitialAvailable(fs, root)
    /\ Mutate(initialWrite(fs, root, batch))

\* A caller notes a file; it may forget what it noted.
FsObserve == \E p \in DOMAIN fs.path :
    /\ TypeOf(fs, p) = "file"
    /\ Cardinality(seen) < MaxSeen
    /\ seen' = seen \cup {Observed(fs, p)}
    /\ UNCHANGED <<fs, torn>>

FsNext ==
    \/ /\ fs.rev < MaxRev
       /\ \/ FsWrite \/ FsStream \/ FsTouch \/ FsWriteRange \/ FsTruncate \/ FsChmod
          \/ FsLink \/ FsRemove \/ FsRename \/ FsCopy \/ FsInitialWrite
    \/ FsObserve

FsSpec == FsInit /\ [][FsNext]_fsVars

-----------------------------------------------------------------------------
(* Properties. *)

\* The tables agree after any sequence of calls: every name leads to a node and
\* has a directory above it, every node has a name and counts exactly its
\* names, and the chunks of a file are exactly the ones its size implies
\* (removeFiles, renameRaw, linkRaw and copyFiles recompute link counts and
\* drop the content of a node with its last name). Excepted are the files one
\* writeFiles call wrote twice, through two hard links, the longer content under
\* the earlier name: they keep the chunks their size implies and the earlier
\* content's tail behind them, and bulk reads refuse them as corrupt.
FsTablesAgree ==
    /\ DOMAIN fs.node = {fs.path[p] : p \in DOMAIN fs.path}
    /\ DOMAIN fs.chunk = DOMAIN fs.node
    /\ \A p \in DOMAIN fs.path \ {<<>>} : TypeOf(fs, Front(p)) = "dir"
    /\ \A i \in DOMAIN fs.node :
          /\ i < fs.next /\ fs.node[i].rev <= fs.rev
          /\ fs.node[i].nlink = Cardinality(NamesOf(fs, i))
          /\ IF fs.node[i].type # "file" THEN DOMAIN fs.chunk[i] = {}
             ELSE IF i \in torn THEN Len(Bytes(fs, i)) = fs.node[i].size
             ELSE LayoutValid(fs, i)

\* Nothing kept across calls is trusted wrongly. A content identifier names the
\* content (status trusts one that equals the index row's object and reads no
\* bytes); a handle that readFileHandles still accepts, and an index row that
\* indexMatchesStat still accepts, lead to the bytes they were made from, whatever
\* was written, linked, renamed, removed and recreated in between.
StaleNeverTrusted ==
    /\ \A i \in DOMAIN fs.node : fs.node[i].id # {} => fs.node[i].id = {Bytes(fs, i)}
    /\ \A o \in seen : /\ HandleRead(fs, o) \subseteq {o.bytes}
                       /\ indexMatchesStat(fs, o) => Bytes(fs, o.ino) = o.bytes

\* What a reader of the subtree at `root` can see, the link counts left out.
Visible(f, root) ==
    [p \in {q \in DOMAIN f.path : IsPrefix(root, q)} |->
        LET n == NodeAt(f, p) IN <<n.type, n.mode, n.size, f.chunk[f.path[p]]>>]

\* Whether the call changed an entry at or below `root`, or took away or put
\* there something above it.
ChangedAt(f, g, root) ==
    \/ \E p \in {root} \cup Beneath(root) :
          \/ (p \in DOMAIN f.path) # (p \in DOMAIN g.path)
          \/ p \in DOMAIN f.path /\ f.path[p] # g.path[p]
          \/ p \in DOMAIN f.path /\ NodeAt(f, p) # NodeAt(g, p)
    \/ \E p \in Ancestry(root) : p \in DOMAIN f.path /\
          (p \notin DOMAIN g.path \/ f.path[p] # g.path[p])
    \/ \E p \in Ancestry(root) : p \notin DOMAIN f.path /\ p \in DOMAIN g.path

\* subtreeRev never goes back, moves whenever anything visible at or below the
\* root changed, through whichever hard link, and stays when a call touched
\* nothing there (the contract of subtreeRev in fs/types.ts).
SubtreeRevStep ==
    \A root \in FsPaths :
        /\ subtreeRev(fs', root) >= subtreeRev(fs, root)
        /\ Visible(fs', root) # Visible(fs, root) => subtreeRev(fs', root) > subtreeRev(fs, root)
        /\ subtreeRev(fs', root) > subtreeRev(fs, root) => ChangedAt(fs, fs', root)

SubtreeRevExact == [][SubtreeRevStep]_fs

\* The tables implement the tree of names over objects: what a caller sees
\* after each call is what FileTree allows, chunked content included.
Tree == INSTANCE FileTree WITH
    TreePaths <- FsPaths,
    TreeContents <- {<<>>} \cup FsData \cup UNION {{b[p].bytes : p \in DOMAIN b} : b \in FsBatches},
    TreeData <- FsData, TreeSizes <- FsSizes, TreeModes <- {"exec"},
    name <- fs.path,
    object <- [i \in DOMAIN fs.node |-> [type |-> fs.node[i].type, mode |-> fs.node[i].mode,
                                         bytes |-> Bytes(fs, i)]],
    used <- 1..fs.next - 1

FsImplementsTree == Tree!TreeSpec
=============================================================================
