---------------------------- MODULE ReadBatches ----------------------------
(***************************************************************************)
(* Reading file contents in bulk under a byte budget: by path, by paths     *)
(* resolved earlier, by handles that discovery returned, and one range of   *)
(* one file (packages/do/src/fs/store/read.ts, store/read).                 *)
(*                                                                         *)
(* The store holds a file's bytes in chunks of RbChunk bytes.  What a call  *)
(* delivers and what its statements carry are the results; a statement is   *)
(* the number of bytes of the rows it returns.                              *)
(***************************************************************************)
EXTENDS Integers, Sequences, SequencesExt, FiniteSets, TLC

CONSTANTS
  RbChunk,    \* bytes of a full chunk
  RbLargest,  \* MAX_HANDLE_MATERIALIZE_BYTES
  RbStores,   \* stores: path to [inode, type, size, rev]
  RbCalls     \* calls: [kind, paths, budget, maxBytes, defer, offset, length, seen]

VARIABLE reading   \* the call made, with the store it is made of

NoReading == [kind |-> "none"]

-----------------------------------------------------------------------------
(* Chunks.                                                                  *)

expectedChunkCount(size) == (size + RbChunk - 1) \div RbChunk
expectedChunkLength(size, idx) == IF size - idx * RbChunk < RbChunk THEN size - idx * RbChunk ELSE RbChunk
Volume(size, indices) == FoldSet(LAMBDA i, n : n + expectedChunkLength(size, i), 0, indices)
RbMax(a, b) == IF a > b THEN a ELSE b
RbMin(a, b) == IF a < b THEN a ELSE b

\* a batch that fits is one statement, else whole chunks up to the budget
rowLimitFor(targets, budget) ==
  LET bytes == FoldSeq(LAMBDA f, n : n + f.size, 0, targets)
      rows == FoldSeq(LAMBDA f, n : n + expectedChunkCount(f.size), 0, targets)
  IN IF bytes <= budget THEN RbMax(1, rows) ELSE RbMax(1, budget \div RbChunk)

\* the pages of one inode's chunks from first to last
PagesOf(size, first, last, rowLimit) ==
  [n \in 1..((last - first + rowLimit) \div rowLimit) |->
     Volume(size, (first + (n - 1) * rowLimit)..RbMin(last, first + n * rowLimit - 1))]
readOne(file, rowLimit) ==
  IF file.size = 0 THEN <<>> ELSE PagesOf(file.size, 0, expectedChunkCount(file.size) - 1, rowLimit)

\* several inodes are one statement ordered by inode; an inode that two paths
\* name is counted twice and never completed twice
readTargets(targets, rowLimit) ==
  LET inodes == {targets[k].inode : k \in DOMAIN targets}
      filled == {k \in DOMAIN targets : targets[k].size > 0}
      bytes == FoldSet(LAMBDA i, n : n + (CHOOSE f \in Range(targets) : f.inode = i).size, 0, inodes)
  IN IF Len(targets) = 1
     THEN [ok |-> TRUE, statements |-> readOne(targets[1], rowLimit)]
     ELSE [ok |-> \A j, k \in filled : targets[j].inode = targets[k].inode => j = k,
           statements |-> IF filled = {} THEN <<>> ELSE <<bytes>>]

-----------------------------------------------------------------------------
(* Files by path.                                                           *)

\* a path that is absent, a directory or a link yields nothing
ReadState(order) == [at |-> 1, files |-> {}, pending |-> <<>>, selected |-> 0, statements |-> <<>>,
                     stopped |-> Len(order) + 1, ok |-> TRUE]
PendingBytes(s) == FoldSeq(LAMBDA f, n : n + f.size, 0, s.pending)
Delivered(s, targets, read) ==
  [s EXCEPT !.files = @ \cup {targets[k].path : k \in DOMAIN targets}, !.pending = <<>>,
            !.statements = @ \o read.statements, !.ok = @ /\ read.ok]
Deliver(s, targets, budget) ==
  IF targets = <<>> THEN s ELSE Delivered(s, targets, readTargets(targets, rowLimitFor(targets, budget)))
Flush(s, budget) == Deliver(s, s.pending, budget)
Stop(s) == [s EXCEPT !.stopped = s.at]
Taken(file, s) == [s EXCEPT !.selected = @ + file.size]
Batched(file, s) == [s EXCEPT !.pending = Append(@, file)]

\* one path: pass over it, stop before it, read it alone, or add it to the batch
selectFile(file, call, s) ==
  IF file.type # "file" THEN s
  ELSE IF s.selected + file.size > call.maxBytes THEN Stop(s)
  ELSE IF file.size > call.budget
  THEN IF call.defer \/ s.files # {} \/ s.pending # <<>> THEN Stop(s)
       ELSE Taken(file, Deliver(s, <<file>>, call.budget))
  ELSE Taken(file, Batched(file, IF PendingBytes(s) + file.size > call.budget THEN Flush(s, call.budget) ELSE s))

RECURSIVE selectFiles(_, _, _, _)
selectFiles(store, order, call, s) ==
  IF s.at > Len(order) \/ s.stopped <= Len(order) THEN Flush(s, call.budget)
  ELSE selectFiles(store, order, call,
         [selectFile(store[order[s.at]] @@ [path |-> order[s.at]], call, s) EXCEPT !.at = s.at + 1])

\* paths that name one real path are read once
Ordered(paths) == SelectSeq([k \in DOMAIN paths |-> k], LAMBDA k : \A j \in 1..(k - 1) : paths[j] # paths[k])
Batch(order, s) ==
  [ok |-> s.ok, statements |-> s.statements, files |-> s.files,
   remaining |-> {order[k] : k \in s.stopped..Len(order)}]
readOrdered(store, order, call) == Batch(order, selectFiles(store, order, call, ReadState(order)))
readFiles(store, paths, call) ==
  readOrdered(store, LET at == Ordered(paths) IN [k \in DOMAIN at |-> paths[at[k]]], call)

\* the callers' paths resolved before: from the first deferred one on, all remain
Deferred(resolved, batch) ==
  LET late == {k \in DOMAIN resolved : \E j \in 1..k : resolved[j] \in batch.remaining}
  IN [ok |-> batch.ok, statements |-> batch.statements, remaining |-> late,
      files |-> {k \in DOMAIN resolved \ late : resolved[k] \in batch.files}]
readResolvedFiles(store, resolved, call) ==
  Deferred(resolved, readFiles(store, SelectSeq(resolved, LAMBDA p : p # <<>>), call))

-----------------------------------------------------------------------------
(* Files by handle.                                                         *)

\* the file is still the one the handle describes
validateHandleRow(store, handle) ==
  LET row == store[handle.path]
  IN row.type = "file" /\ row.inode = handle.inode /\ row.size = handle.size /\ row.rev = handle.rev

readHandleGroupTight(store, handles, budget) ==
  [fresh |-> \A k \in DOMAIN handles : validateHandleRow(store, handles[k]),
   small |-> \A k \in DOMAIN handles : handles[k].size <= RbLargest,
   whole |-> FoldSeq(LAMBDA f, n : n + RbMax(1, expectedChunkCount(f.size)), 0, handles) <= expectedChunkCount(budget),
   statements |-> <<FoldSeq(LAMBDA f, n : n + f.size, 0, handles)>>]

\* an empty file is one row too; the limit must not cut a valid group short; a
\* file too large to materialise is EFBIG
readHandleGroup(store, handles, budget) ==
  LET rows == FoldSeq(LAMBDA f, n : n + RbMax(1, expectedChunkCount(f.size)), 0, handles)
      rowLimit == Len(handles) + expectedChunkCount(budget)
  IN [fresh |-> \A k \in DOMAIN handles : validateHandleRow(store, handles[k]),
      small |-> \A k \in DOMAIN handles : handles[k].size <= RbLargest,
      whole |-> rows <= rowLimit,
      statements |-> <<FoldSeq(LAMBDA f, n : n + f.size, 0, handles)>>]

readLargeHandle(store, handle, budget) ==
  [fresh |-> validateHandleRow(store, handle), small |-> handle.size <= RbLargest, whole |-> TRUE,
   statements |-> readOne(handle, RbMax(1, budget \div RbChunk))]

\* how many leading handles fit; a large one is read alone
HandleGroup(handles, budget) ==
  LET size(k) == FoldSeq(LAMBDA f, n : n + f.size, 0, SubSeq(handles, 1, k))
      fits == {k \in DOMAIN handles : \A j \in 2..k : size(j) <= budget}
  IN IF handles = <<>> THEN 0
     ELSE IF handles[1].size > budget THEN 1
     ELSE CHOOSE k \in fits : \A j \in fits : j <= k

readFileHandles(store, handles, budget) ==
  LET count == HandleGroup(handles, budget)
      group == SubSeq(handles, 1, count)
      read == IF group = <<>> THEN [fresh |-> TRUE, small |-> TRUE, whole |-> TRUE, statements |-> <<>>]
              ELSE IF handles[1].size > budget THEN readLargeHandle(store, handles[1], budget)
              ELSE readHandleGroup(store, group, budget)
  IN [ok |-> read.fresh /\ read.small /\ read.whole, stale |-> ~read.fresh, statements |-> read.statements,
      files |-> 1..count, remaining |-> (count + 1)..Len(handles)]

-----------------------------------------------------------------------------
(* One file, and a range of one.                                            *)

lookupFile(store, path) ==
  CASE store[path].type = "file" -> "file"
    [] store[path].type = "dir" -> "EISDIR"
    [] OTHER -> "ENOENT"

readFile(store, path, budget) ==
  LET target == [inode |-> store[path].inode, size |-> store[path].size]
  IN IF lookupFile(store, path) # "file" THEN [outcome |-> lookupFile(store, path), statements |-> <<>>]
     ELSE [outcome |-> "file", statements |-> readTargets(<<target>>, rowLimitFor(<<target>>, budget)).statements]

readRange(store, path, offset, length, budget) ==
  LET size == store[path].size
      start == RbMax(0, offset)
      end == RbMin(size, start + RbMax(0, length))
      first == start \div RbChunk
      last == (end - 1) \div RbChunk
      from(idx) == RbMax(start, idx * RbChunk)
      to(idx) == RbMin(end, idx * RbChunk + expectedChunkLength(size, idx))
  IN IF lookupFile(store, path) # "file" \/ end <= start THEN [bytes |-> {}, statements |-> <<>>]
     ELSE [bytes |-> UNION {from(idx)..(to(idx) - 1) : idx \in first..last},
           statements |-> PagesOf(size, first, last, RbMax(1, budget \div RbChunk))]

-----------------------------------------------------------------------------
RbInit == reading = NoReading
RbAsk == \E store \in RbStores, call \in RbCalls : reading' = [kind |-> call.kind, store |-> store, call |-> call]
RbNext == reading = NoReading /\ RbAsk

-----------------------------------------------------------------------------
(* What the calls promise.                                                  *)

Readable(store, p) == store[p].type = "file"
Total(statements) == FoldSeq(LAMBDA v, n : v + n, 0, statements)
Bounded(statements, budget) == \A k \in DOMAIN statements : statements[k] <= RbMax(budget, RbChunk)
SharesInode(store, paths) ==
  \E p, q \in Range(paths) : p # q /\ Readable(store, p) /\ Readable(store, q) /\ store[p].inode = store[q].inode

\* what is left is the end of the list, so asking again for it goes on; nothing
\* is both read and left, and every readable path is one of the two
Split(store, paths, batch, wholeFirst) ==
  /\ batch.files \cap batch.remaining = {}
  /\ \A p \in Range(paths) : Readable(store, p) => p \in batch.files \cup batch.remaining
  /\ \A p \in batch.files : Readable(store, p)
  /\ \A j, k \in DOMAIN paths : j < k /\ paths[j] \in batch.remaining => paths[k] \in batch.remaining \/ \E i \in 1..j : paths[i] = paths[k]
  /\ wholeFirst /\ (\E p \in Range(paths) : Readable(store, p)) => batch.files # {}

FilesSplit(store, c, batch) ==
  LET least == \A p \in Range(c.paths) : Readable(store, p) => store[p].size <= c.maxBytes
  IN /\ batch.ok \/ SharesInode(store, c.paths)
     /\ Split(store, c.paths, batch, ~c.defer /\ least)
     /\ Bounded(batch.statements, c.budget)

ResolvedSplit(store, c, batch, plain) ==
  /\ \A k \in batch.files : Readable(store, c.paths[k])
  /\ \A k \in DOMAIN c.paths : c.paths[k] # <<>> /\ Readable(store, c.paths[k])
                                 => k \in batch.files \cup batch.remaining
  /\ plain.files # {} => batch.files # {}

\* a handle stands for its file while path, inode, size and revision agree
Unchanged(store, handle) ==
  store[handle.path] = [inode |-> handle.inode, type |-> "file", size |-> handle.size, rev |-> handle.rev]

HandlesSplit(store, c, batch) ==
  /\ batch.files \cup batch.remaining = DOMAIN c.seen /\ (c.seen # <<>> => batch.files # {})
  /\ Bounded(batch.statements, c.budget)
  /\ batch.ok <=> \A k \in batch.files : Unchanged(store, c.seen[k]) /\ c.seen[k].size <= RbLargest

RangeExact(store, c, read, whole) ==
  /\ read.bytes = {b \in 0..(store[c.paths[1]].size - 1) : c.offset <= b /\ b < c.offset + c.length}
  /\ Bounded(read.statements, c.budget)
  /\ Bounded(whole.statements, c.budget)
  /\ whole.outcome = "file" => Total(whole.statements) = store[c.paths[1]].size

Holds(store, c) ==
  CASE c.kind = "files" -> FilesSplit(store, c, readFiles(store, c.paths, c))
    [] c.kind = "resolved" -> ResolvedSplit(store, c, readResolvedFiles(store, c.paths, c),
                                            readFiles(store, SelectSeq(c.paths, LAMBDA p : p # <<>>), c))
    [] c.kind = "handles" -> HandlesSplit(store, c, readFileHandles(store, c.seen, c.budget))
    [] c.kind = "range" -> RangeExact(store, c, readRange(store, c.paths[1], c.offset, c.length, c.budget),
                                      readFile(store, c.paths[1], c.budget))

\* Bulk reads (readFiles, readResolvedFiles, readFileHandles, readRange): a call
\* splits what it is asked for into a part it reads whole and a rest to ask for
\* again, reads something whenever the caller allows it, never returns a file
\* that changed since its handle was taken, returns exactly the bytes of a range,
\* and no statement carries more than the budget or one chunk.  A batch that
\* names one inode by two paths is left out.
ReadsBounded == reading # NoReading => Holds(reading.store, reading.call)
=============================================================================
