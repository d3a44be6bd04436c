------------------------------- MODULE MCHost -------------------------------
(* Instances of the file system: its tables under writes, paged reads, reads  *)
(* under a budget and calls through mounted views.                            *)
EXTENDS FileSystem, Paging

CONSTANTS MtTrees, MtTables, MtInputs, MtTargets, MaxFollows, RbChunk, RbLargest, RbStores, RbCalls

VARIABLES scenario, request, reading

Views == INSTANCE Mounts
Bulk == INSTANCE ReadBatches

-----------------------------------------------------------------------------
(* FileSystem: two directories with one file each. *)

FsD == <<"d">>
FsDA == <<"d", "a">>
FsB == <<"b">>
FsBA == <<"b", "a">>
MCFsPaths == {<<>>, FsB, FsBA, FsD, FsDA}
MCFsOrder == << <<>>, FsB, FsBA, FsD, FsDA >>
Plain(bytes) == [type |-> "file", bytes |-> bytes, id |-> {}]
Hashed(bytes) == [type |-> "file", bytes |-> bytes, id |-> {bytes}]
Folder == [type |-> "dir", bytes |-> <<>>, id |-> {}]
MCBatches == {FsDA :> Hashed(<<1>>), FsB :> Hashed(<<1, 1, 1>>), FsD :> Folder,
              (FsB :> Plain(<<1>>)) @@ (FsD :> Folder),
              (FsB :> Hashed(<<1, 1, 1>>)) @@ (FsDA :> Hashed(<<1>>))}
MCRemovals == {[paths |-> {FsD}, recursive |-> TRUE], [paths |-> {FsD, FsB}, recursive |-> FALSE],
               [paths |-> {FsDA}, recursive |-> FALSE], [paths |-> {FsB}, recursive |-> TRUE]}
Copy(from, to) == [from |-> from, to |-> to]
MCCopies == {<<Copy(FsB, FsDA)>>, <<Copy(FsD, FsB)>>, <<Copy(FsDA, FsB)>>,
             <<Copy(FsD, FsB), Copy(FsDA, FsBA), Copy(FsB, FsDA)>>}
MCData == {<<2>>}
MCSizes == {0, 2, 3}

-----------------------------------------------------------------------------
(* Paging: names that sort between a directory and its contents, one level   *)
(* of nesting, and mount tables with the same shapes.                         *)

A == <<2, 4>>                    \* /a
B == <<2, 5>>                    \* /b
AMinus == <<2, 4, 1>>            \* /a-
L == <<2, 8>>                    \* /l, a link
M == <<2, 7>>                    \* /m
MMinus == <<2, 7, 1>>            \* /m-
XM == <<2, 6, 2, 7>>             \* /x/m
MCPgTree ==
    PgRoot :> "dir" @@ A :> "dir" @@ AMinus :> "miss" @@ (A \o <<2, 6>>) :> "hit"
      @@ (A \o B) :> "dir" @@ (A \o B \o <<2, 6>>) :> "large" @@ B :> "dir"
      @@ (B \o <<2, 6>>) :> "hit" @@ L :> "link"
MCPgTrees == {MCPgTree}
MCPgChanges == {[path |-> B \o A, kind |-> "miss"], [path |-> A \o <<2, 6>>, kind |-> "hit"],
                [path |-> AMinus, kind |-> "hit"], [path |-> B, kind |-> "dir"]}
MCPgLinks == {A, B}
MCPgTables == {<<>>, <<[path |-> PgRoot, source |-> A]>>,
               <<[path |-> M, source |-> A], [path |-> MMinus, source |-> B]>>,
               <<[path |-> M, source |-> PgRoot], [path |-> XM, source |-> B]>>}

Call(kind, root, limit) ==
    [kind |-> kind, root |-> root, limit |-> limit, pattern |-> <<Star>>, excluded |-> {},
     recursive |-> TRUE, filesOnly |-> FALSE, prune |-> {}]
Inside(root, path) == IF root = PgRoot THEN path ELSE root \o path
MCPgCalls ==
    UNION {{Call("scan", r, n), [Call("scan", r, n) EXCEPT !.filesOnly = TRUE],
            Call("list", r, n), [Call("list", r, n) EXCEPT !.recursive = FALSE],
            [Call("glob", r, n) EXCEPT !.pattern = <<Star, 6>>],
            [Call("glob", r, n) EXCEPT !.pattern = <<2, 7, Star, 6>>],
            [Call("glob", r, n) EXCEPT !.pattern = <<2, 7, 2, 6>>]} :
                r \in {PgRoot, M, L, M \o L}, n \in {1, 2}}
      \cup UNION {{Call("discover", r, n), [Call("discover", r, n) EXCEPT !.excluded = {Inside(r, B)}],
                   Call("search", r, n), [Call("stream", r, n) EXCEPT !.prune = {Inside(r, B)}],
                   [Call("stream", r, n) EXCEPT !.prune = {A, M \o A, A \o B}]} :
                r \in {PgRoot, M}, n \in {1, 2}}

PgIdle ==
    /\ tree = MCPgTree /\ link = A /\ view = <<>> /\ epoch = 0
    /\ reader = NewReader(Call("scan", PgRoot, 1)) /\ steady = {}

-----------------------------------------------------------------------------
(* Mounts: a tree with one link, whose target varies, seen through views.     *)

DirNode == [type |-> "dir"]
FileNode == [type |-> "file"]
LinkNode(absolute, target) == [type |-> "symlink", absolute |-> absolute, target |-> target]
LinkTargets ==
    {LinkNode(FALSE, <<"..">>), LinkNode(FALSE, <<"..", "..", "o">>), LinkNode(TRUE, <<"d">>),
     LinkNode(FALSE, <<"..", "d", "l">>), LinkNode(FALSE, <<".", "x">>), LinkNode(TRUE, <<"s", "f">>)}
MCMtTrees ==
    {(<<>> :> DirNode) @@ (<<"s">> :> DirNode) @@ (<<"s", "d">> :> DirNode) @@ (<<"s", "f">> :> FileNode)
       @@ (<<"s", "d", "l">> :> node) @@ (<<"o">> :> DirNode) @@ (<<"o", "f">> :> FileNode) : node \in LinkTargets}
MountAt(path, source, mode) == [path |-> path, source |-> source, mode |-> mode]
MCMtTables ==
    {{MountAt(<<>>, <<"s">>, "rw")}, {MountAt(<<"d">>, <<"s">>, "rw"), MountAt(<<"m", "d">>, <<"o">>, "ro")},
     {MountAt(<<"d">>, <<"s", "d">>, "rw")}, {MountAt(<<>>, <<>>, "rw")}}
Components == {"d", "l", "f", "..", "."}
MCMtInputs ==
    UNION {[1..n -> Components] : n \in 0..2}
      \cup {<<"d", "d", "l">> \o tail : tail \in {<<>>, <<"..">>, <<".">>, <<"">>, <<"f">>, <<"..", "..">>, <<"..", "..", "m">>}}
      \cup {<<"m">>, <<"m", "d">>, <<"m", "x", "y">>, <<"m", "x", "..">>, <<"m", "d", "f", "..">>,
            <<"d", "..", "m", "d">>, <<"m", "d", "..", "..", "d">>, <<"d", "d", "..", "..", "m", "d", "f">>}
MCMtTargets == {<<>>, <<"d", "d", "x">>, <<"d", "d", "l", "d">>, <<"d", ".">>, <<"m", "d", "x">>}

-----------------------------------------------------------------------------
(* ReadBatches: files around the chunk size and the budget.                   *)

Stat(inode, type, size, rev) == [inode |-> inode, type |-> type, size |-> size, rev |-> rev]
MCRbStores ==
    {(<<"a">> :> Stat(1, "file", m, 1)) @@ (<<"b">> :> Stat(IF n = m THEN i ELSE 2, "file", n, 1))
       @@ (<<"c">> :> Stat(3, "file", k, 2)) @@ (<<"d">> :> Stat(4, "dir", 0, 1))
       : m, n, k \in {0, 1, 3, 5}, i \in {1, 2}}
Read(kind, paths, budget) ==
    [kind |-> kind, paths |-> paths, budget |-> budget, maxBytes |-> 100, defer |-> FALSE,
     offset |-> 0, length |-> 0, seen |-> <<>>]
ReadLists == {<<<<"a">>>>, <<<<"a">>, <<"b">>, <<"a">>, <<"c">>>>, <<<<"d">>, <<"c">>, <<"a">>, <<"b">>>>}
Handle(path, inode, size, rev) == [path |-> path, inode |-> inode, size |-> size, rev |-> rev]
HandleLists ==
    {<<>>, <<Handle(<<"a">>, 1, 1, 1), Handle(<<"b">>, 2, 3, 1), Handle(<<"c">>, 3, 3, 2)>>,
     <<Handle(<<"c">>, 3, 5, 2), Handle(<<"b">>, 2, 3, 1)>>,
     <<Handle(<<"a">>, 1, 3, 1), Handle(<<"c">>, 3, 5, 2)>>,
     <<Handle(<<"a">>, 1, 1, 1), Handle(<<"b">>, 2, 1, 1), Handle(<<"c">>, 3, 1, 2)>>}
MCRbCalls ==
    UNION {{Read("files", l, n), [Read("files", l, n) EXCEPT !.maxBytes = 3],
            [Read("files", l, n) EXCEPT !.defer = TRUE],
            Read("resolved", l, n), [Read("resolved", l, n) EXCEPT !.paths = << <<>> >> \o l]}
             : l \in ReadLists, n \in {1, 3, 4}}
      \cup {[Read("range", <<p>>, n) EXCEPT !.offset = o, !.length = s] :
               n \in {1, 2, 4}, o \in 0..3, s \in 0..3, p \in {<<"c">>, <<"d">>}}
      \cup {[Read("handles", <<>>, n) EXCEPT !.seen = h] : n \in {1, 3, 4}, h \in HandleLists}

-----------------------------------------------------------------------------
CallIdle == Views!MtInit /\ Bulk!RbInit
callVars == <<request, reading>>

MCInit ==
    \/ scenario = "files" /\ FsInit /\ PgIdle /\ CallIdle
    \/ scenario = "pages" /\ PgInit /\ FsInit /\ CallIdle
    \/ scenario \in {"view", "bulk"} /\ FsInit /\ PgIdle /\ CallIdle

MCNext ==
    /\ \/ scenario = "files" /\ FsNext /\ UNCHANGED <<pgVars, callVars>>
       \/ scenario = "pages" /\ PgNext /\ UNCHANGED <<fsVars, callVars>>
       \/ scenario = "view" /\ Views!MtNext /\ UNCHANGED <<fsVars, pgVars, reading>>
       \/ scenario = "bulk" /\ Bulk!RbNext /\ UNCHANGED <<fsVars, pgVars, request>>
    /\ UNCHANGED scenario

MCSpec == MCInit /\ [][MCNext]_<<fsVars, pgVars, callVars, scenario>>

-----------------------------------------------------------------------------
\* Calls through a mounted view (fs/mounted): reads end where a walk of the view's
\* namespace ends, writes stay inside the source of a writable mount.
ViewSound == Views!ViewSound

\* Bulk reads (fs/store/read.ts): whole files or a rest to ask for again, progress,
\* no stale handle, and no statement above the budget or one chunk.
ReadsBounded == Bulk!ReadsBounded
=============================================================================
