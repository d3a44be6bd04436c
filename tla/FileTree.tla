------------------------------ MODULE FileTree ------------------------------
(***************************************************************************)
(* What the file system of packages/do promises: a tree of names over      *)
(* objects.  A name leads to an object, several names may lead to the same *)
(* one, a name's parent is a directory, and an object lives exactly as     *)
(* long as it has a name.  FileSystem.tla implements it with SQL tables.   *)
(***************************************************************************)
EXTENDS Integers, Sequences, FiniteSets, SequencesExt, TLC

CONSTANTS TreePaths,     \* every path, a sequence of names; <<>> is the root
          TreeContents,  \* what a whole-file write may carry, byte sequences
          TreeData,      \* what a write at an offset may carry
          TreeSizes,     \* the lengths a file may be resized to
          TreeModes      \* permission bits

VARIABLES name,          \* path -> object identity
          object,        \* identity -> [type, mode, bytes]
          used           \* every identity ever handed out

treeVars == <<name, object, used>>

Upper(p) == SubSeq(p, 1, Len(p) - 1)

Within(root) == {p \in TreePaths : IsPrefix(root, p)}

TypeAt(p) == IF p \in DOMAIN name THEN object[name[p]].type ELSE "none"

Zeros(n) == [k \in 1..n |-> 0]

\* `bytes` as a file of exactly n bytes: cut off, or extended with zeros.
Resized(bytes, n) ==
    SubSeq(bytes, 1, IF n < Len(bytes) THEN n ELSE Len(bytes)) \o Zeros(n - Len(bytes))

\* `bytes` with `data` laid over it from `offset`, zero-filled up to there.
Overlaid(bytes, data, offset) ==
    LET end == offset + Len(data)
        base == Resized(bytes, IF end > Len(bytes) THEN end ELSE Len(bytes))
    IN  [k \in DOMAIN base |-> IF k > offset /\ k <= end THEN data[k - offset] ELSE base[k]]

TreeInit ==
    /\ name = (<<>> :> 1)
    /\ object = (1 :> [type |-> "dir", mode |-> "dir", bytes |-> <<>>])
    /\ used = {1}

\* Names change so that only objects with a name survive.
Renamed(names) ==
    /\ name' = names
    /\ object' = [i \in Range(names) |-> object[i]]
    /\ UNCHANGED used

\* An existing file or link changes in place, for all of its names at once.
Change(p, value) ==
    /\ p \in DOMAIN name
    /\ UNCHANGED <<name, used>>
    /\ object' = [object EXCEPT ![name[p]] = value]

Rewrite(p) ==
    /\ TypeAt(p) = "file"
    /\ LET old == object[name[p]]
       IN  \/ \E n \in TreeSizes : Change(p, [old EXCEPT !.bytes = Resized(@, n)])
           \/ \E data \in TreeData, offset \in TreeSizes \cup {Len(old.bytes)} :
                 Change(p, [old EXCEPT !.bytes = Overlaid(@, data, offset)])

SetMode(p) == p \in DOMAIN name /\ \E mode \in TreeModes :
    Change(p, [object[name[p]] EXCEPT !.mode = mode])

\* A batch of names gets objects: new names and replaced ones fresh identities,
\* overwritten ones the identity they had.  A directory is never replaced.
Put(puts, values, fresh) ==
    /\ \A p \in puts :
          /\ \/ values[p].bytes \in TreeContents
             \/ \E q \in DOMAIN name : values[p] = object[name[q]]
          /\ TypeAt(p) # "dir"
          /\ (p \in DOMAIN name) => values[p].type # "dir"
          /\ Upper(p) \in puts \/ TypeAt(Upper(p)) = "dir"
          /\ Upper(p) \in puts => values[Upper(p)].type = "dir"
    /\ LET names == [p \in DOMAIN name \cup puts |->
                        IF p \in DOMAIN fresh THEN fresh[p] ELSE name[p]]
       IN  /\ name' = names
           /\ object' = [i \in Range(names) |->
                 IF \E p \in puts : names[p] = i
                 THEN values[CHOOSE p \in puts : names[p] = i]
                 ELSE object[i]]
    /\ used' = used \cup Range(fresh)

Write ==
    LET puts == {p \in DOMAIN name' : \/ p \notin DOMAIN name
                                      \/ name'[p] # name[p]
                                      \/ object'[name'[p]] # object[name[p]]}
        fresh == {p \in puts : name'[p] \notin used}
    IN  /\ puts # {}
        /\ \A p, q \in fresh : name'[p] = name'[q] => p = q
        /\ \A p \in puts \ fresh : p \in DOMAIN name /\ name'[p] = name[p]
        /\ Put(puts, [p \in puts |-> object'[name'[p]]], [p \in fresh |-> name'[p]])

\* A new name for the file at `from`.
Link(from, to) ==
    /\ TypeAt(from) = "file" /\ to \notin DOMAIN name /\ TypeAt(Upper(to)) = "dir"
    /\ Renamed(name @@ (to :> name[from]))

Unlink(roots) ==
    /\ <<>> \notin roots
    /\ Renamed([p \in DOMAIN name \ UNION {Within(r) : r \in roots} |-> name[p]])

\* `from` and everything below it move to `to`, replacing what is there.
Move(from, to) ==
    /\ from \in DOMAIN name /\ from # <<>> /\ to # <<>>
    /\ TypeAt(Upper(to)) = "dir" /\ ~IsStrictPrefix(from, to)
    /\ \/ TypeAt(to) = "none"
       \/ (TypeAt(to) = "dir") = (TypeAt(from) = "dir")
    /\ Within(to) \cap DOMAIN name \subseteq {to}
    /\ LET moved == Within(from) \cap DOMAIN name
           landed(p) == to \o SubSeq(p, Len(from) + 1, Len(p))
           kept == DOMAIN name \ (moved \cup {to})
       IN  Renamed([q \in kept \cup {landed(p) : p \in moved} |->
              IF q \in kept THEN name[q]
              ELSE name[CHOOSE p \in moved : landed(p) = q]])

TreeNext ==
    \/ \E p \in TreePaths : Rewrite(p) \/ SetMode(p)
    \/ Write
    \/ \E from, to \in TreePaths : Link(from, to) \/ (from # to /\ Move(from, to))
    \/ \E roots \in SUBSET TreePaths : Unlink(roots)

TreeSpec == TreeInit /\ [][TreeNext]_treeVars
=============================================================================
