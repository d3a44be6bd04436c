--------------------------- MODULE FetchFenceProofs ---------------------------
(* What the tables of FetchPublication say of the tokens that are held, that     *)
(* every step keeps it, and what the writing steps do to the refs and rows.     *)
EXTENDS FetchInvariants, TLAPS

\* A step that names no prover is tried with each of these in turn.
USE SMT, ZenonT(60), SMTT(60)

(* What a step that writes the names and rows of written is to everyone but o.  *)
Spares(o, written) ==
  /\ \A x \in Ops \ {o} :
       /\ pc'[x] = pc[x] /\ request'[x] = request[x] /\ token'[x] = token[x]
       /\ since'[x] = since[x] \/ since'[x] = since[x] \cup written
  /\ \A p \in Prefixes :
       /\ namespaces'[p].latest \in Nat /\ namespaces'[p].revision \in Nat
       /\ namespaces'[p].latest >= namespaces[p].latest
       /\ namespaces'[p].revision >= namespaces[p].revision
       /\ written \cap Under[p] # {} /\ namespaces[p].latest > 0
            => namespaces'[p].revision > namespaces[p].revision
  /\ shallowRevision' \in Nat /\ shallowRevision' >= shallowRevision
  /\ Boundary \in written => shallowRevision' > shallowRevision
  /\ checkoutRevision' \in Nat /\ checkoutRevision' >= checkoutRevision
  /\ written \cap Checkouts # {} => checkoutRevision' > checkoutRevision

(* A token that is held stays sound through any step of somebody else.          *)
LEMMA OthersStaySound ==
  ASSUME FenceInv, NEW o, NEW written, Spares(o, written), NEW x \in Ops \ {o}
  PROVE  TokenSound(x)'
<1> SUFFICES ASSUME HoldsNamespace(x)' PROVE TokenSound(x)' BY DEF TokenSound
<1>1. HoldsNamespace(x) /\ TokenSound(x) /\ Prefix(x)' = Prefix(x)
  BY DEF FenceInv, Spares, HoldsNamespace, Prefix
<1>2. Prefix(x) \in Prefixes
  BY <1>1, RequestsAssumption DEF FenceInv, FenceTypes, CallShape, HoldsNamespace, Prefix
<1>3. namespaces[Prefix(x)].latest \in Nat /\ namespaces[Prefix(x)].revision \in Nat
  BY <1>2 DEF FenceInv, FenceTypes
<1>4. namespaces[Prefix(x)].latest > 0 BY <1>1, <1>3 DEF TokenSound
<1>5. (since[x] \cap Under[Prefix(x)] # {})' =>
         namespaces'[Prefix(x)].revision > token[x].revision
  BY <1>1, <1>2, <1>3, <1>4 DEF Spares, TokenSound
<1>s. /\ since'[x] = since[x] \/ since'[x] = since[x] \cup written
      /\ shallowRevision \in Nat /\ shallowRevision' \in Nat /\ shallowRevision' >= shallowRevision
      /\ Boundary \in written => shallowRevision' > shallowRevision
      /\ checkoutRevision \in Nat /\ checkoutRevision' \in Nat /\ checkoutRevision' >= checkoutRevision
      /\ written \cap Checkouts # {} => checkoutRevision' > checkoutRevision
  BY DEF Spares, FenceInv, FenceTypes
<1>t. /\ token[x].shallowRevision \in Nat /\ token[x].checkoutRevision \in Nat
      /\ shallowRevision >= token[x].shallowRevision
      /\ Boundary \in since[x] => shallowRevision > token[x].shallowRevision
      /\ checkoutRevision >= token[x].checkoutRevision
      /\ since[x] \cap Checkouts # {} => checkoutRevision > token[x].checkoutRevision
  BY <1>1 DEF TokenSound
<1>6. (Boundary \in since[x])' => shallowRevision' > token[x].shallowRevision
  BY <1>s, <1>t
<1>7. (since[x] \cap Checkouts # {})' => checkoutRevision' > token[x].checkoutRevision
  BY <1>s, <1>t
<1>8. token'[x] = token[x] BY DEF Spares
<1>9. /\ namespaces'[Prefix(x)].latest >= token[x].generation
      /\ namespaces'[Prefix(x)].revision >= token[x].revision
  BY <1>1, <1>2, <1>3 DEF Spares, TokenSound
<1>10. shallowRevision' >= token[x].shallowRevision
       /\ checkoutRevision' >= token[x].checkoutRevision
  BY <1>s, <1>t
<1> QED BY <1>1, <1>5, <1>6, <1>7, <1>8, <1>9, <1>10 DEF TokenSound

NamespaceTable == [Prefixes -> [latest : Nat, revision : Nat]]

(* bumpFetchNamespaceRevisions keeps the generations and raises exactly the     *)
(* revisions of the rows that hold a changed name.                              *)
LEMMA BumpRaises ==
  ASSUME NEW ns \in NamespaceTable, NEW changed
  PROVE  /\ BumpedNamespaces(ns, changed) \in NamespaceTable
         /\ \A p \in Prefixes :
              LET after == BumpedNamespaces(ns, changed)[p]
              IN /\ after.latest = ns[p].latest /\ after.revision >= ns[p].revision
                 /\ changed \cap Under[p] # {} /\ ns[p].latest > 0
                      => after.revision > ns[p].revision
<1> SUFFICES ASSUME NEW p \in Prefixes
             PROVE  LET after == BumpedNamespaces(ns, changed)[p]
                    IN /\ after \in [latest : Nat, revision : Nat]
                       /\ after.latest = ns[p].latest /\ after.revision >= ns[p].revision
                       /\ changed \cap Under[p] # {} /\ ns[p].latest > 0
                            => after.revision > ns[p].revision
  BY DEF BumpedNamespaces, NamespaceTable
<1>1. ns[p] \in [latest : Nat, revision : Nat] BY DEF NamespaceTable
<1> QED BY <1>1 DEF BumpedNamespaces

(* A new generation goes up in every row that is written, and changes nothing   *)
(* else of the table.                                                           *)
LEMMA IssueRaises ==
  ASSUME FenceInv, NEW p \in Prefixes
  PROVE  /\ IssuedNamespaces(p) \in NamespaceTable
         /\ \A q \in Prefixes :
              /\ IssuedNamespaces(p)[q].revision = namespaces[q].revision
              /\ IssuedNamespaces(p)[q].latest >= namespaces[q].latest
         /\ IssuedNamespaces(p)[p].latest = Len(issued) + 1
<1> SUFFICES ASSUME NEW q \in Prefixes
             PROVE  /\ IssuedNamespaces(p)[q] \in [latest : Nat, revision : Nat]
                    /\ IssuedNamespaces(p)[q].revision = namespaces[q].revision
                    /\ IssuedNamespaces(p)[q].latest >= namespaces[q].latest
                    /\ q = p => IssuedNamespaces(p)[q].latest = Len(issued) + 1
  BY ZenonT(60) DEF IssuedNamespaces, NamespaceTable
<1>1. namespaces[q] \in [latest : Nat, revision : Nat] /\ Len(issued) \in Nat
      /\ namespaces[q].latest <= Len(issued)
  BY DEF FenceInv, FenceTypes, RowsCurrent
<1> QED BY <1>1 DEF IssuedNamespaces

(* The rows stay current when a generation is issued.                           *)
LEMMA IssueKeepsRows ==
  ASSUME FenceInv, NEW p \in Prefixes, issued' = Append(issued, p),
         \A q \in Prefixes : namespaces'[q].latest = IssuedNamespaces(p)[q].latest
  PROVE  RowsCurrent'
<1> SUFFICES ASSUME NEW q \in Prefixes
             PROVE  /\ namespaces'[q].latest <= Len(issued')
                    /\ \A g \in 1..Len(issued') :
                         namespaces'[q].latest > 0 /\ Overlaps(issued'[g], q)
                           => g <= namespaces'[q].latest
  BY DEF RowsCurrent, Overlaps
<1>1. /\ issued \in Seq(Prefixes) /\ Len(issued) \in Nat /\ Len(issued') = Len(issued) + 1
      /\ issued'[Len(issued) + 1] = p
      /\ \A g \in 1..Len(issued) : issued'[g] = issued[g]
  BY DEF FenceInv, FenceTypes
<1>2. namespaces[q].latest \in Nat /\ namespaces[q].latest <= Len(issued)
  BY DEF FenceInv, FenceTypes, RowsCurrent
<1>3. CASE q = p \/ (namespaces[q].latest > 0 /\ Overlaps(p, q))
  <2>1. namespaces'[q].latest = Len(issued) + 1
    BY <1>3, <1>1, <1>2 DEF IssuedNamespaces, FenceInv, FenceTypes
  <2> QED BY <2>1, <1>1
<1>4. CASE ~(q = p \/ (namespaces[q].latest > 0 /\ Overlaps(p, q)))
  <2>1. namespaces'[q].latest = namespaces[q].latest BY <1>4 DEF IssuedNamespaces
  <2>2. ASSUME NEW g \in 1..Len(issued'), namespaces'[q].latest > 0, Overlaps(issued'[g], q)
        PROVE  g <= namespaces'[q].latest
    <3>1. g # Len(issued) + 1 BY <2>1, <2>2, <1>1, <1>4
    <3>2. g \in 1..Len(issued) /\ issued'[g] = issued[g] BY <3>1, <1>1
    <3> QED BY <3>2, <2>1, <2>2 DEF FenceInv, RowsCurrent
  <2> QED BY <2>1, <2>2, <1>1, <1>2
<1> QED BY <1>3, <1>4

(* They stay current when no generation is issued.                              *)
LEMMA RowsKept ==
  ASSUME FenceInv, issued' = issued,
         \A q \in Prefixes : namespaces'[q].latest = namespaces[q].latest
  PROVE  RowsCurrent'
BY DEF FenceInv, RowsCurrent, Overlaps

(* A call that ends holds no token.                                             *)
LEMMA ReleaseFences ==
  ASSUME FenceInv, NEW o \in Ops, Release(o), since'[o] = {},
         \A x \in Ops \ {o} : pc[x] \notin Holding => since'[x] = since[x]
  PROVE  /\ pc' \in [Ops -> PCs] /\ request' \in [Ops -> Requests \cup {None}]
         /\ token' = [x \in Ops |-> token'[x]]
         /\ \A x \in Ops : CallShape(x)'
         /\ \A x \in Ops \ {o} : pc'[x] = pc[x] /\ request'[x] = request[x] /\ token'[x] = token[x]
         /\ TokenSound(o)'
BY ZenonT(60) DEF FenceInv, FenceTypes, CallShape, Release, PCs, TokenSound, HoldsNamespace

(* What a call under way holds.                                                 *)
LEMMA CallHasPrefix ==
  ASSUME FenceInv, NEW o \in Ops, pc[o] # "idle"
  PROVE  request[o] \in Requests /\ Prefix(o) \in Prefixes
BY RequestsAssumption DEF FenceInv, FenceTypes, CallShape, Prefix

(* One lemma for the steps that neither issue nor change a ref or a revision.   *)
LEMMA QuietStep ==
  ASSUME FenceInv, NEW o \in Ops,
         namespaces' = namespaces, issued' = issued, since' = since,
         shallowRevision' = shallowRevision, checkoutRevision' = checkoutRevision,
         pc' \in [Ops -> PCs], request' \in [Ops -> Requests \cup {None}],
         token' = [x \in Ops |-> token'[x]],
         \A x \in Ops : CallShape(x)',
         \A x \in Ops \ {o} : pc'[x] = pc[x] /\ request'[x] = request[x] /\ token'[x] = token[x],
         TokenSound(o)'
  PROVE  FenceInv'
<1>1. FenceTypes' BY DEF FenceInv, FenceTypes
<1>2. RowsCurrent' BY RowsKept
<1>3. Spares(o, {}) BY DEF Spares, FenceInv, FenceTypes
<1>4. \A x \in Ops \ {o} : TokenSound(x)' BY <1>3, OthersStaySound
<1> QED BY <1>1, <1>2, <1>4 DEF FenceInv

(* A transaction that writes refs: everyone else's token learns of it.          *)
LEMMA RefsStep ==
  ASSUME FenceInv, NEW o, NEW changed, NEW ns \in NamespaceTable,
         namespaces' = BumpedNamespaces(ns, changed),
         \A p \in Prefixes : /\ ns[p].revision = namespaces[p].revision
                            /\ ns[p].latest >= namespaces[p].latest,
         NEW written, written \cap TrackingNames \subseteq changed,
         since' = [x \in Ops |-> IF x = o THEN {} ELSE IF pc[x] \in Holding THEN since[x] \cup written
                                                                        ELSE since[x]],
         written \cap Checkouts = {},
         shallowRevision' \in Nat, shallowRevision' >= shallowRevision,
         Boundary \in written => shallowRevision' > shallowRevision,
         checkoutRevision' = checkoutRevision,
         \A x \in Ops \ {o} : pc'[x] = pc[x] /\ request'[x] = request[x] /\ token'[x] = token[x]
  PROVE  namespaces' \in NamespaceTable /\ \A x \in Ops \ {o} : TokenSound(x)'
<1>1. /\ namespaces' \in NamespaceTable
      /\ \A p \in Prefixes :
           /\ namespaces'[p].latest = ns[p].latest /\ namespaces'[p].revision >= ns[p].revision
           /\ changed \cap Under[p] # {} /\ ns[p].latest > 0
                => namespaces'[p].revision > ns[p].revision
  BY BumpRaises, ZenonT(60)
<1>2. ASSUME NEW p \in Prefixes
      PROVE  /\ namespaces'[p].latest \in Nat /\ namespaces'[p].revision \in Nat
             /\ namespaces'[p].latest >= namespaces[p].latest
             /\ namespaces'[p].revision >= namespaces[p].revision
             /\ written \cap Under[p] # {} /\ namespaces[p].latest > 0
                  => namespaces'[p].revision > namespaces[p].revision
  <2>1. written \cap Under[p] # {} => changed \cap Under[p] # {} BY DEF TrackingNames
  <2>2. namespaces[p] \in [latest : Nat, revision : Nat] /\ ns[p] \in [latest : Nat, revision : Nat]
        /\ namespaces'[p] \in [latest : Nat, revision : Nat]
    BY <1>1, ZenonT(60) DEF FenceInv, FenceTypes, NamespaceTable
  <2> QED BY <1>1, <2>1, <2>2
<1>3. Spares(o, written) BY <1>2 DEF Spares, FenceInv, FenceTypes
<1> QED BY <1>1, <1>3, OthersStaySound

(* Local writes.                                                                *)
LEMMA LocalKeepsFences ==
  ASSUME FenceInv
  PROVE  /\ \A put \in LocalPuts : MutateRef(put[1], put[2]) => FenceInv'
         /\ \A c \in Checkouts, b \in Branches \cup {None} : MutateHead(c, b) => FenceInv'
<1> USE NamesAssumption
<1>1. ASSUME NEW put \in LocalPuts, MutateRef(put[1], put[2]) PROVE FenceInv'
  <2> DEFINE n == put[1]
  <2>1. n \in Names BY LocalPutsAssumption
  <2> HIDE DEF n
  <2>2. /\ namespaces' = BumpedNamespaces(namespaces, {n})
        /\ since' = [x \in Ops |-> IF x = None THEN {} ELSE
                       IF pc[x] \in Holding THEN since[x] \cup {n} ELSE since[x]]
        /\ UNCHANGED <<shallowRevision, checkoutRevision, issued, pc, request, token>>
    BY <1>1 DEF MutateRef, Disturb, shallowVars, checkoutVars, callVars, n
  <2>3. namespaces \in NamespaceTable BY DEF FenceInv, FenceTypes, NamespaceTable
  <2>4. {n} \cap Checkouts = {} /\ Boundary \notin {n} BY <2>1
  <2>5. \A p \in Prefixes : namespaces[p].revision = namespaces[p].revision
                           /\ namespaces[p].latest >= namespaces[p].latest
    BY DEF FenceInv, FenceTypes
  <2>6. namespaces' \in NamespaceTable /\ \A x \in Ops \ {None} : TokenSound(x)'
    <3>1. shallowRevision \in Nat BY DEF FenceInv, FenceTypes
    <3>2. /\ {n} \cap TrackingNames \subseteq {n}
          /\ shallowRevision' \in Nat /\ shallowRevision' >= shallowRevision
          /\ Boundary \in {n} => shallowRevision' > shallowRevision
          /\ checkoutRevision' = checkoutRevision
          /\ \A x \in Ops \ {None} : pc'[x] = pc[x] /\ request'[x] = request[x] /\ token'[x] = token[x]
      BY <2>2, <2>4, <3>1
    <3> QED BY <2>2, <2>3, <2>4, <2>5, <3>2, RefsStep, ZenonT(60)
  <2>7. RowsCurrent' BY <2>2, <2>3, BumpRaises, RowsKept
  <2>8. FenceTypes' BY <2>2, <2>6, ZenonT(60) DEF FenceInv, FenceTypes, NamespaceTable, CallShape
  <2> QED BY <2>6, <2>7, <2>8 DEF FenceInv
<1>2. ASSUME NEW c \in Checkouts, NEW b \in Branches \cup {None}, MutateHead(c, b) PROVE FenceInv'
  <2>1. /\ checkoutRevision' = checkoutRevision + 1
        /\ since' = [x \in Ops |-> IF x = None THEN {} ELSE
                       IF pc[x] \in Holding THEN since[x] \cup {c} ELSE since[x]]
        /\ UNCHANGED <<namespaces, shallowRevision, issued, pc, request, token>>
    BY <1>2 DEF MutateHead, Disturb, shallowVars, callVars
  <2>2. \A p \in Prefixes : c \notin Under[p] BY DEF Names, TrackingNames
  <2>3. c # Boundary OBVIOUS
  <2>4. Spares(None, {c}) BY <2>1, <2>2, <2>3 DEF Spares, FenceInv, FenceTypes
  <2>5. \A x \in Ops : TokenSound(x)' BY <2>4, OthersStaySound
  <2>6. RowsCurrent' BY <2>1, RowsKept
  <2>7. FenceTypes' BY <2>1 DEF FenceInv, FenceTypes, CallShape
  <2> QED BY <2>5, <2>6, <2>7 DEF FenceInv
<1> QED BY <1>1, <1>2

(* Steps that write no table, and the end of a call.                            *)
LEMMA QuietKeepsFences ==
  ASSUME FenceInv, NEW o \in Ops
  PROVE  /\ \A r \in Requests : Ask(o, r) \/ BeginTracking(o, r) => FenceInv'
         /\ Advertise(o) \/ Transfer(o) \/ RemoteReceives(o) => FenceInv'
         /\ Abort(o) => FenceInv'
<1>1. ASSUME NEW r \in Requests, Ask(o, r) PROVE FenceInv'
  <2>1. /\ pc' \in [Ops -> PCs] /\ request' \in [Ops -> Requests \cup {None}]
        /\ \A x \in Ops : CallShape(x)'
        /\ \A x \in Ops \ {o} : pc'[x] = pc[x] /\ request'[x] = request[x]
        /\ TokenSound(o)'
    BY <1>1 DEF Ask, FenceInv, FenceTypes, CallShape, Holding, PCs, TokenSound, HoldsNamespace
  <2> QED
    BY <1>1, <2>1, QuietStep, ZenonT(60) DEF Ask, checkoutVars, shallowVars, FenceInv, FenceTypes
<1>2. ASSUME NEW r \in Requests, BeginTracking(o, r) PROVE FenceInv'
  <2>1. /\ pc' \in [Ops -> PCs] /\ request' \in [Ops -> Requests \cup {None}]
        /\ token' = [x \in Ops |-> token'[x]]
        /\ \A x \in Ops : CallShape(x)'
        /\ \A x \in Ops \ {o} : pc'[x] = pc[x] /\ request'[x] = request[x] /\ token'[x] = token[x]
        /\ TokenSound(o)'
    BY <1>2, ZenonT(60) DEF BeginTracking, FenceInv, FenceTypes, CallShape, Holding, PCs, TokenSound,
                HoldsNamespace
  <2> QED BY <1>2, <2>1, QuietStep, ZenonT(60) DEF BeginTracking, checkoutVars, shallowVars
<1>3. ASSUME Advertise(o) \/ Transfer(o) \/ RemoteReceives(o) PROVE FenceInv'
  <2>1. /\ pc' \in [Ops -> PCs] /\ \A x \in Ops \ {o} : pc'[x] = pc[x]
        /\ pc[o] # "idle" /\ pc'[o] # "tracking" /\ (HoldsNamespace(o)' => HoldsNamespace(o))
        /\ (pc[o] \in Holding => pc'[o] \in Holding)
        /\ UNCHANGED <<namespaces, issued, since, shallowRevision, checkoutRevision, request, token>>
    BY <1>3, ZenonT(60) DEF Advertise, Transfer, RemoteReceives, FenceInv, FenceTypes, PCs, Holding, HoldsNamespace,
                checkoutVars, shallowVars
  <2>2. TokenSound(o)' BY <2>1, ZenonT(60) DEF FenceInv, TokenSound, Prefix
  <2>3. \A x \in Ops : CallShape(x)' BY <2>1 DEF FenceInv, FenceTypes, CallShape
  <2> QED BY <2>1, <2>2, <2>3, QuietStep, ZenonT(60) DEF FenceInv, FenceTypes
<1>4. ASSUME Abort(o) PROVE FenceInv'
  <2>1. Release(o) /\ since' = [since EXCEPT ![o] = {}]
        /\ UNCHANGED <<namespaces, issued, shallowRevision, checkoutRevision>>
    BY <1>4 DEF Abort, checkoutVars, shallowVars
  <2>2. Spares(o, {}) BY <2>1, ReleaseFences DEF Spares, FenceInv, FenceTypes
  <2>3. \A x \in Ops : TokenSound(x)'
    <3>1. since'[o] = {} /\ \A x \in Ops \ {o} : since'[x] = since[x]
      BY <2>1 DEF FenceInv, FenceTypes
    <3> QED BY <2>1, <2>2, <3>1, OthersStaySound, ReleaseFences
  <2>4. RowsCurrent' BY <2>1, RowsKept
  <2>5. FenceTypes' BY <2>1, ReleaseFences, ZenonT(60) DEF FenceInv, FenceTypes
  <2> QED BY <2>3, <2>4, <2>5 DEF FenceInv
<1> QED BY <1>1, <1>2, <1>3, <1>4, ZenonT(60)

(* A token that is issued, kept or thrown away at once.                         *)
LEMMA IssueKeepsFences ==
  ASSUME FenceInv, NEW o \in Ops
  PROVE  BeginFetch(o) \/ BeginPush(o) \/ BeginClobbering(o) => FenceInv'
<1> SUFFICES ASSUME BeginFetch(o) \/ BeginPush(o) \/ BeginClobbering(o) PROVE FenceInv'
  BY ZenonT(60)
<1> DEFINE p == Prefix(o)
<1>1. /\ namespaces' = IssuedNamespaces(p) /\ issued' = Append(issued, p)
      /\ UNCHANGED <<since, shallowRevision, checkoutRevision>> /\ pc[o] = "advertised"
  BY ZenonT(60) DEF BeginFetch, BeginPush, BeginClobbering, Issue, shallowVars, checkoutVars
<1>0. since'[o] = {} /\ since[o] = {}
  BY <1>1, ZenonT(60) DEF FenceInv, FenceTypes, CallShape, Holding
<1>2. p \in Prefixes /\ request[o] \in Requests BY <1>1, CallHasPrefix, ZenonT(60)
<1>3. /\ namespaces' \in NamespaceTable
      /\ \A q \in Prefixes : /\ namespaces'[q].revision = namespaces[q].revision
                             /\ namespaces'[q].latest >= namespaces[q].latest
      /\ namespaces'[p].latest = Len(issued) + 1
  BY <1>1, <1>2, IssueRaises
<1>4. RowsCurrent' BY <1>1, <1>2, IssueKeepsRows
<1>5. /\ pc' \in [Ops -> PCs] /\ request' \in [Ops -> Requests \cup {None}]
      /\ token' = [x \in Ops |-> token'[x]]
      /\ \A x \in Ops : CallShape(x)'
      /\ \A x \in Ops \ {o} : pc'[x] = pc[x] /\ request'[x] = request[x] /\ token'[x] = token[x]
  <2>1. CASE BeginClobbering(o) BY <2>1, <1>1, <1>0, ReleaseFences DEF BeginClobbering
  <2>2. CASE BeginFetch(o) \/ BeginPush(o) BY <2>2, <1>1, <1>0, <1>2, ZenonT(60)
       DEF BeginFetch, BeginPush, Issue, FenceInv, FenceTypes, CallShape, Holding, PCs
  <2> QED BY <2>1, <2>2, ZenonT(60)
<1>6. FenceTypes'
  <2>1. issued' \in Seq(Prefixes) BY <1>1, <1>2 DEF FenceInv, FenceTypes
  <2> QED BY <1>1, <1>3, <1>5, <2>1 DEF FenceInv, FenceTypes, NamespaceTable
<1>7. Spares(o, {}) BY <1>1, <1>3, <1>5 DEF Spares, FenceInv, FenceTypes, NamespaceTable
<1>8. \A x \in Ops \ {o} : TokenSound(x)' BY <1>7, OthersStaySound
<1>9. TokenSound(o)'
  <2>1. CASE BeginClobbering(o) BY <2>1, <1>1, <1>0, ReleaseFences, ZenonT(60) DEF BeginClobbering
  <2>2. CASE BeginFetch(o) \/ BeginPush(o)
    <3>1. /\ token'[o].generation = Len(issued) + 1
          /\ token'[o].revision = namespaces[p].revision
          /\ token'[o].shallowRevision = shallowRevision
          /\ token'[o].checkoutRevision = checkoutRevision
          /\ Prefix(o)' = p
      <4>1. PICK candidates : token' = [token EXCEPT ![o] = Snapshot(p, candidates)]
        BY <2>2, ZenonT(60) DEF BeginFetch, BeginPush, Issue
      <4>2. token = [x \in Ops |-> token[x]]
        BY ZenonT(60) DEF FenceInv, FenceTypes
      <4>3. token'[o] = Snapshot(p, candidates)
        BY <4>1, <4>2, ZenonT(60)
      <4>4. Prefix(o)' = p
        BY <2>2, ZenonT(60) DEF BeginFetch, BeginPush, Prefix
      <4> QED BY <4>3, <4>4 DEF Snapshot
    <3>2. since'[o] = {} BY <1>0
    <3>3. Len(issued) \in Nat /\ namespaces[p].revision \in Nat
      BY <1>2 DEF FenceInv, FenceTypes
    <3>4. /\ namespaces'[p].latest >= token'[o].generation
          /\ namespaces'[p].revision >= token'[o].revision
          /\ token'[o].generation \in Nat \ {0}
      BY <1>2, <1>3, <3>1, <3>3
    <3>5. /\ shallowRevision' = token'[o].shallowRevision /\ shallowRevision' \in Nat
          /\ checkoutRevision' = token'[o].checkoutRevision /\ checkoutRevision' \in Nat
      BY <1>1, <3>1, ZenonT(60) DEF FenceInv, FenceTypes
    <3> HIDE DEF p
    <3> QED BY <3>1, <3>2, <3>3, <3>4, <3>5 DEF TokenSound
  <2> QED BY <2>1, <2>2
<1> QED BY <1>4, <1>6, <1>8, <1>9 DEF FenceInv

(* A mutation changes names, never the shallow boundary.                        *)
LEMMA ChangedNames ==
  ASSUME NEW after
  PROVE  Changed(after) \subseteq Names /\ Boundary \notin Changed(after)
BY NamesAssumption DEF Changed

(* A transaction that publishes refs and ends its call.                         *)
Writes(o, ns, changed, written) ==
  /\ Release(o) /\ namespaces' = BumpedNamespaces(ns, changed)
  /\ Disturb(o, written) /\ written \subseteq changed \cup {Boundary} /\ changed \subseteq Names
  /\ shallowRevision' \in Nat /\ shallowRevision' >= shallowRevision
  /\ Boundary \in written => shallowRevision' > shallowRevision
  /\ checkoutRevision' = checkoutRevision

(* A publication bumps what it writes, so that every other token stays sound.   *)
LEMMA WritesKeepFences ==
  ASSUME FenceInv, NEW o \in Ops, NEW changed, NEW written, NEW ns \in NamespaceTable,
         Writes(o, ns, changed, written), issued' \in Seq(Prefixes), RowsCurrent',
         \A p \in Prefixes : /\ ns[p].revision = namespaces[p].revision
                            /\ ns[p].latest >= namespaces[p].latest
  PROVE  FenceInv'
<1>0. /\ Release(o) /\ namespaces' = BumpedNamespaces(ns, changed)
      /\ written \subseteq changed \cup {Boundary} /\ changed \subseteq Names
      /\ shallowRevision' \in Nat /\ shallowRevision' >= shallowRevision
      /\ Boundary \in written => shallowRevision' > shallowRevision
      /\ checkoutRevision' = checkoutRevision
  BY ZenonT(60) DEF Writes
<1>1. written \cap Checkouts = {} /\ written \cap TrackingNames \subseteq changed
  BY <1>0, NamesAssumption DEF Names
<1>2. since' = [x \in Ops |-> IF x = o THEN {} ELSE IF pc[x] \in Holding THEN since[x] \cup written
                                                                       ELSE since[x]]
  BY ZenonT(60) DEF Writes, Disturb
<1>3. since'[o] = {} /\ \A x \in Ops \ {o} : pc[x] \notin Holding => since'[x] = since[x]
  BY <1>2, ZenonT(60)
<1>4. /\ pc' \in [Ops -> PCs] /\ request' \in [Ops -> Requests \cup {None}]
      /\ token' = [x \in Ops |-> token'[x]]
      /\ \A x \in Ops : CallShape(x)'
      /\ \A x \in Ops \ {o} : pc'[x] = pc[x] /\ request'[x] = request[x] /\ token'[x] = token[x]
      /\ TokenSound(o)'
  BY <1>0, <1>3, ReleaseFences
<1>5. namespaces' \in NamespaceTable /\ \A x \in Ops \ {o} : TokenSound(x)'
  BY <1>0, <1>1, <1>2, <1>4, RefsStep, ZenonT(60)
<1>6. since' = [x \in Ops |-> since'[x]]
  BY <1>2, ZenonT(60)
<1>7. FenceTypes'
  BY <1>0, <1>4, <1>5, <1>6, ZenonT(60) DEF FenceInv, FenceTypes, NamespaceTable
<1> QED
  BY <1>4, <1>5, <1>7, ZenonT(60) DEF FenceInv

(* The same on the rows as they stand, with no generation issued.               *)
LEMMA PlainWritesKeepFences ==
  ASSUME FenceInv, NEW o \in Ops, NEW changed, NEW written,
         Writes(o, namespaces, changed, written), issued' = issued
  PROVE  FenceInv'
<1>1. /\ namespaces \in NamespaceTable /\ issued' \in Seq(Prefixes)
      /\ \A p \in Prefixes : /\ namespaces[p].revision = namespaces[p].revision
                             /\ namespaces[p].latest >= namespaces[p].latest
  BY DEF FenceInv, FenceTypes, NamespaceTable
<1>2. namespaces' = BumpedNamespaces(namespaces, changed)
  BY ZenonT(60) DEF Writes
<1>3. \A q \in Prefixes : namespaces'[q].latest = namespaces[q].latest
  BY <1>1, <1>2, BumpRaises, ZenonT(60)
<1>4. RowsCurrent'
  BY <1>3, RowsKept, ZenonT(60)
<1> QED
  BY <1>1, <1>4, WritesKeepFences, ZenonT(60)

(* The publication of a fetch keeps the fences.                                 *)
LEMMA PublishFetchKeepsFences ==
  ASSUME FenceInv, NEW o \in Ops, PublishFetch(o)
  PROVE  FenceInv'
<1> DEFINE changed == Changed(refs')
           written == changed \cup (IF TouchesShallow(o) THEN {Boundary} ELSE {})
<1>1. /\ Release(o) /\ namespaces' = BumpedNamespaces(namespaces, changed)
      /\ shallowRevision' = (IF TouchesShallow(o) THEN shallowRevision + 1 ELSE shallowRevision)
      /\ Disturb(o, written) /\ checkoutRevision' = checkoutRevision /\ issued' = issued
  BY ZenonT(60) DEF PublishFetch, checkoutVars
<1>2. shallowRevision \in Nat
  BY DEF FenceInv, FenceTypes
<1>3. changed \subseteq Names /\ Boundary \notin changed
  BY ChangedNames
<1> HIDE DEF changed
<1>4. Writes(o, namespaces, changed, written)
  BY <1>1, <1>2, <1>3 DEF Writes
<1> HIDE DEF written
<1> QED
  BY <1>1, <1>4, PlainWritesKeepFences, ZenonT(60)

(* The reconciliation of a push keeps the fences.                               *)
LEMMA ReconcileKeepsFences ==
  ASSUME FenceInv, NEW o \in Ops, ReconcilePush(o)
  PROVE  FenceInv'
<1> DEFINE changed == Changed(refs')
<1>1. /\ Release(o) /\ namespaces' = BumpedNamespaces(namespaces, changed)
      /\ Disturb(o, changed)
      /\ UNCHANGED <<shallowRevision, checkoutRevision, issued>>
  BY ZenonT(60) DEF ReconcilePush, checkoutVars, shallowVars
<1>2. shallowRevision \in Nat
  BY DEF FenceInv, FenceTypes
<1>3. changed \subseteq Names /\ Boundary \notin changed
  BY ChangedNames
<1> HIDE DEF changed
<1>4. Writes(o, namespaces, changed, changed)
  BY <1>1, <1>2, <1>3 DEF Writes
<1> QED
  BY <1>1, <1>4, PlainWritesKeepFences, ZenonT(60)

(* The publication of one tracking ref keeps the fences.                        *)
LEMMA PublishTrackingKeepsFences ==
  ASSUME FenceInv, NEW o \in Ops, NEW v, PublishTracking(o, v)
  PROVE  FenceInv'
<1> DEFINE changed == {request[o].name}
<1>1. /\ Release(o) /\ namespaces' = BumpedNamespaces(namespaces, changed)
      /\ Disturb(o, changed) /\ pc[o] = "tracking"
      /\ UNCHANGED <<shallowRevision, checkoutRevision, issued>>
  BY DEF PublishTracking, checkoutVars, shallowVars
<1>2. shallowRevision \in Nat
  BY DEF FenceInv, FenceTypes
<1>3. request[o] \in Requests /\ request[o].kind = "track"
  BY <1>1, ZenonT(60) DEF FenceInv, FenceTypes, CallShape
<1>4. request[o].name \in Names /\ request[o].name # Boundary
  BY <1>3, RequestsAssumption, NamesAssumption DEF Names, TrackingNames
<1>5. changed \subseteq Names /\ Boundary \notin changed
  BY <1>4
<1> HIDE DEF changed
<1>6. Writes(o, namespaces, changed, changed)
  BY <1>1, <1>2, <1>5 DEF Writes
<1> QED
  BY <1>1, <1>6, PlainWritesKeepFences, ZenonT(60)

(* A push that has nothing to send keeps the fences.                            *)
LEMMA NoopPushKeepsFences ==
  ASSUME FenceInv, NEW o \in Ops, NoopPush(o)
  PROVE  FenceInv'
<1> DEFINE changed == Changed(refs')
           ns == IssuedNamespaces(Prefix(o))
<1>1. /\ Release(o) /\ namespaces' = BumpedNamespaces(ns, changed)
      /\ Disturb(o, changed) /\ pc[o] = "advertised" /\ issued' = Append(issued, Prefix(o))
      /\ UNCHANGED <<shallowRevision, checkoutRevision>>
  BY ZenonT(60) DEF NoopPush, checkoutVars, shallowVars
<1>2. shallowRevision \in Nat /\ issued \in Seq(Prefixes)
  BY ZenonT(60) DEF FenceInv, FenceTypes
<1>3. changed \subseteq Names /\ Boundary \notin changed
  BY ChangedNames
<1> HIDE DEF changed
<1>4. Prefix(o) \in Prefixes
  BY <1>1, CallHasPrefix, ZenonT(60)
<1>5. /\ ns \in NamespaceTable
      /\ \A q \in Prefixes : /\ ns[q].revision = namespaces[q].revision
                             /\ ns[q].latest >= namespaces[q].latest
  BY <1>4, IssueRaises, ZenonT(60)
<1>6. \A q \in Prefixes : namespaces'[q].latest = ns[q].latest
  BY <1>1, <1>5, BumpRaises, ZenonT(60)
<1>7. RowsCurrent' /\ issued' \in Seq(Prefixes)
  BY <1>1, <1>2, <1>4, <1>6, IssueKeepsRows
<1> HIDE DEF ns
<1>8. Writes(o, ns, changed, changed)
  BY <1>1, <1>2, <1>3 DEF Writes
<1> QED
  BY <1>5, <1>7, <1>8, WritesKeepFences, ZenonT(60)

(* The fences hold in every state of the ref tables and calls.                  *)
THEOREM FencesHold == Spec => []FenceInv
<1>1. Init => FenceInv
  <2> SUFFICES ASSUME Init PROVE FenceInv OBVIOUS
  <2>1. FenceTypes BY DEF Init, FenceTypes, CallShape, PCs
  <2>2. RowsCurrent BY DEF Init, RowsCurrent
  <2>3. \A o \in Ops : TokenSound(o) BY ZenonT(60) DEF Init, TokenSound, HoldsNamespace
  <2> QED BY <2>1, <2>2, <2>3 DEF FenceInv
<1>2. FenceInv /\ [Next]_vars => FenceInv'
  <2> SUFFICES ASSUME FenceInv, [Next]_vars PROVE FenceInv' OBVIOUS
  <2>1. CASE UNCHANGED <<namespaces, issued, shallowRevision, checkoutRevision, pc, since, request, token>>
    BY <2>1, ZenonT(60) DEF FenceInv, FenceTypes, CallShape, RowsCurrent, Overlaps, TokenSound, HoldsNamespace, Prefix
  <2>2. ASSUME NEW put \in LocalPuts, MutateRef(put[1], put[2]) PROVE FenceInv'
    BY <2>2, LocalKeepsFences
  <2>3. ASSUME NEW c \in Checkouts, NEW b \in Branches \cup {None}, MutateHead(c, b) PROVE FenceInv'
    BY <2>3, LocalKeepsFences
  <2>4. ASSUME NEW p \in Prefixes, RemoteMoves(p) PROVE FenceInv'
    BY <2>4, <2>1 DEF RemoteMoves, checkoutVars, shallowVars, callVars
  <2>5. ASSUME NEW o \in Ops, NEW r \in Requests, Ask(o, r) \/ BeginTracking(o, r) PROVE FenceInv'
    BY <2>5, QuietKeepsFences
  <2>6. ASSUME NEW o \in Ops, Advertise(o) \/ Transfer(o) \/ RemoteReceives(o) \/ Abort(o)
        PROVE  FenceInv'
    BY <2>6, QuietKeepsFences
  <2>7. ASSUME NEW o \in Ops, BeginFetch(o) \/ BeginClobbering(o) \/ BeginPush(o) PROVE FenceInv'
    BY <2>7, IssueKeepsFences
  <2>8. ASSUME NEW o \in Ops, PublishFetch(o) \/ NoopPush(o) \/ ReconcilePush(o) PROVE FenceInv'
    BY <2>8, PublishFetchKeepsFences, NoopPushKeepsFences, ReconcileKeepsFences
  <2>9. ASSUME NEW o \in Ops, NEW v \in Oids \cup {None}, PublishTracking(o, v) PROVE FenceInv'
    BY <2>9, PublishTrackingKeepsFences
  <2>10. CASE UNCHANGED vars BY <2>10, <2>1 DEF vars
  <2> QED BY <2>2, <2>3, <2>4, <2>5, <2>6, <2>7, <2>8, <2>9, <2>10 DEF Next, StepOf
<1> QED BY <1>1, <1>2, PTL DEF Spec

(* A call under way has its request, and a write is to names.                   *)
LEMMA CallIsKnown ==
  ASSUME FenceInv, NEW o \in Ops, pc[o] # "idle"
  PROVE  request[o] \in Requests /\ Prefix(o) \in Prefixes
BY RequestsAssumption DEF FenceInv, FenceTypes, CallShape, Prefix

(* The names that a mutation changes are names.                                 *)
LEMMA NamesChanged ==
  ASSUME NEW after
  PROVE  Changed(after) \subseteq Names
BY DEF Changed

(* What a step of o is to everyone else.                                        *)
SparesRules(o) ==
  /\ \A x \in Ops \ {o} : /\ pc'[x] = pc[x] /\ request'[x] = request[x] /\ adv'[x] = adv[x]
                         /\ token'[x] = token[x] /\ plan'[x] = plan[x]
  /\ \/ shallow' = shallow /\ shallowRevision' = shallowRevision
     \/ shallowRevision' = shallowRevision + 1

(* The plan, the snapshot and the answer of a call are its own; the boundary it *)
(* saw moves only with the revision it compares.                                *)
LEMMA OthersKeepRules ==
  ASSUME FenceInv, RuleInv, NEW o, SparesRules(o), NEW x \in Ops \ {o}
  PROVE  CallRules(x)'
<1>1. /\ pc'[x] = pc[x] /\ request'[x] = request[x] /\ adv'[x] = adv[x]
      /\ token'[x] = token[x] /\ plan'[x] = plan[x]
  BY ZenonT(60) DEF SparesRules
<1>2. /\ Updates(x)' = Updates(x) /\ Followable(x)' = Followable(x) /\ Prefix(x)' = Prefix(x)
      /\ \A d : Target(x, d)' = Target(x, d)
  BY <1>1, ZenonT(60) DEF Updates, Followable, Prefix, Target
<1>3. CallRules(x)
  BY DEF RuleInv
<1>4. Advertised(x)'
  BY <1>1, <1>2, <1>3, ZenonT(60) DEF CallRules, Advertised
<1>5. FetchRules(x)'
  <2>1. pc[x] \in {"transfer", "publish"} /\ shallowRevision' = token[x].shallowRevision
          => shallow' = token[x].shallow
    <3>1. pc[x] \in {"transfer", "publish"} =>
            /\ token[x].shallowRevision \in Nat /\ shallowRevision >= token[x].shallowRevision
            /\ shallowRevision \in Nat
      BY ZenonT(60) DEF FenceInv, FenceTypes, TokenSound, HoldsNamespace
    <3>2. pc[x] \in {"transfer", "publish"} /\ shallowRevision = token[x].shallowRevision
            => shallow = token[x].shallow
      BY <1>3, ZenonT(60) DEF CallRules, FetchRules
    <3>3. \/ shallow' = shallow /\ shallowRevision' = shallowRevision
          \/ shallowRevision' = shallowRevision + 1
      BY ZenonT(60) DEF SparesRules
    <3>4. ASSUME NEW n \in Nat, NEW k \in Nat, k >= n PROVE k + 1 # n
      BY <3>4
    <3> QED BY <3>1, <3>2, <3>3, <3>4, ZenonT(60)
  <2> QED BY <1>1, <1>2, <1>3, <2>1, ZenonT(60) DEF CallRules, FetchRules
<1>6. PlanRules(x)'
  <2>1. FastForwards(x) => FastForwards(x)'
    BY <1>1, <1>2, ZenonT(60) DEF FastForwards
  <2> QED BY <1>1, <1>2, <1>3, <2>1, ZenonT(60) DEF CallRules, PlanRules
<1>7. PushRules(x)'
  BY <1>1, <1>3, ZenonT(60) DEF CallRules, PushRules, LeasesHold
<1> QED BY <1>4, <1>5, <1>6, <1>7 DEF CallRules

(* The end of a call leaves nothing to keep.                                    *)
LEMMA ReleaseKeepsRules ==
  ASSUME FenceInv, RuleInv, NEW o \in Ops, Release(o)
  PROVE  /\ CallRules(o)' /\ adv' = [x \in Ops |-> adv'[x]] /\ plan' = [x \in Ops |-> plan'[x]]
         /\ \A x \in Ops \ {o} : /\ pc'[x] = pc[x] /\ request'[x] = request[x] /\ adv'[x] = adv[x]
                                /\ token'[x] = token[x] /\ plan'[x] = plan[x]
<1>1. pc'[o] = "idle"
  BY ZenonT(60) DEF Release, FenceInv, FenceTypes
<1>2. CallRules(o)'
  BY <1>1, ZenonT(60) DEF CallRules, Advertised, FetchRules, PlanRules, PushRules
<1>3. adv = [x \in Ops |-> adv[x]] /\ plan = [x \in Ops |-> plan[x]]
  BY DEF RuleInv, RuleTypes
<1> QED BY <1>2, <1>3, ZenonT(60) DEF Release, FenceInv, FenceTypes

(* A step keeps RuleInv if its own call ends up within the rules.               *)
LEMMA RulesStep ==
  ASSUME FenceInv, RuleInv, NEW o, RuleTypes', SparesRules(o), o \in Ops => CallRules(o)'
  PROVE  RuleInv'
<1>1. \A x \in Ops \ {o} : CallRules(x)'
  BY OthersKeepRules
<1> QED BY <1>1 DEF RuleInv

(* What somebody writes is noted for the calls that hold a token.               *)
LEMMA DisturbTyped ==
  ASSUME RuleInv, NEW o, NEW written \in SUBSET (Names \cup Checkouts \cup {Boundary}),
         Disturb(o, written)
  PROVE  since' \in [Ops -> SUBSET (Names \cup Checkouts \cup {Boundary})]
BY DEF RuleInv, RuleTypes, Disturb

(* Revisions stay numbers, and rows that are not there stay away.               *)
LEMMA RowsTyped ==
  ASSUME NEW rows \in [TrackingNames -> Nat \cup {None}], NEW changed
  PROVE  BumpedRows(rows, changed) \in [TrackingNames -> Nat \cup {None}]
BY NamesAssumption DEF BumpedRows

(* Observing the rows of a namespace keeps their type.                          *)
LEMMA ObservedTyped ==
  ASSUME RuleInv, NEW p
  PROVE  ObservedRows(p) \in [TrackingNames -> Nat \cup {None}]
BY NamesAssumption DEF RuleInv, RuleTypes, ObservedRows

(* A fetch under way asks for names, and is answered with objects.              *)
LEMMA FetchShape ==
  ASSUME FenceInv, RuleInv, NEW o \in Ops, pc[o] \in {"advertised", "transfer", "publish"},
         request[o].kind = "fetch"
  PROVE  /\ Prefix(o) \in Prefixes
         /\ Updates(o) \subseteq Names \ {HeadOf[Prefix(o)]}
         /\ \A d \in Updates(o) : Target(o, d) \in Oids
         /\ Followable(o) \subseteq Tags /\ \A t \in Followable(o) : adv[o].refs[t] \in Oids
         /\ adv[o].head \in Under[Prefix(o)] \cup {None}
         /\ request[o].prune => request[o].head
<1>1. request[o] \in Requests /\ Prefix(o) \in Prefixes
  BY CallIsKnown, ZenonT(60)
<1>2. /\ DOMAIN request[o].map \subseteq Names \ {HeadOf[Prefix(o)]}
      /\ \A d \in DOMAIN request[o].map : request[o].map[d] \in Advertisable
      /\ request[o].prune => request[o].head
  BY <1>1, RequestsAssumption, ZenonT(60) DEF Prefix
<1>3. adv[o] \in [refs : [Advertisable -> Oids \cup {None}], head : Under[Prefix(o)] \cup {None}]
  BY DEF RuleInv, CallRules, Advertised
<1>4. \A s \in Advertisable : adv[o].refs[s] \in Oids \cup {None}
  BY <1>3, ZenonT(60)
<1>5. adv[o].head \in Under[Prefix(o)] \cup {None}
  BY <1>3, ZenonT(60)
<1>6. \A d \in Updates(o) : d \in DOMAIN request[o].map /\ Target(o, d) \in Oids
  BY <1>2, <1>4, ZenonT(60) DEF Updates, Target
<1>7. Followable(o) \subseteq Tags /\ \A t \in Followable(o) : adv[o].refs[t] \in Oids
  BY <1>4 DEF Followable, Advertisable
<1> QED BY <1>1, <1>2, <1>5, <1>6, <1>7, ZenonT(60)

(* The rows after a publication, one kind of destination after the other.       *)
LEMMA PublishedRows ==
  ASSUME FenceInv, RuleInv, NEW o \in Ops, pc[o] = "publish"
  PROVE  /\ AfterFetch(o) = [n \in Names |-> AfterFetch(o)[n]]
         /\ \A n \in Updates(o) : AfterFetch(o)[n] = Target(o, n)
         /\ \A n \in plan[o].followed :
              n \in Tags /\ n \notin Updates(o) /\ AfterFetch(o)[n] = adv[o].refs[n]
         /\ \A n \in Branches \cup Tags :
              n \notin Updates(o) \cup plan[o].followed => AfterFetch(o)[n] = refs[n]
         /\ AfterFetch(o)[HeadOf[Prefix(o)]] = RemoteHead(o)
         /\ \A n \in TrackingNames \ (Updates(o) \cup {HeadOf[Prefix(o)]}) :
              AfterFetch(o)[n] = IF n \in Pruned(o) THEN None ELSE refs[n]
<1>0. request[o].kind = "fetch" /\ plan[o].followed \subseteq Followable(o)
  BY ZenonT(60) DEF RuleInv, CallRules, FetchRules, PlanRules
<1>1. Prefix(o) \in Prefixes /\ Updates(o) \subseteq Names \ {HeadOf[Prefix(o)]}
      /\ Followable(o) \subseteq Tags
  BY <1>0, FetchShape
<1>2. HeadOf[Prefix(o)] \in TrackingNames /\ Pruned(o) \subseteq TrackingNames
  BY <1>1, PrefixAssumption, ZenonT(60) DEF Pruned, TrackingNames
<1>3. Followable(o) \cap Updates(o) = {}
  BY DEF Followable
<1>4. TrackingNames \subseteq Names /\ Tags \subseteq Names /\ Branches \subseteq Names
      /\ TrackingNames \cap (Branches \cup Tags) = {}
  BY NamesAssumption DEF Names
<1>5. ASSUME NEW n \in Names
      PROVE  /\ n \in Updates(o) => AfterFetch(o)[n] = Target(o, n)
             /\ n \notin Updates(o) /\ n \in plan[o].followed => AfterFetch(o)[n] = adv[o].refs[n]
             /\ n \notin Updates(o) \cup plan[o].followed /\ n = HeadOf[Prefix(o)]
                  => AfterFetch(o)[n] = RemoteHead(o)
             /\ n \notin Updates(o) \cup plan[o].followed \cup {HeadOf[Prefix(o)]}
                  => AfterFetch(o)[n] = IF n \in Pruned(o) THEN None ELSE refs[n]
  <2>1. AfterFetch(o)[n] =
          CASE n \in Updates(o) -> Target(o, n)
            [] n \in plan[o].followed -> adv[o].refs[n]
            [] n = HeadOf[Prefix(o)] -> RemoteHead(o)
            [] n \in Pruned(o) -> None
            [] OTHER -> refs[n]
    BY ZenonT(60) DEF AfterFetch
  <2>2. /\ n \in Updates(o) => n \notin plan[o].followed /\ n # HeadOf[Prefix(o)] /\ n \notin Pruned(o)
        /\ n \in plan[o].followed => n # HeadOf[Prefix(o)] /\ n \notin Pruned(o)
        /\ n = HeadOf[Prefix(o)] => n \notin Pruned(o)
    BY <1>0, <1>1, <1>2, <1>3, <1>4, ZenonT(60) DEF Pruned
  <2> QED BY <2>1, <2>2
<1>6. AfterFetch(o) = [n \in Names |-> AfterFetch(o)[n]]
  BY DEF AfterFetch
<1>7. \A n \in Updates(o) : AfterFetch(o)[n] = Target(o, n)
  BY <1>1, <1>5, ZenonT(60)
<1>8. \A n \in plan[o].followed :
        n \in Tags /\ n \notin Updates(o) /\ AfterFetch(o)[n] = adv[o].refs[n]
  BY <1>0, <1>1, <1>3, <1>4, <1>5, ZenonT(60)
<1>9. \A n \in Branches \cup Tags :
        n \notin Updates(o) \cup plan[o].followed => AfterFetch(o)[n] = refs[n]
  BY <1>2, <1>4, <1>5, ZenonT(60)
<1>10. AfterFetch(o)[HeadOf[Prefix(o)]] = RemoteHead(o)
  BY <1>0, <1>1, <1>2, <1>4, <1>5, ZenonT(60)
<1>11. \A n \in TrackingNames \ (Updates(o) \cup {HeadOf[Prefix(o)]}) :
         AfterFetch(o)[n] = IF n \in Pruned(o) THEN None ELSE refs[n]
  BY <1>0, <1>1, <1>2, <1>4, <1>5, ZenonT(60)
<1> QED BY <1>6, <1>7, <1>8, <1>9, <1>10, <1>11, ZenonT(60)

(* What a fetch publishes is a ref table.                                       *)
LEMMA PublishedTyped ==
  ASSUME FenceInv, RuleInv, NEW o \in Ops, pc[o] = "publish"
  PROVE  AfterFetch(o) \in RefTable
<1>0. request[o].kind = "fetch" /\ plan[o].followed \subseteq Followable(o)
  BY ZenonT(60) DEF RuleInv, CallRules, FetchRules, PlanRules
<1>1. /\ Prefix(o) \in Prefixes /\ \A d \in Updates(o) : Target(o, d) \in Oids
      /\ \A t \in Followable(o) : adv[o].refs[t] \in Oids
      /\ adv[o].head \in Under[Prefix(o)] \cup {None}
  BY <1>0, FetchShape, ZenonT(60)
<1>2. /\ \A n \in Names : refs[n] \in Oids \cup TrackingNames \cup {None}
      /\ \A n \in Branches \cup Tags : refs[n] \in Oids \cup {None}
  BY DEF RuleInv, RuleTypes, RefTable
<1>3. HeadOf[Prefix(o)] \in Names /\ Under[Prefix(o)] \subseteq TrackingNames
  BY <1>1, PrefixAssumption, ZenonT(60) DEF Names, TrackingNames
<1>4. RemoteHead(o) \in Oids \cup TrackingNames \cup {None}
  BY <1>1, <1>2, <1>3, ZenonT(60) DEF RemoteHead
<1>5. \A n \in Branches \cup Tags : AfterFetch(o)[n] \in Oids \cup {None}
  BY <1>0, <1>1, <1>2, PublishedRows
<1>6. \A n \in TrackingNames : AfterFetch(o)[n] \in Oids \cup TrackingNames \cup {None}
  BY <1>1, <1>2, <1>4, PublishedRows DEF Names
<1>7. \A n \in Names : AfterFetch(o)[n] \in Oids \cup TrackingNames \cup {None}
  BY <1>5, <1>6, ZenonT(60) DEF Names
<1>8. AfterFetch(o) = [n \in Names |-> AfterFetch(o)[n]]
  BY PublishedRows
<1> QED BY <1>5, <1>7, <1>8, ZenonT(60) DEF RefTable

(* Push names only tracking refs, and gives them objects.                       *)
LEMMA PushedTyped ==
  ASSUME FenceInv, RuleInv, NEW o \in Ops, pc[o] # "idle", request[o].kind = "push",
         NEW confirmed \in SUBSET DOMAIN request[o].targets
  PROVE  AfterPush(o, confirmed) \in RefTable
<1>1. request[o] \in Requests /\ Prefix(o) \in Prefixes
  BY CallIsKnown, ZenonT(60)
<1>2. /\ DOMAIN request[o].targets \subseteq Under[Prefix(o)]
      /\ \A d \in DOMAIN request[o].targets : request[o].targets[d] \in Oids \cup {None}
  BY <1>1, RequestsAssumption, ZenonT(60) DEF Prefix
<1>3. confirmed \subseteq TrackingNames
  BY <1>1, <1>2, ZenonT(60) DEF TrackingNames
<1>4. \A d \in confirmed : request[o].targets[d] \in Oids \cup {None}
  BY <1>2
<1>5. refs \in RefTable
  BY ZenonT(60) DEF RuleInv, RuleTypes
<1> QED BY <1>3, <1>4, <1>5, NamesAssumption, ZenonT(60) DEF AfterPush, RefTable, Names

(* A transaction that publishes refs and ends its call.                         *)
LEMMA WritesKeepRules ==
  ASSUME FenceInv, RuleInv, NEW o \in Ops, Release(o), refs' \in RefTable, shallow' \subseteq Oids,
         trackingRevisions' \in [TrackingNames -> Nat \cup {None}],
         NEW written \in SUBSET (Names \cup Checkouts \cup {Boundary}), Disturb(o, written),
         heads' = heads, remote' = remote,
         \/ shallow' = shallow /\ shallowRevision' = shallowRevision
         \/ shallowRevision' = shallowRevision + 1
  PROVE  RuleInv'
<1>1. /\ CallRules(o)' /\ adv' = [x \in Ops |-> adv'[x]] /\ plan' = [x \in Ops |-> plan'[x]]
      /\ \A x \in Ops \ {o} : /\ pc'[x] = pc[x] /\ request'[x] = request[x] /\ adv'[x] = adv[x]
                             /\ token'[x] = token[x] /\ plan'[x] = plan[x]
  BY ReleaseKeepsRules
<1>2. since' \in [Ops -> SUBSET (Names \cup Checkouts \cup {Boundary})]
  BY DisturbTyped, ZenonT(60)
<1>3. RuleTypes'
  BY <1>1, <1>2, ZenonT(60) DEF RuleInv, RuleTypes, RefTable, RemoteTable
<1>4. SparesRules(o)
  BY <1>1, ZenonT(60) DEF SparesRules
<1> QED BY <1>1, <1>3, <1>4, RulesStep, ZenonT(60)

(* The publication of a fetch keeps RuleInv.                                    *)
LEMMA PublishFetchKeepsRules ==
  ASSUME FenceInv, RuleInv, NEW o \in Ops, PublishFetch(o)
  PROVE  RuleInv'
<1>1. pc[o] = "publish" /\ Release(o) /\ refs' = AfterFetch(o)
      /\ trackingRevisions' = BumpedRows(trackingRevisions, Changed(refs'))
      /\ heads' = heads /\ remote' = remote
  BY ZenonT(60) DEF PublishFetch, checkoutVars
<1>2. /\ shallow' = (shallow \ (token[o].shallow \ plan[o].boundary))
                      \cup (plan[o].boundary \ token[o].shallow)
      /\ shallowRevision' = (IF TouchesShallow(o) THEN shallowRevision + 1 ELSE shallowRevision)
      /\ Disturb(o, Changed(refs') \cup (IF TouchesShallow(o) THEN {Boundary} ELSE {}))
  BY ZenonT(60) DEF PublishFetch
<1>3. refs' \in RefTable
  BY <1>1, PublishedTyped, ZenonT(60)
<1>4. shallow \subseteq Oids /\ plan[o].boundary \subseteq Oids
  BY <1>1, ZenonT(60) DEF RuleInv, RuleTypes, CallRules, PlanRules
<1>5. \/ shallow' = shallow /\ shallowRevision' = shallowRevision
      \/ shallowRevision' = shallowRevision + 1
  BY <1>2, ZenonT(60) DEF TouchesShallow
<1>6. Changed(refs') \cup (IF TouchesShallow(o) THEN {Boundary} ELSE {})
        \in SUBSET (Names \cup Checkouts \cup {Boundary})
  BY NamesChanged
<1>7. trackingRevisions' \in [TrackingNames -> Nat \cup {None}]
  BY <1>1, RowsTyped, ZenonT(60) DEF RuleInv, RuleTypes
<1>8. shallow' \subseteq Oids
  BY <1>2, <1>4, ZenonT(60)
<1> QED BY <1>1, <1>2, <1>3, <1>5, <1>6, <1>7, <1>8, WritesKeepRules, ZenonT(60)
===============================================================================
