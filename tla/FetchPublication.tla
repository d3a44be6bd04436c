--------------------------- MODULE FetchPublication ---------------------------
(* Fetches, pushes and tracking-ref publications of one repository.  Each reads *)
(* the ref tables, waits for the network, and publishes in one transaction what *)
(* it has learnt, unless the generation, the revisions or the rows that its     *)
(* token retained say that somebody was faster.                                 *)
EXTENDS Naturals, Sequences

CONSTANTS Ops,            \* calls of fetch and push that may run at once
          Prefixes,       \* tracking namespaces refs/remotes/<remote>/
          Under,          \* [Prefixes -> set of the tracking names that start with it]
          HeadOf,         \* [Prefixes -> its refs/remotes/<remote>/HEAD]
          Branches, Tags, Checkouts, Oids,
          Ancestors,      \* [Oids -> the commits in its history, itself included]
          Requests,       \* the calls that are made
          LocalPuts,      \* <<name, target>> that other local calls write
          RemoteStates,   \* [Prefixes -> what the remote may hold]
          None,
          MaxIssues, MaxRevision, MaxVersions   \* bounds of the instance

TrackingNames == UNION {Under[p] : p \in Prefixes}
Names == TrackingNames \cup Branches \cup Tags
Advertisable == TrackingNames \cup Tags   \* a remote's head goes by the name it lowers to
Boundary == "shallow boundary"

(* One prefix starts with the other.                                            *)
Overlaps(p, q) == Under[p] \subseteq Under[q] \/ Under[q] \subseteq Under[p]

ASSUME PrefixAssumption ==
  /\ Under \in [Prefixes -> SUBSET TrackingNames]
  /\ \A p \in Prefixes : HeadOf[p] \in Under[p]
  /\ \A p, q \in Prefixes : Under[p] \cap Under[q] # {} => Overlaps(p, q)

ASSUME LocalPutsAssumption == LocalPuts \subseteq Names \X (Oids \cup {None})

ASSUME NamesAssumption ==
  /\ TrackingNames \cap (Branches \cup Tags) = {} /\ Branches \cap Tags = {}
  /\ Names \cap Checkouts = {} /\ Boundary \notin Names \cup Checkouts
  /\ None \notin Names \cup Oids \cup Checkouts /\ None \notin Ops /\ None \notin Nat

(* fetch maps destinations, never the remote's HEAD, to sources, and prunes     *)
(* only where it sets the HEAD; push maps tracking names to what they get.      *)
ASSUME RequestsAssumption ==
  \A r \in Requests :
     /\ r.remote \in Prefixes
     /\ r.kind = "fetch" => /\ DOMAIN r.map \subseteq Names \ {HeadOf[r.remote]}
                            /\ \A d \in DOMAIN r.map : r.map[d] \in Advertisable
                            /\ r.prune => r.head
     /\ r.kind = "push" => /\ DOMAIN r.targets \subseteq Under[r.remote]
                           /\ \A d \in DOMAIN r.targets : r.targets[d] \in Oids \cup {None}
                           /\ r.leased \subseteq DOMAIN r.targets
     /\ r.kind = "track" => r.name \in Under[r.remote]

ASSUME RemoteAssumption ==
  \A p \in Prefixes :
     RemoteStates[p] \subseteq [refs : [Advertisable -> Oids \cup {None}],
                               head : Under[p] \cup {None}, version : Nat]

ASSUME AncestorsAssumption == \A x \in Oids : x \in Ancestors[x]

VARIABLES refs,                           \* git_refs: name -> oid, symbolic name, or None
          heads, checkoutRevision,        \* attached branch of each checkout
          shallow, shallowRevision,       \* git_shallow
          namespaces,                     \* git_fetch_namespaces; latest 0 is no row
          trackingRevisions,              \* git_tracking_ref_revisions; None is no row
          issued,                         \* the prefix for which each generation was issued
          remote,                         \* the remotes, outside the program
          pc, request, adv, token, plan,  \* what a call holds between its steps
          since                           \* what others wrote since its token was issued

vars == <<refs, heads, checkoutRevision, shallow, shallowRevision, namespaces, trackingRevisions,
          issued, remote, pc, request, adv, token, plan, since>>
checkoutVars == <<heads, checkoutRevision>>
shallowVars == <<shallow, shallowRevision>>
callVars == <<pc, request, adv, token, plan>>

PCs == {"idle", "asked", "advertised", "transfer", "publish", "sent", "answered", "tracking"}
Holding == {"transfer", "publish", "sent", "answered", "tracking"}

TypeOK ==
  /\ refs \in [Names -> Oids \cup TrackingNames \cup {None}]
  /\ heads \in [Checkouts -> Branches \cup {None}]
  /\ checkoutRevision \in Nat /\ shallow \subseteq Oids /\ shallowRevision \in Nat
  /\ namespaces \in [Prefixes -> [latest : Nat, revision : Nat]]
  /\ trackingRevisions \in [TrackingNames -> Nat \cup {None}]
  /\ issued \in Seq(Prefixes)
  /\ pc \in [Ops -> PCs]
  /\ since \in [Ops -> SUBSET (Names \cup Checkouts \cup {Boundary})]
  /\ \A o \in Ops : pc[o] # "idle" => request[o] \in Requests /\ request[o].remote \in Prefixes

Init ==
  /\ refs = [n \in Names |-> None] /\ heads = [c \in Checkouts |-> None]
  /\ checkoutRevision = 0 /\ shallow = {} /\ shallowRevision = 0
  /\ namespaces = [p \in Prefixes |-> [latest |-> 0, revision |-> 0]]
  /\ trackingRevisions = [n \in TrackingNames |-> None]
  /\ issued = <<>>
  /\ remote \in [Prefixes -> UNION {RemoteStates[p] : p \in Prefixes}]
  /\ \A p \in Prefixes : remote[p] \in RemoteStates[p]
  /\ pc = [o \in Ops |-> "idle"]
  /\ request = [o \in Ops |-> None] /\ adv = [o \in Ops |-> None]
  /\ token = [o \in Ops |-> None] /\ plan = [o \in Ops |-> None]
  /\ since = [o \in Ops |-> {}]

-----------------------------------------------------------------------------
(* The tables.                                                                  *)

Prefix(o) == request[o].remote

(* Variant: only the row of the prefix itself gets the generation.              *)
IssuedAlone(p) == [namespaces EXCEPT ![p].latest = Len(issued) + 1]

(* beginFetchPublication gives the next generation to every namespace row that  *)
(* overlaps p, and makes p's row if there is none.                              *)
IssuedNamespaces(p) ==
  [q \in Prefixes |->
     IF q = p \/ (namespaces[q].latest > 0 /\ Overlaps(p, q))
     THEN [namespaces[q] EXCEPT !.latest = Len(issued) + 1]
     ELSE namespaces[q]]

ObservedRows(p) ==
  [n \in TrackingNames |->
     IF n \in Under[p] /\ trackingRevisions[n] # None THEN trackingRevisions[n] + 1
                                                     ELSE trackingRevisions[n]]

(* Variants: no revision moves; every revision moves.                           *)
NamespacesUnbumped(ns, changed) == ns

BumpedNamespaces(ns, changed) ==
  [p \in Prefixes |->
     IF ns[p].latest > 0 /\ Under[p] \cap changed # {}
     THEN [ns[p] EXCEPT !.revision = @ + 1]
     ELSE ns[p]]

BumpedRows(rows, changed) ==
  [n \in TrackingNames |->
     IF n \in changed /\ rows[n] # None THEN rows[n] + 1 ELSE rows[n]]

Changed(after) == {n \in Names : after[n] # refs[n]}

Disturb(o, written) ==
  since' = [x \in Ops |-> IF x = o THEN {} ELSE IF pc[x] \in Holding THEN since[x] \cup written
                                                                    ELSE since[x]]

RevisionsBounded ==
  /\ \A p \in Prefixes : namespaces[p].revision < MaxRevision
  /\ \A n \in TrackingNames : trackingRevisions[n] # None => trackingRevisions[n] < MaxRevision
  /\ checkoutRevision < MaxRevision /\ shallowRevision < MaxRevision

(* What a token retains.                                                        *)
Snapshot(p, candidates) ==
  [generation |-> Len(issued) + 1, revision |-> namespaces[p].revision,
   shallow |-> shallow, shallowRevision |-> shallowRevision,
   tracking |-> [n \in Under[p] |-> refs[n]], exact |-> [n \in candidates |-> refs[n]],
   checkoutRevision |-> checkoutRevision]

Issue(o, candidates) ==
  /\ Len(issued) < MaxIssues /\ RevisionsBounded
  /\ issued' = Append(issued, Prefix(o))
  /\ token' = [token EXCEPT ![o] = Snapshot(Prefix(o), candidates)]

(* Variant: the token is disposed while the call goes on.                       *)
ReleaseGoingOn(o) ==
  /\ pc' = pc
  /\ request' = [request EXCEPT ![o] = None] /\ adv' = [adv EXCEPT ![o] = None]
  /\ token' = [token EXCEPT ![o] = None] /\ plan' = [plan EXCEPT ![o] = None]

(* The call returns or throws, and its token is disposed.                       *)
Release(o) ==
  /\ pc' = [pc EXCEPT ![o] = "idle"]
  /\ request' = [request EXCEPT ![o] = None] /\ adv' = [adv EXCEPT ![o] = None]
  /\ token' = [token EXCEPT ![o] = None] /\ plan' = [plan EXCEPT ![o] = None]

-----------------------------------------------------------------------------
(* Local work.                                                                  *)

MutateRef(n, v) ==
  /\ refs[n] # v /\ RevisionsBounded
  /\ refs' = [refs EXCEPT ![n] = v]
  /\ namespaces' = BumpedNamespaces(namespaces, {n})
  /\ trackingRevisions' = BumpedRows(trackingRevisions, {n})
  /\ Disturb(None, {n})
  /\ UNCHANGED <<checkoutVars, shallowVars, issued, remote, callVars>>

(* A checkout attaches to a branch that no other has, or detaches.              *)
MutateHead(c, b) ==
  /\ heads[c] # b /\ RevisionsBounded
  /\ b # None => \A d \in Checkouts : heads[d] # b
  /\ heads' = [heads EXCEPT ![c] = b]
  /\ checkoutRevision' = checkoutRevision + 1
  /\ Disturb(None, {c})
  /\ UNCHANGED <<refs, shallowVars, namespaces, trackingRevisions, issued, remote, callVars>>

(* Somebody else pushes to the remote.                                          *)
RemoteMoves(p) ==
  /\ remote[p].version < MaxVersions
  /\ \E r \in RemoteStates[p] :
       /\ [r EXCEPT !.version = 0] # [remote[p] EXCEPT !.version = 0]
       /\ remote' = [remote EXCEPT ![p] = [r EXCEPT !.version = remote[p].version + 1]]
  /\ UNCHANGED <<refs, checkoutVars, shallowVars, namespaces, trackingRevisions, issued, callVars,
                 since>>

-----------------------------------------------------------------------------
(* Discovery, for fetch and push.                                               *)

(* A push retains its tracking leases before it asks for the advertisement.     *)
(* Left out: leases on a value the caller gives, which nothing local can move,  *)
(* and what a push refuses for its arguments alone.                             *)
snapshotPushLeases(leased) == [d \in leased |-> refs[d]]

Ask(o, r) ==
  /\ pc[o] = "idle" /\ r.kind \in {"fetch", "push"}
  /\ r.kind = "push" => \A d \in r.leased : refs[d] \in Oids
  /\ pc' = [pc EXCEPT ![o] = "asked"]
  /\ request' = [request EXCEPT ![o] = r]
  /\ plan' = [plan EXCEPT ![o] = 
                IF r.kind = "push" THEN [lease |-> snapshotPushLeases(r.leased)] ELSE None]
  /\ UNCHANGED <<refs, checkoutVars, shallowVars, namespaces, trackingRevisions, issued, remote,
                 adv, token, since>>

Advertise(o) ==
  /\ pc[o] = "asked"
  /\ pc' = [pc EXCEPT ![o] = "advertised"]
  /\ adv' = [adv EXCEPT ![o] = [refs |-> remote[Prefix(o)].refs, head |-> remote[Prefix(o)].head]]
  /\ UNCHANGED <<refs, checkoutVars, shallowVars, namespaces, trackingRevisions, issued, remote,
                 request, token, plan, since>>

(* A failure, a cancellation or a lost answer at any await.                     *)
Abort(o) ==
  /\ pc[o] # "idle"
  /\ Release(o)
  /\ since' = [since EXCEPT ![o] = {}]
  /\ UNCHANGED <<refs, checkoutVars, shallowVars, namespaces, trackingRevisions, issued, remote>>

-----------------------------------------------------------------------------
(* Fetch.                                                                       *)

(* The destinations whose source is advertised, and what they get.              *)
Updates(o) == {d \in DOMAIN request[o].map : adv[o].refs[request[o].map[d]] # None}
Target(o, d) == adv[o].refs[request[o].map[d]]
Followable(o) == IF request[o].follow THEN {t \in Tags : adv[o].refs[t] # None} \ Updates(o)
                                      ELSE {}
Refused(o) == \/ request[o].mapped /\ Updates(o) = {}
              \/ \E c \in Checkouts : heads[c] \in Updates(o)

(* A tag that is there and is another one, without force.                       *)
ClobbersTag(o) ==
  \E t \in (Updates(o) \cap Tags) \ request[o].forced : refs[t] \notin {None, Target(o, t)}

(* fetchMappedInto up to the first await.  The fence outlives the refusal.      *)
BeginFetch(o) ==
  /\ pc[o] = "advertised" /\ request[o].kind = "fetch" /\ ~Refused(o)
  /\ Issue(o, (Updates(o) \ Under[Prefix(o)]) \cup Followable(o))
  /\ namespaces' = IssuedNamespaces(Prefix(o))
  /\ trackingRevisions' = ObservedRows(Prefix(o))
  /\ ~ClobbersTag(o)
  /\ pc' = [pc EXCEPT ![o] = "transfer"]
  /\ UNCHANGED <<refs, checkoutVars, shallowVars, remote, request, adv, plan, since>>

BeginClobbering(o) ==
  /\ pc[o] = "advertised" /\ request[o].kind = "fetch" /\ ~Refused(o)
  /\ Len(issued) < MaxIssues /\ RevisionsBounded
  /\ issued' = Append(issued, Prefix(o))
  /\ namespaces' = IssuedNamespaces(Prefix(o))
  /\ trackingRevisions' = ObservedRows(Prefix(o))
  /\ ClobbersTag(o)
  /\ Release(o)
  /\ UNCHANGED <<refs, checkoutVars, shallowVars, remote, since>>

FastForwards(o) ==
  \A b \in (Updates(o) \cap Branches) \ request[o].forced :
     token[o].exact[b] # None => token[o].exact[b] \in Ancestors[Target(o, b)]

(* The pack and the shallow response arrive; followed are the tags that were    *)
(* absent and whose targets are connected.                                      *)
Transfer(o) ==
  /\ pc[o] = "transfer"
  /\ FastForwards(o)
  /\ \E boundary \in SUBSET Oids,
        followed \in SUBSET {t \in Followable(o) : token[o].exact[t] = None} :
       /\ boundary # token[o].shallow => request[o].deepens
       /\ plan' = [plan EXCEPT ![o] = [boundary |-> boundary, followed |-> followed]]
  /\ pc' = [pc EXCEPT ![o] = "publish"]
  /\ UNCHANGED <<refs, checkoutVars, shallowVars, namespaces, trackingRevisions, issued, remote,
                 request, adv, token, since>>

(* normalizeFetchPublication and remoteHeadTarget: the rows after publication.  *)
TrackingKeep(o) == {n \in Under[Prefix(o)] \ {HeadOf[Prefix(o)]} : adv[o].refs[n] # None}
Pruned(o) ==
  IF request[o].prune
  THEN {n \in Under[Prefix(o)] \ {HeadOf[Prefix(o)]} : token[o].tracking[n] # None}
         \ (Updates(o) \cup TrackingKeep(o))
  ELSE {}

HeadSettled(o) ==
  LET h == adv[o].head
      kept == request[o].prune => h \in TrackingKeep(o)
  IN h # None /\ ((kept /\ token[o].tracking[h] # None) \/ h \in Updates(o))

RemoteHead(o) ==
  IF ~request[o].head THEN refs[HeadOf[Prefix(o)]]
  ELSE IF HeadSettled(o) THEN adv[o].head
  ELSE IF request[o].prune THEN None
  ELSE refs[HeadOf[Prefix(o)]]

AfterFetch(o) ==
  [n \in Names |->
     CASE n \in Updates(o) -> Target(o, n)
       [] n \in plan[o].followed -> adv[o].refs[n]
       [] n = HeadOf[Prefix(o)] -> RemoteHead(o)
       [] n \in Pruned(o) -> None
       [] OTHER -> refs[n]]

(* preflightFetchPublication.                                                   *)
NamespaceFresh(o) ==
  /\ namespaces[Prefix(o)].latest = token[o].generation
  /\ namespaces[Prefix(o)].revision = token[o].revision
  /\ \A n \in Under[Prefix(o)] : refs[n] = token[o].tracking[n]

TouchesShallow(o) == plan[o].boundary # token[o].shallow
(* Variants: the boundary, the checkouts, the exact refs are not compared.      *)
ShallowUnchecked(o) == TRUE

ShallowFresh(o) == TouchesShallow(o) => shallowRevision = token[o].shallowRevision

SelectedExact(o) == (Updates(o) \cup plan[o].followed) \ Under[Prefix(o)]
BranchesFresh(o) ==
  SelectedExact(o) \cap Branches # {} =>
    /\ checkoutRevision = token[o].checkoutRevision
    /\ \A c \in Checkouts : heads[c] \notin SelectedExact(o)
ExactFresh(o) == \A n \in SelectedExact(o) : refs[n] \in {token[o].exact[n], AfterFetch(o)[n]}

FetchFresh(o) == NamespaceFresh(o) /\ ShallowFresh(o) /\ BranchesFresh(o) /\ ExactFresh(o)

PublishFetch(o) ==
  /\ pc[o] = "publish" /\ Release(o) /\ FetchFresh(o) /\ RevisionsBounded
  /\ refs' = AfterFetch(o)
  /\ namespaces' = BumpedNamespaces(namespaces, Changed(refs'))
  /\ trackingRevisions' = BumpedRows(trackingRevisions, Changed(refs'))
  /\ shallow' = (shallow \ (token[o].shallow \ plan[o].boundary))
                  \cup (plan[o].boundary \ token[o].shallow)
  /\ shallowRevision' = IF TouchesShallow(o) THEN shallowRevision + 1 ELSE shallowRevision
  /\ Disturb(o, Changed(refs') \cup (IF TouchesShallow(o) THEN {Boundary} ELSE {}))
  /\ UNCHANGED <<checkoutVars, issued, remote>>

-----------------------------------------------------------------------------
(* Push.                                                                        *)

Active(o) == {d \in DOMAIN request[o].targets : request[o].targets[d] # adv[o].refs[d]}
(* Variant: the lease is not compared with the advertisement.                   *)
LeasesUnchecked(o) == TRUE

LeasesHold(o) == \A d \in request[o].leased : adv[o].refs[d] = plan[o].lease[d]

(* collectCommitGraphs: one graph for all the commits that are pushed.          *)
PushedCommits(o) ==
  UNION {Ancestors[request[o].targets[d]] : d \in {e \in Active(o) : request[o].targets[e] # None}}

NamespaceRules(o) ==
  \A d \in Active(o) \ request[o].forced :
     (request[o].targets[d] # None /\ adv[o].refs[d] # None) => adv[o].refs[d] \in PushedCommits(o)

AfterPush(o, confirmed) ==
  [n \in Names |-> IF n \in confirmed THEN request[o].targets[n] ELSE refs[n]]

(* The token is issued before the commands are sent.                            *)
BeginPush(o) ==
  /\ pc[o] = "advertised" /\ request[o].kind = "push"
  /\ LeasesHold(o) /\ NamespaceRules(o) /\ Active(o) # {}
  /\ Issue(o, {})
  /\ namespaces' = IssuedNamespaces(Prefix(o))
  /\ trackingRevisions' = ObservedRows(Prefix(o))
  /\ pc' = [pc EXCEPT ![o] = "sent"]
  /\ UNCHANGED <<refs, checkoutVars, shallowVars, remote, request, adv, plan, since>>

(* Nothing to send: the token is issued and used in one go.                     *)
NoopPush(o) ==
  /\ pc[o] = "advertised" /\ request[o].kind = "push"
  /\ LeasesHold(o) /\ Active(o) = {}
  /\ Len(issued) < MaxIssues /\ RevisionsBounded
  /\ refs' = AfterPush(o, DOMAIN request[o].targets)
  /\ namespaces' = BumpedNamespaces(IssuedNamespaces(Prefix(o)), Changed(refs'))
  /\ trackingRevisions' = BumpedRows(ObservedRows(Prefix(o)), Changed(refs'))
  /\ Disturb(o, Changed(refs'))
  /\ issued' = Append(issued, Prefix(o))
  /\ Release(o)
  /\ UNCHANGED <<checkoutVars, shallowVars, remote>>

(* The remote once the commands for the names in accepted are applied.          *)
AfterCommands(o, accepted) ==
  LET now == remote[Prefix(o)]
  IN [now EXCEPT !.refs = [s \in DOMAIN now.refs |-> IF s \in accepted THEN request[o].targets[s]
                                                                     ELSE now.refs[s]],
                 !.version = IF accepted = {} THEN now.version ELSE now.version + 1]

(* The server applies the commands whose old value still holds and that it      *)
(* does not reject.                                                             *)
RemoteReceives(o) ==
  /\ pc[o] = "sent" /\ pc' = [pc EXCEPT ![o] = "answered"]
  /\ remote[Prefix(o)].version < MaxVersions
  /\ \E accepted \in SUBSET {d \in Active(o) : remote[Prefix(o)].refs[d] = adv[o].refs[d]} :
       /\ remote' = [remote EXCEPT ![Prefix(o)] = AfterCommands(o, accepted)]
       /\ plan' = [plan EXCEPT ![o] =
            [confirmed |-> accepted \cup (DOMAIN request[o].targets \ Active(o))]]
  /\ UNCHANGED <<refs, checkoutVars, shallowVars, namespaces, trackingRevisions, issued, request,
                 adv, token, since>>

(* reconcileTracking with the confirmed destinations.                           *)
ReconcilePush(o) ==
  /\ pc[o] = "answered" /\ Release(o) /\ plan[o].confirmed # {} /\ NamespaceFresh(o) /\ RevisionsBounded
  /\ refs' = AfterPush(o, plan[o].confirmed)
  /\ namespaces' = BumpedNamespaces(namespaces, Changed(refs'))
  /\ trackingRevisions' = BumpedRows(trackingRevisions, Changed(refs'))
  /\ Disturb(o, Changed(refs'))
  /\ UNCHANGED <<checkoutVars, shallowVars, issued, remote>>

-----------------------------------------------------------------------------
(* Publication of one exact tracking ref.                                       *)

BeginTracking(o, r) ==
  /\ pc[o] = "idle" /\ r.kind = "track"
  /\ pc' = [pc EXCEPT ![o] = "tracking"]
  /\ request' = [request EXCEPT ![o] = r]
  /\ trackingRevisions' = [trackingRevisions EXCEPT ![r.name] = IF @ = None THEN 0 ELSE @]
  /\ token' = [token EXCEPT ![o] = [target |-> refs[r.name], refRevision |-> trackingRevisions'[r.name],
                                    generation |-> Len(issued)]]
  /\ UNCHANGED <<refs, checkoutVars, shallowVars, namespaces, issued, remote, adv, plan, since>>

TrackingFresh(o) == /\ trackingRevisions[request[o].name] = token[o].refRevision
                    /\ refs[request[o].name] = token[o].target

(* An idempotent publication still bumps the exact row and the namespaces.      *)
PublishTracking(o, v) ==
  /\ pc[o] = "tracking" /\ Release(o) /\ TrackingFresh(o) /\ RevisionsBounded
  /\ refs' = [refs EXCEPT ![request[o].name] = v]
  /\ namespaces' = BumpedNamespaces(namespaces, {request[o].name})
  /\ trackingRevisions' = BumpedRows(trackingRevisions, {request[o].name})
  /\ Disturb(o, {request[o].name})
  /\ UNCHANGED <<checkoutVars, shallowVars, issued, remote>>

-----------------------------------------------------------------------------
StepOf(requests, puts) ==
  \/ \E put \in puts : MutateRef(put[1], put[2])
  \/ \E c \in Checkouts, b \in Branches \cup {None} : MutateHead(c, b)
  \/ \E p \in Prefixes : RemoteMoves(p)
  \/ \E o \in Ops, r \in requests : Ask(o, r) \/ BeginTracking(o, r)
  \/ \E o \in Ops : \/ Advertise(o)
                    \/ BeginFetch(o) \/ BeginClobbering(o) \/ Transfer(o) \/ PublishFetch(o)
                    \/ BeginPush(o) \/ NoopPush(o) \/ RemoteReceives(o) \/ ReconcilePush(o)
  \/ \E o \in Ops, v \in Oids \cup {None} : PublishTracking(o, v)
  \/ \E o \in Ops : Abort(o)

Next == StepOf(Requests, LocalPuts)

Spec == Init /\ [][Next]_vars

-----------------------------------------------------------------------------
(* Properties.                                                                  *)

PublishesNamespace(o) == PublishFetch(o) \/ ReconcilePush(o)

(* The writes that would make a publication wrong if it did not notice them.    *)
Guarded(o) ==
  Under[Prefix(o)] \cup
  (IF pc[o] = "publish" /\ TouchesShallow(o) THEN {Boundary} ELSE {}) \cup
  (IF pc[o] = "publish" /\ SelectedExact(o) \cap Branches # {} THEN Checkouts ELSE {})

LaterIssues(o) == {issued[g] : g \in {i \in 1..Len(issued) : i > token[o].generation}}

(* A fetch or push publishes only if nobody after it was issued an overlapping  *)
(* namespace: publishFetchRefs compares only the number in its own row, which   *)
(* beginFetchPublication of the other has to have raised.                       *)
LatestIssueOnly ==
  [][\A o \in Ops : PublishesNamespace(o) =>
        \A p \in LaterIssues(o) : ~Overlaps(p, Prefix(o))]_vars

(* A fetch or push publishes only if nobody wrote to its namespace, to the      *)
(* shallow boundary it changes or to the heads it relies on since its token was *)
(* issued, not even if the old value was put back.                              *)
NoLostUpdate ==
  [][\A o \in Ops : PublishesNamespace(o) => since[o] \cap Guarded(o) = {}]_vars

Resolves(f, h) == f[h] \in TrackingNames /\ f[f[h]] # None

(* What a publication may never do, though every check of the fetch was against *)
(* a snapshot taken before the transfer: replace a tag that exists unless the   *)
(* mapping forces it; move a local branch to anything but a descendant, unless  *)
(* forced; move the branch that a checkout is on; publish another shallow       *)
(* boundary than authenticateShallowTransition saw; or make                     *)
(* refs/remotes/<remote>/HEAD dangle.                                           *)
PublicationKeepsRules ==
  [][\A o \in Ops : PublishFetch(o) =>
        /\ \A t \in Tags \ request[o].forced : refs[t] # None => refs'[t] = refs[t]
        /\ \A b \in Branches \ request[o].forced :
              refs[b] # None => refs[b] \in Ancestors[refs'[b]]
        /\ \A c \in Checkouts : heads[c] # None => refs'[heads[c]] = refs[heads[c]]
        /\ TouchesShallow(o) => shallow' = plan[o].boundary
        /\ LET h == HeadOf[Prefix(o)]
           IN (Resolves(refs, h) \/ refs'[h] # refs[h]) => refs'[h] = None \/ Resolves(refs', h)]_vars

(* A push with a lease replaces a remote ref only if its value is the one the   *)
(* tracking ref had when the push began: the lease is compared with the         *)
(* advertisement, the server compares with what the advertisement said.         *)
LeaseHonoured ==
  [][\A o \in Ops : RemoteReceives(o) =>
        \A d \in request[o].leased :
           LET p == Prefix(o)
           IN remote'[p].refs[d] # remote[p].refs[d] => remote[p].refs[d] = plan[o].lease[d]]_vars

(* push-plan-graph.ts refuses an update whose remote value "is not an ancestor  *)
(* of its local source" unless it is forced.                                    *)
PushFastForwards ==
  [][\A o \in Ops : RemoteReceives(o) =>
        \A d \in Active(o) \ request[o].forced :
           LET p == Prefix(o)
           IN (remote'[p].refs[d] \notin {None, remote[p].refs[d]} /\ remote[p].refs[d] # None)
                => remote[p].refs[d] \in Ancestors[request[o].targets[d]]]_vars
=============================================================================
