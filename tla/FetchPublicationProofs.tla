------------------------ MODULE FetchPublicationProofs ------------------------
(* What follows from the fences and the rules for every publication, for any    *)
(* number of calls, remotes, nested namespaces and generations.                 *)
EXTENDS FetchFenceProofs

\* A step that names no prover is tried with each of these in turn.
USE SMT, ZenonT(60), SMTT(60)

(* A step of one call that writes none of the tables but its own fences.        *)
CallStep(o) ==
  /\ pc' = [pc EXCEPT ![o] = pc'[o]] /\ request' = [request EXCEPT ![o] = request'[o]]
  /\ adv' = [adv EXCEPT ![o] = adv'[o]] /\ token' = [token EXCEPT ![o] = token'[o]]
  /\ plan' = [plan EXCEPT ![o] = plan'[o]]
  /\ UNCHANGED <<refs, heads, shallow, shallowRevision, since>>

(* Such a step keeps RuleInv if the call itself ends up within its rules.       *)
LEMMA CallStepKeepsRules ==
  ASSUME FenceInv, RuleInv, NEW o \in Ops, CallStep(o), CallRules(o)',
         trackingRevisions' \in [TrackingNames -> Nat \cup {None}],
         remote' = [p \in Prefixes |-> remote'[p]], \A p \in Prefixes : remote'[p] \in RemoteTable(p)
  PROVE  RuleInv'
<1>1. /\ adv = [x \in Ops |-> adv[x]] /\ plan = [x \in Ops |-> plan[x]] /\ pc = [x \in Ops |-> pc[x]]
      /\ request = [x \in Ops |-> request[x]] /\ token = [x \in Ops |-> token[x]]
  BY DEF FenceInv, FenceTypes, RuleInv, RuleTypes
<1>2. /\ UNCHANGED <<refs, heads, shallow, shallowRevision, since>>
      /\ adv' = [x \in Ops |-> adv'[x]] /\ plan' = [x \in Ops |-> plan'[x]]
  BY <1>1 DEF CallStep
<1>3. RuleTypes'
  BY <1>2, ZenonT(60) DEF RuleInv, RuleTypes, RefTable, RemoteTable
<1>4. SparesRules(o)
  BY <1>1 DEF SparesRules, CallStep
<1> QED BY <1>3, <1>4, RulesStep

(* Rows and remotes that a step leaves alone keep their types.                  *)
LEMMA Unmoved ==
  ASSUME RuleInv
  PROVE  /\ trackingRevisions' = trackingRevisions =>
              trackingRevisions' \in [TrackingNames -> Nat \cup {None}]
         /\ remote' = remote => /\ remote' = [p \in Prefixes |-> remote'[p]]
                                /\ \A p \in Prefixes : remote'[p] \in RemoteTable(p)
BY DEF RuleInv, RuleTypes

(* The snapshot of a fetch: no tag is about to be clobbered, and the boundary   *)
(* is the one of the revision that is retained.                                 *)
LEMMA SnapshotSound ==
  ASSUME FenceInv, RuleInv, NEW o \in Ops, BeginFetch(o)
  PROVE  /\ token'[o].shallow \subseteq Oids /\ token'[o].shallow = shallow
         /\ \A t \in (Updates(o) \cap Tags) \ request[o].forced :
              token'[o].exact[t] \in {None, Target(o, t)}
<1>1. token'[o] = Snapshot(Prefix(o), (Updates(o) \ Under[Prefix(o)]) \cup Followable(o))
  BY DEF BeginFetch, Issue, FenceInv, FenceTypes
<1>2. /\ token'[o].shallow = shallow
      /\ \A n \in Updates(o) \ Under[Prefix(o)] : token'[o].exact[n] = refs[n]
  BY <1>1 DEF Snapshot
<1>3. pc[o] = "advertised" /\ ~ClobbersTag(o)
  BY DEF BeginFetch
<1>4. Prefix(o) \in Prefixes
  BY <1>3, CallIsKnown
<1>5. \A t \in Updates(o) \cap Tags : t \in Updates(o) \ Under[Prefix(o)]
  BY <1>4, NamesAssumption DEF TrackingNames
<1>6. shallow \subseteq Oids
  BY DEF RuleInv, RuleTypes
<1> QED BY <1>2, <1>3, <1>5, <1>6 DEF ClobbersTag

(* Issuing the token of a fetch or push keeps RuleInv.                          *)
LEMMA IssueKeepsRules ==
  ASSUME FenceInv, RuleInv, NEW o \in Ops, BeginFetch(o) \/ BeginPush(o)
  PROVE  RuleInv'
<1>1. pc \in [Ops -> PCs] /\ request = [x \in Ops |-> request[x]] /\ token = [x \in Ops |-> token[x]]
      /\ plan = [x \in Ops |-> plan[x]] /\ adv = [x \in Ops |-> adv[x]]
  BY DEF FenceInv, FenceTypes, RuleInv, RuleTypes
<1>2. /\ pc[o] = "advertised" /\ CallStep(o) /\ trackingRevisions' = ObservedRows(Prefix(o))
      /\ UNCHANGED <<shallow, shallowRevision, remote, request, adv, plan>>
  BY <1>1 DEF BeginFetch, BeginPush, Issue, CallStep, checkoutVars, shallowVars
<1>3. trackingRevisions' \in [TrackingNames -> Nat \cup {None}]
  BY <1>2, ObservedTyped, ZenonT(60)
<1>4. Advertised(o)'
  <2>1. Advertised(o)
    BY DEF RuleInv, CallRules
  <2> QED BY <1>2, <2>1 DEF Advertised, Prefix
<1>5. Updates(o)' = Updates(o) /\ \A d : Target(o, d)' = Target(o, d)
  BY <1>2 DEF Updates, Target
<1>6. FetchRules(o)' /\ PlanRules(o)' /\ PushRules(o)'
  <2>1. CASE BeginFetch(o)
    <3>1. pc'[o] = "transfer" /\ request[o].kind = "fetch"
      BY <1>1, <2>1, ZenonT(60) DEF BeginFetch
    <3>2. FetchRules(o)'
      BY <1>2, <1>5, <2>1, <3>1, SnapshotSound, ZenonT(60) DEF FetchRules
    <3> QED BY <3>1, <3>2 DEF PlanRules, PushRules
  <2>2. CASE BeginPush(o)
    <3>1. pc'[o] = "sent" /\ request[o].kind = "push" /\ LeasesHold(o)
      BY <1>1, <2>2 DEF BeginPush
    <3> QED BY <1>2, <3>1 DEF FetchRules, PlanRules, PushRules, LeasesHold
  <2> QED BY <2>1, <2>2
<1>7. CallRules(o)'
  BY <1>4, <1>6 DEF CallRules
<1> QED BY <1>2, <1>3, <1>7, Unmoved, CallStepKeepsRules, ZenonT(60)

(* The transfer settles the plan.                                               *)
LEMMA TransferKeepsRules ==
  ASSUME FenceInv, RuleInv, NEW o \in Ops, Transfer(o)
  PROVE  RuleInv'
<1>1. pc \in [Ops -> PCs] /\ request = [x \in Ops |-> request[x]] /\ token = [x \in Ops |-> token[x]]
      /\ plan = [x \in Ops |-> plan[x]] /\ adv = [x \in Ops |-> adv[x]]
  BY DEF FenceInv, FenceTypes, RuleInv, RuleTypes
<1>2. /\ plan'[o].boundary \subseteq Oids
      /\ plan'[o].followed \subseteq {t \in Followable(o) : token[o].exact[t] = None}
  BY <1>1 DEF Transfer
<1>3. /\ pc[o] = "transfer" /\ pc'[o] = "publish" /\ FastForwards(o) /\ CallStep(o)
      /\ UNCHANGED <<trackingRevisions, shallow, shallowRevision, remote, request, adv, token>>
  BY <1>1, ZenonT(60) DEF Transfer, CallStep, checkoutVars, shallowVars
<1>4. /\ Updates(o)' = Updates(o) /\ Followable(o)' = Followable(o) /\ Prefix(o)' = Prefix(o)
      /\ \A d : Target(o, d)' = Target(o, d)
  BY <1>3 DEF Updates, Followable, Prefix, Target
<1>5. CallRules(o)
  BY ZenonT(60) DEF RuleInv
<1>6. Advertised(o)' /\ FetchRules(o)'
  BY <1>3, <1>4, <1>5, ZenonT(60) DEF CallRules, Advertised, FetchRules
<1>7. FastForwards(o)'
  BY <1>3, <1>4, ZenonT(60) DEF FastForwards
<1>8. CallRules(o)'
  BY <1>2, <1>3, <1>4, <1>6, <1>7 DEF CallRules, PlanRules, PushRules
<1> QED BY <1>3, <1>8, Unmoved, CallStepKeepsRules, ZenonT(60)

(* Discovery, the snapshot of one tracking ref, and the end of a call.          *)
LEMMA AskKeepsRules ==
  ASSUME FenceInv, RuleInv, NEW o \in Ops, NEW r \in Requests, Ask(o, r) \/ BeginTracking(o, r)
  PROVE  RuleInv'
<1>1. pc \in [Ops -> PCs] /\ request = [x \in Ops |-> request[x]] /\ token = [x \in Ops |-> token[x]]
      /\ plan = [x \in Ops |-> plan[x]] /\ adv = [x \in Ops |-> adv[x]]
      /\ trackingRevisions \in [TrackingNames -> Nat \cup {None}]
  BY DEF FenceInv, FenceTypes, RuleInv, RuleTypes
<1>2. pc'[o] \in {"asked", "tracking"} /\ CallStep(o) /\ remote' = remote
  BY <1>1 DEF Ask, BeginTracking, CallStep, checkoutVars, shallowVars
<1>3. trackingRevisions' \in [TrackingNames -> Nat \cup {None}]
  BY <1>1 DEF Ask, BeginTracking
<1>4. CallRules(o)'
  BY <1>2 DEF CallRules, Advertised, FetchRules, PlanRules, PushRules
<1> QED BY <1>2, <1>3, <1>4, Unmoved, CallStepKeepsRules, ZenonT(60)

(* The advertisement of the remote's refs keeps RuleInv.                        *)
LEMMA AdvertiseKeepsRules ==
  ASSUME FenceInv, RuleInv, NEW o \in Ops, Advertise(o)
  PROVE  RuleInv'
<1>1. pc \in [Ops -> PCs] /\ request = [x \in Ops |-> request[x]] /\ token = [x \in Ops |-> token[x]]
      /\ plan = [x \in Ops |-> plan[x]] /\ adv = [x \in Ops |-> adv[x]]
  BY DEF FenceInv, FenceTypes, RuleInv, RuleTypes
<1>2. /\ pc[o] = "asked" /\ pc'[o] = "advertised" /\ CallStep(o)
      /\ UNCHANGED <<remote, trackingRevisions, request>>
      /\ adv'[o] = [refs |-> remote[Prefix(o)].refs, head |-> remote[Prefix(o)].head]
  BY <1>1, ZenonT(60) DEF Advertise, CallStep, checkoutVars, shallowVars
<1>3. Prefix(o) \in Prefixes /\ Prefix(o)' = Prefix(o)
  BY <1>2, CallIsKnown DEF Prefix
<1>4. /\ remote[Prefix(o)].refs \in [Advertisable -> Oids \cup {None}]
      /\ remote[Prefix(o)].head \in Under[Prefix(o)] \cup {None}
  BY <1>3, ZenonT(60) DEF RuleInv, RuleTypes, RemoteTable
<1>5. Advertised(o)'
  BY <1>2, <1>3, <1>4 DEF Advertised
<1>6. CallRules(o)'
  BY <1>2, <1>5 DEF CallRules, FetchRules, PlanRules, PushRules
<1> QED BY <1>2, <1>6, Unmoved, CallStepKeepsRules

(* Whoever publishes a namespace passed its fence.                              *)
LEMMA PublisherIsFresh ==
  ASSUME FenceInv, NEW o \in Ops, PublishesNamespace(o)
  PROVE  /\ HoldsNamespace(o) /\ NamespaceFresh(o) /\ TokenSound(o)
         /\ Prefix(o) \in Prefixes
         /\ pc[o] = "publish" => ShallowFresh(o) /\ BranchesFresh(o)
<1>1. CASE PublishFetch(o)
  <2>1. pc[o] = "publish" /\ NamespaceFresh(o) /\ ShallowFresh(o) /\ BranchesFresh(o)
    BY <1>1 DEF PublishFetch, FetchFresh
  <2> QED BY <2>1, CallHasPrefix, ZenonT(60) DEF FenceInv, HoldsNamespace
<1>2. CASE ReconcilePush(o)
  <2>1. pc[o] = "answered" /\ NamespaceFresh(o)
    BY <1>2 DEF ReconcilePush
  <2> QED BY <2>1, CallHasPrefix DEF FenceInv, HoldsNamespace
<1> QED BY <1>1, <1>2 DEF PublishesNamespace

(* Nobody has begun on an overlapping namespace since a publisher's token       *)
(* was issued.                                                                  *)
LEMMA NoLaterOverlap ==
  ASSUME FenceInv, NEW o \in Ops, PublishesNamespace(o), NEW p \in LaterIssues(o)
  PROVE  ~Overlaps(p, Prefix(o))
<1> SUFFICES ASSUME Overlaps(p, Prefix(o)) PROVE FALSE OBVIOUS
<1>1. Prefix(o) \in Prefixes /\ HoldsNamespace(o) /\ NamespaceFresh(o) /\ TokenSound(o)
  BY PublisherIsFresh, ZenonT(60)
<1>2. token[o].generation \in Nat \ {0} /\ namespaces[Prefix(o)].latest = token[o].generation
  BY <1>1 DEF TokenSound, NamespaceFresh
<1>3. PICK g \in 1..Len(issued) : g > token[o].generation /\ p = issued[g]
  BY ZenonT(60) DEF LaterIssues
<1>4. g <= namespaces[Prefix(o)].latest BY <1>1, <1>2, <1>3 DEF FenceInv, RowsCurrent
<1>5. Len(issued) \in Nat BY DEF FenceInv, FenceTypes
<1> QED BY <1>2, <1>3, <1>4, <1>5

(* Nothing a publisher guards was written since its token was issued.           *)
LEMMA NothingGuardedWritten ==
  ASSUME FenceInv, NEW o \in Ops, PublishesNamespace(o)
  PROVE  since[o] \cap Guarded(o) = {}
<1>1. /\ HoldsNamespace(o) /\ NamespaceFresh(o) /\ TokenSound(o)
      /\ pc[o] = "publish" => ShallowFresh(o) /\ BranchesFresh(o)
  BY PublisherIsFresh, ZenonT(60)
<1>2. since[o] \cap Under[Prefix(o)] = {} BY <1>1 DEF TokenSound, NamespaceFresh
<1>3. ASSUME pc[o] = "publish", TouchesShallow(o) PROVE Boundary \notin since[o]
  BY <1>1, <1>3 DEF TokenSound, ShallowFresh
<1>4. ASSUME pc[o] = "publish", SelectedExact(o) \cap Branches # {}
      PROVE  since[o] \cap Checkouts = {}
  BY <1>1, <1>4 DEF TokenSound, BranchesFresh
<1> QED BY <1>2, <1>3, <1>4 DEF Guarded

(* The rules for tags and branches, from what the snapshot said of them.        *)
LEMMA PublishedRefsObeyRules ==
  ASSUME FenceInv, RuleInv, NEW o \in Ops, PublishFetch(o)
  PROVE  /\ \A t \in Tags \ request[o].forced : refs[t] # None => refs'[t] = refs[t]
         /\ \A b \in Branches \ request[o].forced : refs[b] # None => refs[b] \in Ancestors[refs'[b]]
         /\ \A c \in Checkouts : heads[c] # None => refs'[heads[c]] = refs[heads[c]]
<1>1. pc[o] = "publish" /\ refs' = AfterFetch(o) /\ BranchesFresh(o) /\ ExactFresh(o)
  BY DEF PublishFetch, FetchFresh
<1>2. FetchRules(o) /\ PlanRules(o)
  BY DEF RuleInv, CallRules
<1>3. /\ request[o].kind = "fetch" /\ FastForwards(o)
      /\ plan[o].followed \subseteq {t \in Followable(o) : token[o].exact[t] = None}
  BY <1>1, <1>2, ZenonT(60) DEF FetchRules, PlanRules
<1>4. Prefix(o) \in Prefixes /\ \A d \in Updates(o) : Target(o, d) \in Oids
  BY <1>1, <1>3, FetchShape, ZenonT(60)
<1>5. \A n \in Branches \cup Tags : n \notin Under[Prefix(o)]
  BY <1>4, NamesAssumption DEF TrackingNames
<1>6. /\ \A n \in Updates(o) : refs'[n] = Target(o, n)
      /\ \A n \in plan[o].followed : n \in Tags /\ refs'[n] = adv[o].refs[n]
      /\ \A n \in Branches \cup Tags : n \notin Updates(o) \cup plan[o].followed => refs'[n] = refs[n]
  BY <1>1, PublishedRows
<1>7. \A n \in (Updates(o) \cup plan[o].followed) \ Under[Prefix(o)] :
        refs[n] = token[o].exact[n] \/ refs[n] = refs'[n]
  BY <1>1, ZenonT(60) DEF ExactFresh, SelectedExact
<1>8. ASSUME NEW t \in Tags \ request[o].forced, refs[t] # None PROVE refs'[t] = refs[t]
  <2>1. CASE t \in Updates(o)
    <3>1. token[o].exact[t] \in {None, Target(o, t)}
      BY <1>1, <1>2, <1>8, <2>1, ZenonT(60) DEF FetchRules
    <3> QED BY <1>5, <1>6, <1>7, <1>8, <2>1, <3>1, ZenonT(60)
  <2>2. CASE t \in plan[o].followed
    BY <1>3, <1>5, <1>7, <1>8, <2>2
  <2> QED BY <1>6, <1>8, <2>1, <2>2
<1>9. ASSUME NEW b \in Branches \ request[o].forced, refs[b] # None
      PROVE  refs[b] \in Ancestors[refs'[b]]
  <2>1. b \notin plan[o].followed
    BY <1>6, NamesAssumption
  <2>2. refs[b] \in Oids
    BY <1>9, ZenonT(60) DEF RuleInv, RuleTypes, RefTable
  <2>3. CASE b \in Updates(o) /\ refs[b] = token[o].exact[b]
    BY <1>3, <1>6, <1>9, <2>3, ZenonT(60) DEF FastForwards
  <2>4. CASE refs'[b] = refs[b]
    BY <2>2, <2>4, AncestorsAssumption, ZenonT(60)
  <2> QED BY <1>5, <1>6, <1>7, <1>9, <2>1, <2>3, <2>4, ZenonT(60)
<1>10. ASSUME NEW c \in Checkouts, heads[c] # None PROVE refs'[heads[c]] = refs[heads[c]]
  <2>1. heads[c] \in Branches
    BY <1>10, ZenonT(60) DEF RuleInv, RuleTypes
  <2>2. heads[c] \notin plan[o].followed
    BY <1>6, <2>1, NamesAssumption, ZenonT(60)
  <2>3. heads[c] \notin Updates(o)
    BY <1>1, <1>5, <2>1, ZenonT(60) DEF BranchesFresh, SelectedExact
  <2> QED BY <1>6, <2>1, <2>2, <2>3, ZenonT(60)
<1> QED BY <1>8, <1>9, <1>10

(* refs/remotes/<remote>/HEAD never comes to dangle by a publication.           *)
LEMMA PublishedHeadResolves ==
  ASSUME FenceInv, RuleInv, NEW o \in Ops, PublishFetch(o),
         Resolves(refs, HeadOf[Prefix(o)]) \/ refs'[HeadOf[Prefix(o)]] # refs[HeadOf[Prefix(o)]],
         refs'[HeadOf[Prefix(o)]] # None
  PROVE  Resolves(refs', HeadOf[Prefix(o)])
<1> DEFINE h == HeadOf[Prefix(o)]
<1>1. pc[o] = "publish" /\ refs' = AfterFetch(o) /\ NamespaceFresh(o)
  BY ZenonT(60) DEF PublishFetch, FetchFresh
<1>2. request[o].kind = "fetch"
  BY <1>1, ZenonT(60) DEF RuleInv, CallRules, FetchRules
<1>3. /\ Prefix(o) \in Prefixes /\ \A d \in Updates(o) : Target(o, d) \in Oids
      /\ adv[o].head \in Under[Prefix(o)] \cup {None} /\ (request[o].prune => request[o].head)
  BY <1>1, <1>2, FetchShape, ZenonT(60)
<1>4. h \in Under[Prefix(o)] /\ Under[Prefix(o)] \subseteq TrackingNames /\ None \notin TrackingNames
      /\ None \notin Oids
  BY <1>3, PrefixAssumption, NamesAssumption, ZenonT(60) DEF TrackingNames, Names
<1>5. /\ \A n \in Updates(o) : refs'[n] = Target(o, n)
      /\ refs'[h] = RemoteHead(o)
      /\ \A n \in TrackingNames \ (Updates(o) \cup {h}) :
           refs'[n] = IF n \in Pruned(o) THEN None ELSE refs[n]
  BY <1>1, PublishedRows
<1>6. refs'[h] # None
  BY ZenonT(60)
<1> HIDE DEF h
<1>7. ASSUME NEW t \in TrackingNames, refs[t] # None, t \notin Pruned(o) PROVE refs'[t] # None
  BY <1>3, <1>4, <1>5, <1>6, <1>7
<1>8. CASE request[o].head /\ HeadSettled(o)
  <2>1. refs'[h] = adv[o].head /\ adv[o].head \in Under[Prefix(o)]
    BY <1>3, <1>5, <1>8, ZenonT(60) DEF RemoteHead, HeadSettled
  <2>2. refs'[adv[o].head] # None
    <3>1. CASE adv[o].head \in Updates(o)
      BY <1>3, <1>4, <1>5, <3>1
    <3>2. CASE (request[o].prune => adv[o].head \in TrackingKeep(o)) /\ token[o].tracking[adv[o].head] # None
      <4>1. refs[adv[o].head] # None
        BY <1>1, <2>1, <3>2, ZenonT(60) DEF NamespaceFresh
      <4>2. adv[o].head \notin Pruned(o)
        BY <3>2, ZenonT(60) DEF Pruned
      <4> QED BY <1>4, <1>7, <2>1, <4>1, <4>2, ZenonT(60)
    <3> QED BY <1>8, <3>1, <3>2, ZenonT(60) DEF HeadSettled
  <2> QED BY <1>4, <2>1, <2>2, ZenonT(60) DEF Resolves, h
<1>9. CASE ~(request[o].head /\ HeadSettled(o))
  <2>1. refs'[h] = refs[h] /\ Pruned(o) = {}
    BY <1>3, <1>5, <1>6, <1>9, ZenonT(60) DEF RemoteHead, Pruned, h
  <2>2. refs[h] \in TrackingNames /\ refs[refs[h]] # None
    BY <2>1 DEF Resolves, h
  <2>3. refs'[refs[h]] # None
    BY <1>7, <2>1, <2>2
  <2> QED BY <2>1, <2>2, <2>3, ZenonT(60) DEF Resolves, h
<1> QED BY <1>8, <1>9, ZenonT(60)

(* The reconciliation of a push, and a push without commands, keep RuleInv.     *)
LEMMA PushKeepsRules ==
  ASSUME FenceInv, RuleInv, NEW o \in Ops, ReconcilePush(o) \/ NoopPush(o)
  PROVE  RuleInv'
<1>1. PICK confirmed \in SUBSET DOMAIN request[o].targets :
        refs' = AfterPush(o, confirmed) /\ pc[o] # "idle" /\ request[o].kind = "push"
  <2>1. CASE ReconcilePush(o)
    <3>1. plan[o].confirmed \subseteq DOMAIN request[o].targets /\ request[o].kind = "push"
      BY <2>1, ZenonT(60) DEF ReconcilePush, RuleInv, CallRules, PushRules
    <3> QED BY <2>1, <3>1, ZenonT(60) DEF ReconcilePush
  <2>2. CASE NoopPush(o)
    BY <2>2, ZenonT(60) DEF NoopPush
  <2> QED BY <2>1, <2>2
<1>2. refs' \in RefTable
  BY <1>1, PushedTyped, ZenonT(60)
<1>3. /\ Release(o) /\ Disturb(o, Changed(refs'))
      /\ heads' = heads /\ remote' = remote /\ UNCHANGED <<shallow, shallowRevision>>
      /\ \/ trackingRevisions' = BumpedRows(trackingRevisions, Changed(refs'))
         \/ trackingRevisions' = BumpedRows(ObservedRows(Prefix(o)), Changed(refs'))
  BY ZenonT(60) DEF ReconcilePush, NoopPush, checkoutVars, shallowVars
<1>4. trackingRevisions' \in [TrackingNames -> Nat \cup {None}]
  BY <1>3, RowsTyped, ObservedTyped DEF RuleInv, RuleTypes
<1>5. Changed(refs') \in SUBSET (Names \cup Checkouts \cup {Boundary})
  BY NamesChanged
<1>6. shallow' \subseteq Oids
  BY <1>3 DEF RuleInv, RuleTypes
<1> QED BY <1>2, <1>3, <1>4, <1>5, <1>6, WritesKeepRules, ZenonT(60)

(* The publication of one tracking ref keeps RuleInv.                           *)
LEMMA PublishTrackingKeepsRules ==
  ASSUME FenceInv, RuleInv, NEW o \in Ops, NEW v \in Oids \cup {None}, PublishTracking(o, v)
  PROVE  RuleInv'
<1>1. /\ pc[o] = "tracking" /\ Release(o) /\ refs' = [refs EXCEPT ![request[o].name] = v]
      /\ trackingRevisions' = BumpedRows(trackingRevisions, {request[o].name})
      /\ Disturb(o, {request[o].name})
      /\ heads' = heads /\ remote' = remote /\ UNCHANGED <<shallow, shallowRevision>>
  BY ZenonT(60) DEF PublishTracking, checkoutVars, shallowVars
<1>2. request[o] \in Requests /\ request[o].kind = "track"
  BY <1>1, ZenonT(60) DEF FenceInv, FenceTypes, CallShape
<1>3. request[o].name \in TrackingNames
  BY <1>2, RequestsAssumption DEF TrackingNames
<1>4. refs' \in RefTable
  <2>1. /\ refs \in [Names -> Oids \cup TrackingNames \cup {None}] /\ request[o].name \in Names
        /\ \A n \in Branches \cup Tags : refs[n] \in Oids \cup {None}
    BY <1>3, ZenonT(60) DEF RuleInv, RuleTypes, RefTable, Names
  <2>2. refs' \in [Names -> Oids \cup TrackingNames \cup {None}]
    BY <1>1, <2>1, ZenonT(60)
  <2>3. \A n \in Branches \cup Tags : refs'[n] \in Oids \cup {None}
    BY <1>1, <2>1, ZenonT(60) DEF Names
  <2> QED BY <2>2, <2>3 DEF RefTable
<1>5. trackingRevisions' \in [TrackingNames -> Nat \cup {None}]
  BY <1>1, RowsTyped DEF RuleInv, RuleTypes
<1>6. {request[o].name} \in SUBSET (Names \cup Checkouts \cup {Boundary})
  BY <1>3, ZenonT(60) DEF Names
<1>7. shallow' \subseteq Oids
  BY <1>1 DEF RuleInv, RuleTypes
<1> QED BY <1>1, <1>4, <1>5, <1>6, <1>7, WritesKeepRules, ZenonT(60)

(* Other local calls, and other clients of the remotes.                         *)
LEMMA LocalKeepsRules ==
  ASSUME FenceInv, RuleInv
  PROVE  /\ \A put \in LocalPuts : MutateRef(put[1], put[2]) => RuleInv'
         /\ \A c \in Checkouts, b \in Branches \cup {None} : MutateHead(c, b) => RuleInv'
         /\ \A p \in Prefixes : RemoteMoves(p) => RuleInv'
<1>0. None \notin Ops
  BY NamesAssumption
<1>1. ASSUME NEW put \in LocalPuts, MutateRef(put[1], put[2]) PROVE RuleInv'
  <2>1. put[1] \in Names /\ put[2] \in Oids \cup {None}
    BY LocalPutsAssumption
  <2>2. /\ refs' = [refs EXCEPT ![put[1]] = put[2]]
        /\ trackingRevisions' = BumpedRows(trackingRevisions, {put[1]}) /\ Disturb(None, {put[1]})
        /\ UNCHANGED <<heads, shallow, shallowRevision, remote, pc, request, adv, token, plan>>
    BY <1>1 DEF MutateRef, checkoutVars, shallowVars, callVars
  <2>3. refs' \in RefTable
    <3>1. /\ refs \in [Names -> Oids \cup TrackingNames \cup {None}]
          /\ \A n \in Branches \cup Tags : refs[n] \in Oids \cup {None}
      BY DEF RuleInv, RuleTypes, RefTable
    <3>2. refs' \in [Names -> Oids \cup TrackingNames \cup {None}]
      BY <2>1, <2>2, <3>1
    <3>3. \A n \in Branches \cup Tags : refs'[n] \in Oids \cup {None}
      BY <2>1, <2>2, <3>1, ZenonT(60) DEF Names
    <3> QED BY <3>2, <3>3, ZenonT(60) DEF RefTable
  <2>4. trackingRevisions' \in [TrackingNames -> Nat \cup {None}]
    BY <2>2, RowsTyped, ZenonT(60) DEF RuleInv, RuleTypes
  <2>5. since' \in [Ops -> SUBSET (Names \cup Checkouts \cup {Boundary})]
    BY <2>1, <2>2, DisturbTyped, ZenonT(60)
  <2>6. RuleTypes'
    BY <2>2, <2>3, <2>4, <2>5, ZenonT(60) DEF RuleInv, RuleTypes, RefTable, RemoteTable
  <2>7. SparesRules(None)
    BY <2>2, ZenonT(60) DEF SparesRules
  <2> QED BY <1>0, <2>6, <2>7, RulesStep
<1>2. ASSUME NEW c \in Checkouts, NEW b \in Branches \cup {None}, MutateHead(c, b) PROVE RuleInv'
  <2>1. /\ heads' = [heads EXCEPT ![c] = b] /\ Disturb(None, {c})
        /\ UNCHANGED <<refs, trackingRevisions, shallow, shallowRevision, remote, pc, request, adv,
                       token, plan>>
    BY <1>2 DEF MutateHead, shallowVars, callVars
  <2>2. since' \in [Ops -> SUBSET (Names \cup Checkouts \cup {Boundary})]
    BY <2>1, DisturbTyped
  <2>3. heads' \in [Checkouts -> Branches \cup {None}]
    BY <2>1, ZenonT(60) DEF RuleInv, RuleTypes
  <2>4. RuleTypes'
    BY <2>1, <2>2, <2>3, ZenonT(60) DEF RuleInv, RuleTypes, RefTable, RemoteTable
  <2>5. SparesRules(None)
    BY <2>1 DEF SparesRules
  <2> QED BY <1>0, <2>4, <2>5, RulesStep
<1>3. ASSUME NEW p \in Prefixes, RemoteMoves(p) PROVE RuleInv'
  <2>1. /\ UNCHANGED <<refs, heads, trackingRevisions, shallow, shallowRevision, pc, request, adv,
                       token, plan, since>>
    BY <1>3 DEF RemoteMoves, checkoutVars, shallowVars, callVars
  <2>2. PICK r \in RemoteStates[p] :
          remote' = [remote EXCEPT ![p] = [r EXCEPT !.version = remote[p].version + 1]]
    BY <1>3, ZenonT(60) DEF RemoteMoves
  <2>3. r \in RemoteTable(p)
    BY RemoteAssumption DEF RemoteTable
  <2>4. remote = [q \in Prefixes |-> remote[q]] /\ \A q \in Prefixes : remote[q] \in RemoteTable(q)
    BY DEF RuleInv, RuleTypes
  <2>5. remote[p].version \in Nat
    BY <2>4 DEF RemoteTable
  <2>6. [r EXCEPT !.version = remote[p].version + 1] \in RemoteTable(p)
    BY <2>3, <2>5 DEF RemoteTable
  <2>7. /\ remote' = [q \in Prefixes |-> remote'[q]]
        /\ \A q \in Prefixes : remote'[q] \in RemoteTable(q)
    BY <2>2, <2>4, <2>6, ZenonT(60)
  <2>8. RuleTypes'
    BY <2>1, <2>7, ZenonT(60) DEF RuleInv, RuleTypes, RefTable, RemoteTable
  <2>9. SparesRules(None)
    BY <2>1 DEF SparesRules
  <2> QED BY <1>0, <2>8, <2>9, RulesStep
<1> QED BY <1>1, <1>2, <1>3

(* A call that gives up keeps RuleInv.                                          *)
LEMMA AbortKeepsRules ==
  ASSUME FenceInv, RuleInv, NEW o \in Ops, Abort(o)
  PROVE  RuleInv'
<1>1. /\ Release(o) /\ since' = [since EXCEPT ![o] = {}]
      /\ UNCHANGED <<refs, heads, trackingRevisions, shallow, shallowRevision, remote>>
  BY DEF Abort, checkoutVars, shallowVars
<1>2. since' \in [Ops -> SUBSET (Names \cup Checkouts \cup {Boundary})]
  BY <1>1 DEF RuleInv, RuleTypes
<1>3. RuleTypes'
  BY <1>1, <1>2, ReleaseKeepsRules, ZenonT(60) DEF RuleInv, RuleTypes, RefTable, RemoteTable
<1>4. SparesRules(o)
  BY <1>1, ReleaseKeepsRules DEF SparesRules
<1> QED BY <1>1, <1>3, <1>4, ReleaseKeepsRules, RulesStep

(* A fetch that is refused because it would clobber a tag keeps RuleInv.        *)
LEMMA ClobberingKeepsRules ==
  ASSUME FenceInv, RuleInv, NEW o \in Ops, BeginClobbering(o)
  PROVE  RuleInv'
<1>1. /\ Release(o) /\ trackingRevisions' = ObservedRows(Prefix(o))
      /\ UNCHANGED <<refs, heads, shallow, shallowRevision, remote, since>>
  BY DEF BeginClobbering, checkoutVars, shallowVars
<1>2. trackingRevisions' \in [TrackingNames -> Nat \cup {None}]
  BY <1>1, ObservedTyped
<1>3. RuleTypes'
  BY <1>1, <1>2, ReleaseKeepsRules, ZenonT(60) DEF RuleInv, RuleTypes, RefTable, RemoteTable
<1>4. SparesRules(o)
  BY <1>1, ReleaseKeepsRules, ZenonT(60) DEF SparesRules
<1> QED BY <1>1, <1>3, <1>4, ReleaseKeepsRules, RulesStep, ZenonT(60)

(* The commands of a push give objects to names that the remote advertises.     *)
LEMMA CommandsTyped ==
  ASSUME FenceInv, RuleInv, NEW o \in Ops, pc[o] = "sent", NEW accepted \in SUBSET Active(o)
  PROVE  /\ Prefix(o) \in Prefixes /\ request[o].kind = "push"
         /\ accepted \subseteq DOMAIN request[o].targets
         /\ AfterCommands(o, accepted) \in RemoteTable(Prefix(o))
<1> DEFINE now == remote[Prefix(o)]
           after == [s \in DOMAIN now.refs |-> IF s \in accepted THEN request[o].targets[s]
                                                                ELSE now.refs[s]]
           version == IF accepted = {} THEN now.version ELSE now.version + 1
<1>1. request[o] \in Requests /\ Prefix(o) \in Prefixes /\ request[o].kind = "push"
  BY CallHasPrefix, ZenonT(60) DEF RuleInv, CallRules, PushRules
<1>2. \A d \in accepted : d \in DOMAIN request[o].targets /\ request[o].targets[d] \in Oids \cup {None}
  BY <1>1, RequestsAssumption, ZenonT(60) DEF Active
<1>3. /\ now \in RemoteTable(Prefix(o))
      /\ now.refs \in [Advertisable -> Oids \cup {None}] /\ now.version \in Nat
  BY <1>1, ZenonT(60) DEF RuleInv, RuleTypes, RemoteTable
<1>4. after \in [Advertisable -> Oids \cup {None}] /\ version \in Nat
  BY <1>2, <1>3
<1>5. AfterCommands(o, accepted) = [now EXCEPT !.refs = after, !.version = version]
  BY DEF AfterCommands
<1> HIDE DEF now, after, version
<1>6. AfterCommands(o, accepted) \in RemoteTable(Prefix(o))
  BY <1>3, <1>4, <1>5, ZenonT(60) DEF RemoteTable
<1> QED BY <1>1, <1>2, <1>6, ZenonT(60)

(* The server's answer settles the push.                                        *)
LEMMA ReceiveKeepsRules ==
  ASSUME FenceInv, RuleInv, NEW o \in Ops, RemoteReceives(o)
  PROVE  RuleInv'
<1>1. pc \in [Ops -> PCs] /\ request = [x \in Ops |-> request[x]] /\ token = [x \in Ops |-> token[x]]
      /\ plan = [x \in Ops |-> plan[x]] /\ adv = [x \in Ops |-> adv[x]]
      /\ remote = [p \in Prefixes |-> remote[p]] /\ \A p \in Prefixes : remote[p] \in RemoteTable(p)
  BY ZenonT(60) DEF FenceInv, FenceTypes, RuleInv, RuleTypes
<1>2. /\ pc[o] = "sent" /\ pc'[o] = "answered" /\ CallStep(o)
      /\ UNCHANGED <<trackingRevisions, request, adv>>
  BY <1>1, ZenonT(60) DEF RemoteReceives, CallStep, checkoutVars, shallowVars
<1>3. PICK accepted \in SUBSET Active(o) :
        /\ remote' = [remote EXCEPT ![Prefix(o)] = AfterCommands(o, accepted)]
        /\ plan' = [plan EXCEPT ![o] =
             [confirmed |-> accepted \cup (DOMAIN request[o].targets \ Active(o))]]
  BY ZenonT(60) DEF RemoteReceives
<1>4. /\ Prefix(o) \in Prefixes /\ request[o].kind = "push"
      /\ accepted \subseteq DOMAIN request[o].targets
      /\ AfterCommands(o, accepted) \in RemoteTable(Prefix(o))
  BY <1>2, CommandsTyped, ZenonT(60)
<1>5. /\ remote' = [p \in Prefixes |-> remote'[p]] /\ \A p \in Prefixes : remote'[p] \in RemoteTable(p)
  BY <1>1, <1>3, <1>4, ZenonT(60)
<1>6. plan'[o].confirmed \subseteq DOMAIN request[o].targets
  BY <1>1, <1>3, <1>4, ZenonT(60)
<1>7. Advertised(o)'
  <2>1. Advertised(o)
    BY ZenonT(60) DEF RuleInv, CallRules
  <2> QED BY <1>2, <2>1 DEF Advertised, Prefix
<1>8. CallRules(o)'
  BY <1>2, <1>4, <1>6, <1>7, ZenonT(60) DEF CallRules, FetchRules, PlanRules, PushRules
<1> QED BY <1>2, <1>5, <1>8, Unmoved, CallStepKeepsRules

(* Every step keeps RuleInv.                                                    *)
LEMMA NextKeepsRules == FenceInv /\ RuleInv /\ [Next]_vars => RuleInv'
<1> SUFFICES ASSUME FenceInv, RuleInv, [Next]_vars PROVE RuleInv' OBVIOUS
<1>1. ASSUME NEW put \in LocalPuts, MutateRef(put[1], put[2]) PROVE RuleInv'
  BY <1>1, LocalKeepsRules
<1>2. ASSUME NEW c \in Checkouts, NEW b \in Branches \cup {None}, MutateHead(c, b) PROVE RuleInv'
  BY <1>2, LocalKeepsRules
<1>3. ASSUME NEW p \in Prefixes, RemoteMoves(p) PROVE RuleInv'
  BY <1>3, LocalKeepsRules
<1>4. ASSUME NEW o \in Ops, NEW r \in Requests, Ask(o, r) \/ BeginTracking(o, r) PROVE RuleInv'
  BY <1>4, AskKeepsRules
<1>5. ASSUME NEW o \in Ops, Advertise(o) \/ Abort(o) PROVE RuleInv'
  BY <1>5, AdvertiseKeepsRules, AbortKeepsRules
<1>6. ASSUME NEW o \in Ops, BeginFetch(o) \/ BeginClobbering(o) \/ BeginPush(o) PROVE RuleInv'
  BY <1>6, IssueKeepsRules, ClobberingKeepsRules, ZenonT(60)
<1>7. ASSUME NEW o \in Ops, Transfer(o) \/ RemoteReceives(o) PROVE RuleInv'
  BY <1>7, TransferKeepsRules, ReceiveKeepsRules
<1>8. ASSUME NEW o \in Ops, PublishFetch(o) \/ NoopPush(o) \/ ReconcilePush(o) PROVE RuleInv'
  BY <1>8, PublishFetchKeepsRules, PushKeepsRules
<1>9. ASSUME NEW o \in Ops, NEW v \in Oids \cup {None}, PublishTracking(o, v) PROVE RuleInv'
  BY <1>9, PublishTrackingKeepsRules
<1>10. CASE UNCHANGED vars
  <2>1. /\ RuleTypes'
        /\ SparesRules(None)
    BY <1>10 DEF vars, RuleInv, RuleTypes, RefTable, RemoteTable, SparesRules
  <2> QED BY <2>1, NamesAssumption, RulesStep, ZenonT(60)
<1> QED BY <1>1, <1>2, <1>3, <1>4, <1>5, <1>6, <1>7, <1>8, <1>9, <1>10, ZenonT(60) DEF Next, StepOf

(* preflightFetchPublication lets a fetch or push through only if no later      *)
(* generation went to an overlapping namespace, however many calls and          *)
(* namespaces there are.                                                        *)
THEOREM OnlyTheLatestPublishes == Spec => LatestIssueOnly
<1>1. FenceInv /\ [Next]_vars =>
        [\A o \in Ops : PublishesNamespace(o) =>
           \A p \in LaterIssues(o) : ~Overlaps(p, Prefix(o))]_vars
  BY NoLaterOverlap
<1> QED BY <1>1, FencesHold, PTL DEF Spec, LatestIssueOnly

(* No fetch or push publishes over a ref of its namespace, a shallow boundary   *)
(* or a checkout that somebody wrote after the token was issued.                *)
THEOREM NothingIsOverwritten == Spec => NoLostUpdate
<1>1. FenceInv /\ [Next]_vars =>
        [\A o \in Ops : PublishesNamespace(o) => since[o] \cap Guarded(o) = {}]_vars
  BY NothingGuardedWritten
<1> QED BY <1>1, FencesHold, PTL DEF Spec, NoLostUpdate

(* What was checked against a snapshot stays good for as long as the snapshot   *)
(* may be published from.                                                       *)
THEOREM RulesHold == Spec => [](FenceInv /\ RuleInv)
<1>1. Init => RuleInv
  <2> SUFFICES ASSUME Init PROVE RuleInv BY ZenonT(60)
  <2>1. refs \in RefTable
    BY ZenonT(60) DEF Init, RefTable, Names
  <2>2. remote = [p \in Prefixes |-> remote[p]] /\ \A p \in Prefixes : remote[p] \in RemoteTable(p)
    BY RemoteAssumption, ZenonT(60) DEF Init, RemoteTable
  <2>3. RuleTypes
    BY <2>1, <2>2, ZenonT(60) DEF Init, RuleTypes
  <2>4. \A o \in Ops : CallRules(o)
    BY ZenonT(60) DEF Init, CallRules, Advertised, FetchRules, PlanRules, PushRules
  <2> QED BY <2>3, <2>4 DEF RuleInv
<1> QED BY <1>1, NextKeepsRules, FencesHold, PTL DEF Spec

(* The ref tables, the revisions and what the calls hold keep their types.      *)
THEOREM FetchTypesHold == Spec => []TypeOK
<1>1. FenceInv /\ RuleInv => TypeOK
  <2> SUFFICES ASSUME FenceInv, RuleInv PROVE TypeOK BY ZenonT(60)
  <2>1. \A o \in Ops : pc[o] # "idle" => request[o] \in Requests /\ request[o].remote \in Prefixes
    BY RequestsAssumption, ZenonT(60) DEF FenceInv, FenceTypes, CallShape
  <2>2. refs \in [Names -> Oids \cup TrackingNames \cup {None}]
    BY DEF RuleInv, RuleTypes, RefTable
  <2> QED BY <2>1, <2>2, ZenonT(60) DEF TypeOK, FenceInv, FenceTypes, RuleInv, RuleTypes
<1> QED BY <1>1, RulesHold, PTL

(* A lease that was compared with the advertisement is honoured by the server,  *)
(* which compares with the same advertisement: for any number of pushes.        *)
THEOREM LeasesAreHonoured == Spec => LeaseHonoured
<1>1. ASSUME FenceInv, RuleInv, NEW o \in Ops, RemoteReceives(o), NEW d \in request[o].leased,
             remote'[Prefix(o)].refs[d] # remote[Prefix(o)].refs[d]
      PROVE  remote[Prefix(o)].refs[d] = plan[o].lease[d]
  <2> DEFINE p == Prefix(o)
  <2>1. pc[o] = "sent"
    BY <1>1, ZenonT(60) DEF RemoteReceives
  <2>2. LeasesHold(o) /\ request[o].kind = "push" /\ request[o] \in Requests /\ p \in Prefixes
    BY <1>1, <2>1, CallHasPrefix, ZenonT(60) DEF RuleInv, CallRules, PushRules
  <2>3. adv[o].refs[d] = plan[o].lease[d]
    BY <2>2 DEF LeasesHold
  <2>4. PICK accepted \in SUBSET {e \in Active(o) : remote[p].refs[e] = adv[o].refs[e]} :
          remote' = [remote EXCEPT ![p] = AfterCommands(o, accepted)]
    BY <1>1, ZenonT(60) DEF RemoteReceives
  <2>5. d \in Advertisable
    <3>1. d \in Under[p]
      BY <1>1, <2>2, RequestsAssumption, ZenonT(60) DEF Prefix
    <3> QED BY <2>2, <3>1, ZenonT(60) DEF Advertisable, TrackingNames
  <2>6. remote[p] \in RemoteTable(p) /\ remote = [q \in Prefixes |-> remote[q]]
    BY <1>1, <2>2 DEF RuleInv, RuleTypes
  <2>7. remote'[p] = AfterCommands(o, accepted)
    BY <2>2, <2>4, <2>6, ZenonT(60)
  <2>8. AfterCommands(o, accepted).refs =
          [s \in DOMAIN remote[p].refs |-> IF s \in accepted THEN request[o].targets[s]
                                                             ELSE remote[p].refs[s]]
    BY <2>6 DEF AfterCommands, RemoteTable
  <2>9. d \in accepted
    BY <1>1, <2>5, <2>6, <2>7, <2>8, ZenonT(60) DEF RemoteTable
  <2> QED BY <2>3, <2>9, ZenonT(60)
<1>2. FenceInv /\ RuleInv /\ [Next]_vars =>
        [\A o \in Ops : RemoteReceives(o) =>
           \A d \in request[o].leased :
              LET p == Prefix(o)
              IN remote'[p].refs[d] # remote[p].refs[d] => remote[p].refs[d] = plan[o].lease[d]]_vars
  BY <1>1
<1> QED BY <1>2, RulesHold, PTL DEF Spec, LeaseHonoured

(* No publication breaks the rules that the fetch was checked against before    *)
(* its transfer, whatever happened to the repository since.                     *)
THEOREM PublicationsKeepRules == Spec => PublicationKeepsRules
<1>1. ASSUME FenceInv, RuleInv, NEW o \in Ops, PublishFetch(o), TouchesShallow(o)
      PROVE  shallow' = plan[o].boundary
  <2>1. /\ pc[o] = "publish" /\ ShallowFresh(o)
        /\ shallow' = (shallow \ (token[o].shallow \ plan[o].boundary))
                        \cup (plan[o].boundary \ token[o].shallow)
    BY <1>1, ZenonT(60) DEF PublishFetch, FetchFresh
  <2>2. shallow = token[o].shallow
    BY <1>1, <2>1, ZenonT(60) DEF ShallowFresh, RuleInv, CallRules, FetchRules
  <2> QED BY <2>1, <2>2, ZenonT(60)
<1>2. FenceInv /\ RuleInv /\ [Next]_vars =>
        [\A o \in Ops : PublishFetch(o) =>
           /\ \A t \in Tags \ request[o].forced : refs[t] # None => refs'[t] = refs[t]
           /\ \A b \in Branches \ request[o].forced :
                 refs[b] # None => refs[b] \in Ancestors[refs'[b]]
           /\ \A c \in Checkouts : heads[c] # None => refs'[heads[c]] = refs[heads[c]]
           /\ TouchesShallow(o) => shallow' = plan[o].boundary
           /\ LET h == HeadOf[Prefix(o)]
              IN (Resolves(refs, h) \/ refs'[h] # refs[h]) => refs'[h] = None \/ Resolves(refs', h)]_vars
  BY <1>1, PublishedRefsObeyRules, PublishedHeadResolves, ZenonT(60)
<1> QED BY <1>2, RulesHold, PTL DEF Spec, PublicationKeepsRules
===============================================================================
