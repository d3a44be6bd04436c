---------------------------- MODULE FetchInvariants ----------------------------
(* The inductive invariants of FetchPublication: FenceInv, what the tables say  *)
(* of the tokens that are held, and RuleInv, what a call checked against its    *)
(* snapshot.                                                                    *)
EXTENDS FetchPublication

HoldsNamespace(o) == pc[o] \in {"transfer", "publish", "sent", "answered"}

(* A call under way has its request; nothing is noted for a call without token. *)
CallShape(o) ==
  /\ pc[o] # "idle" => request[o] \in Requests
  /\ pc[o] = "tracking" => request[o].kind = "track"
  /\ pc[o] \notin Holding => since[o] = {}

(* The tables that the fences are made of.                                      *)
FenceTypes ==
  /\ namespaces \in [Prefixes -> [latest : Nat, revision : Nat]]
  /\ issued \in Seq(Prefixes)
  /\ shallowRevision \in Nat /\ checkoutRevision \in Nat
  /\ pc \in [Ops -> PCs]
  /\ since = [o \in Ops |-> since[o]]
  /\ request \in [Ops -> Requests \cup {None}]
  /\ token = [o \in Ops |-> token[o]]
  /\ \A o \in Ops : CallShape(o)

(* A row holds the last generation that was issued to an overlapping prefix.    *)
RowsCurrent ==
  \A p \in Prefixes :
     /\ namespaces[p].latest <= Len(issued)
     /\ \A g \in 1..Len(issued) :
          namespaces[p].latest > 0 /\ Overlaps(issued[g], p) => g <= namespaces[p].latest

(* What the tables say of a token that is still held.                           *)
TokenSound(o) ==
  HoldsNamespace(o) =>
    /\ token[o].generation \in Nat \ {0} /\ token[o].revision \in Nat
    /\ token[o].shallowRevision \in Nat /\ token[o].checkoutRevision \in Nat
    /\ namespaces[Prefix(o)].latest >= token[o].generation
    /\ namespaces[Prefix(o)].revision >= token[o].revision
    /\ since[o] \cap Under[Prefix(o)] # {} => namespaces[Prefix(o)].revision > token[o].revision
    /\ shallowRevision >= token[o].shallowRevision
    /\ Boundary \in since[o] => shallowRevision > token[o].shallowRevision
    /\ checkoutRevision >= token[o].checkoutRevision
    /\ since[o] \cap Checkouts # {} => checkoutRevision > token[o].checkoutRevision

FenceInv == FenceTypes /\ RowsCurrent /\ \A o \in Ops : TokenSound(o)

RefTable ==
  {f \in [Names -> Oids \cup TrackingNames \cup {None}] :
     \A n \in Branches \cup Tags : f[n] \in Oids \cup {None}}

RemoteTable(p) == [refs : [Advertisable -> Oids \cup {None}],
                   head : Under[p] \cup {None}, version : Nat]

(* The tables and the remotes; only a tracking ref is ever symbolic.            *)
RuleTypes ==
  /\ refs \in RefTable
  /\ heads \in [Checkouts -> Branches \cup {None}]
  /\ shallow \subseteq Oids
  /\ trackingRevisions \in [TrackingNames -> Nat \cup {None}]
  /\ since \in [Ops -> SUBSET (Names \cup Checkouts \cup {Boundary})]
  /\ remote = [p \in Prefixes |-> remote[p]] /\ \A p \in Prefixes : remote[p] \in RemoteTable(p)
  /\ adv = [o \in Ops |-> adv[o]] /\ plan = [o \in Ops |-> plan[o]]

Advertised(o) ==
  pc[o] \in {"advertised", "transfer", "publish", "sent", "answered"} =>
    adv[o] \in [refs : [Advertisable -> Oids \cup {None}], head : Under[Prefix(o)] \cup {None}]

(* What the snapshot of a fetch is good for.                                    *)
FetchRules(o) ==
  pc[o] \in {"transfer", "publish"} =>
    /\ request[o].kind = "fetch" /\ token[o].shallow \subseteq Oids
    /\ shallowRevision = token[o].shallowRevision => shallow = token[o].shallow
    /\ \A t \in (Updates(o) \cap Tags) \ request[o].forced :
         token[o].exact[t] \in {None, Target(o, t)}

(* What Transfer established of the snapshot.                                   *)
PlanRules(o) ==
  pc[o] = "publish" =>
    /\ FastForwards(o) /\ plan[o].boundary \subseteq Oids
    /\ plan[o].followed \subseteq {t \in Followable(o) : token[o].exact[t] = None}

PushRules(o) ==
  /\ pc[o] \in {"sent", "answered"} => request[o].kind = "push"
  /\ pc[o] = "sent" => LeasesHold(o)
  /\ pc[o] = "answered" => plan[o].confirmed \subseteq DOMAIN request[o].targets

CallRules(o) == Advertised(o) /\ FetchRules(o) /\ PlanRules(o) /\ PushRules(o)

RuleInv == RuleTypes /\ \A o \in Ops : CallRules(o)
================================================================================
