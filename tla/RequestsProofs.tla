-------------------------- MODULE RequestsProofs ---------------------------
(***************************************************************************)
(* Proofs about module Requests: until a failover the leader has what was  *)
(* last acknowledged, and a handoff leaves no second writer, for any       *)
(* number of nodes, load balancers, calls, attempts, retries, faults and   *)
(* handoffs.                                                               *)
(***************************************************************************)
EXTENDS Requests, SequenceTheorems, FiniteSetTheorems, TLAPS

----------------------------------------------------------------------------
(* Types.                                                                  *)

Value == Nat \ {0}
Version == 1..Len(layouts)

LayoutRec == [leader : Node \cup {NoNode}, epoch : Nat, followers : SUBSET Node, members : SUBSET Node,
              handoff : Nat, to : Node \cup {NoNode}]

RepRec == [role : {"none", "follower", "leader"}, synced : BOOLEAN, dataEpoch : Nat,
           sealed : BOOLEAN, log : Seq(Value)]

CallRec == [op : {"none", "set", "get"}, value : Nat, stage : {"idle", "route", "sent", "reading"},
            lb : LB \cup {NoNode}, try : Nat, attempt : Nat, to : Node \cup {NoNode}, todo : Seq(Node)]

LayoutTypes == layouts \in Seq(LayoutRec) /\ layouts # <<>>

RepTypes == rep \in [Node -> RepRec]

ViewTypes == view \in [Node \cup LB -> Version]

CallTypes ==
  /\ call \in CallRec
  /\ call.op = "set" => call.value # 0
  /\ call.op # "none" => call.lb \in LB
  /\ call.stage \in {"sent", "reading"} => call.op # "none" /\ call.to \in Node

OtherTypes ==
  /\ late \subseteq Node \X Value /\ recent \subseteq Nat /\ answer \in Int /\ calls \in Nat

GhostTypes == acked \in Nat /\ failovers \subseteq Nat

Types == LayoutTypes /\ RepTypes /\ ViewTypes /\ GhostTypes /\ CallTypes /\ OtherTypes

----------------------------------------------------------------------------
(* The layouts.                                                            *)

\* Layout b may come after a: epochs grow, and an epoch has one leader, which it
\* may lose.
Precedes(a, b) == a.epoch <= b.epoch /\ (a.epoch = b.epoch => b.leader \in {a.leader, NoNode})

\* A handoff in progress has been in every layout since its version.
HandoffLasts ==
  Latest.handoff # 0 =>
    /\ Latest.handoff <= Len(layouts) /\ Latest.to \in Latest.followers /\ Latest.leader # NoNode
    /\ \A i \in Version : i >= Latest.handoff =>
         layouts[i].handoff # 0 /\ layouts[i].epoch = Latest.epoch

\* The replicas are on members.
Held(l) == l.leader \in l.members \cup {NoNode} /\ l.leader \notin l.followers /\ l.followers \subseteq l.members

Order ==
  /\ \A i, j \in Version : i <= j => Precedes(layouts[i], layouts[j])
  /\ \A i \in Version : Held(layouts[i])
  /\ HandoffLasts

----------------------------------------------------------------------------
(* The replicas.                                                           *)

\* A leader leads by the layout it applied last.
Leads(n) ==
  rep[n].role = "leader" =>
    /\ layouts[view[n]].leader = n
    /\ rep[n].sealed = (layouts[view[n]].handoff # 0)
    /\ rep[n].dataEpoch = Epoch(n)

HasData(n) ==
  /\ rep[n].role # "none" => n \in layouts[view[n]].members
  /\ rep[n].role = "follower" => layouts[view[n]].leader # n
  /\ rep[n].role = "none" => ~rep[n].synced
  /\ rep[n].dataEpoch <= Epoch(n)

\* An epoch of n that has ended, and not with a failover, in a layout that n has
\* applied last or may still apply.
Handed(n, i) ==
  /\ i >= view[n] /\ layouts[i].leader = n
  /\ layouts[i].epoch < Latest.epoch /\ layouts[i].epoch + 1 \notin failovers

\* n leads it, and finds the handoff in whatever layout of it it applies.
EndsSealed(n) ==
  Registered(n) => \A i \in Version : Handed(n, i) =>
    layouts[i].handoff # 0 /\ rep[n].role = "leader" /\ Epoch(n) = layouts[i].epoch

\* A node that is a member has been one in all the layouts it has not seen.
Stays(n) ==
  Registered(n) /\ n \in Latest.members => \A i \in Version : i > view[n] => n \in layouts[i].members

Replicas == \A n \in Node : Leads(n) /\ HasData(n) /\ EndsSealed(n) /\ Stays(n)

\* m has the log of the leader of the epoch before, and keeps it while it still
\* follows that one.
Waits(m) ==
  /\ rep[m].role = "follower" /\ rep[m].synced /\ rep[m].dataEpoch + 1 = Latest.epoch
  /\ \A n \in Node : rep[n].role = "leader" /\ Epoch(n) = rep[m].dataEpoch => rep[n].log = rep[m].log

LeadsNow(m) == rep[m].role = "leader" /\ Epoch(m) = Latest.epoch

\* A node that leads by handoff has what the leader before it had.
Promised ==
  LET m == Latest.leader
  IN m # NoNode /\ Latest.epoch \notin failovers /\ Registered(m) => LeadsNow(m) \/ Waits(m)

\* An epoch in which a write was acknowledged has begun for its leader.
AckedLed ==
  LET m == Latest.leader
  IN /\ acked <= Latest.epoch
     /\ acked = Latest.epoch /\ m # NoNode /\ Registered(m) => LeadsNow(m)

----------------------------------------------------------------------------
(* The key's value.                                                        *)

\* What the call in progress may have written.
Writing == IF call.op = "set" THEN {call.value} ELSE {}

\* There is a leader, and no failover since the last acknowledged write.
Settled == Undisturbed /\ Latest.leader # NoNode /\ rep[Latest.leader].role # "none"

LeaderHasLast == Settled => ValueOf(rep[Latest.leader].log) \in recent \cup Writing

ClusterInv ==
  /\ LayoutTypes /\ RepTypes /\ ViewTypes /\ GhostTypes
  /\ Order /\ Replicas /\ Promised /\ AckedLed

Inv == ClusterInv /\ CallTypes /\ OtherTypes /\ LeaderHasLast

----------------------------------------------------------------------------
(* Layouts are appended, and each may come after the ones before.          *)

LEMMA LatestIs ==
  ASSUME LayoutTypes
  PROVE  /\ Len(layouts) \in Nat \ {0} /\ Len(layouts) \in Version
         /\ Latest = layouts[Len(layouts)] /\ Latest \in LayoutRec
         /\ \A i \in Version : layouts[i] \in LayoutRec /\ i \in Nat /\ i <= Len(layouts)
  BY DEF LayoutTypes, Version, Latest, Last

LEMMA LayoutFields ==
  ASSUME NEW l \in LayoutRec
  PROVE  /\ l.leader \in Node \cup {NoNode} /\ l.epoch \in Nat /\ l.followers \subseteq Node /\ l.members \subseteq Node
         /\ l.handoff \in Nat /\ l.to \in Node \cup {NoNode}
  BY DEF LayoutRec

LEMMA RepFields ==
  ASSUME NEW r \in RepRec
  PROVE  /\ r.role \in {"none", "follower", "leader"} /\ r.synced \in BOOLEAN /\ r.dataEpoch \in Nat
         /\ r.sealed \in BOOLEAN /\ r.log \in Seq(Value)
  BY DEF RepRec

LEMMA PutIs ==
  ASSUME LayoutTypes, NEW l \in LayoutRec, PutLayout(l)
  PROVE  /\ LayoutTypes' /\ Len(layouts') = Len(layouts) + 1 /\ Latest' = l
         /\ \A i \in Version : i \in Version' /\ layouts'[i] = layouts[i]
         /\ \A i \in Version' : i \in Version \/ i = Len(layouts) + 1
         /\ layouts'[Len(layouts) + 1] = l
<1>1. layouts' = Append(layouts, l) /\ Len(layouts) \in Nat
  BY DEF LayoutTypes, PutLayout
<1>2. /\ layouts' \in Seq(LayoutRec) /\ Len(layouts') = Len(layouts) + 1
      /\ \A i \in 1..Len(layouts) : layouts'[i] = layouts[i]
      /\ layouts'[Len(layouts) + 1] = l
  BY <1>1 DEF LayoutTypes
<1>3. layouts' # <<>>
  BY <1>1, <1>2
<1> QED
  BY <1>1, <1>2, <1>3 DEF LayoutTypes, Version, Latest, Last

\* What the layouts and the replicas are, with the fields the proofs use.
LEMMA ClusterIs ==
  ASSUME LayoutTypes, RepTypes, ViewTypes
  PROVE  /\ Latest.leader \in Node \cup {NoNode} /\ Latest.epoch \in Nat /\ Latest.followers \subseteq Node
         /\ Latest.members \subseteq Node /\ Latest.handoff \in Nat /\ Latest.to \in Node \cup {NoNode}
         /\ \A i \in Version : /\ layouts[i].leader \in Node \cup {NoNode} /\ layouts[i].epoch \in Nat
                               /\ layouts[i].handoff \in Nat /\ layouts[i].members \subseteq Node
         /\ \A n \in Node : view[n] \in Version /\ view[n] \in Nat /\ Epoch(n) \in Nat
<1>1. \A n \in Node : view[n] \in Version
  BY DEF ViewTypes
<1> QED
  BY <1>1, LatestIs, LayoutFields DEF Epoch

LEMMA ReplicaIs ==
  ASSUME RepTypes, NEW n \in Node
  PROVE  /\ rep[n] \in RepRec
         /\ rep[n].role \in {"none", "follower", "leader"} /\ rep[n].synced \in BOOLEAN
         /\ rep[n].dataEpoch \in Nat /\ rep[n].sealed \in BOOLEAN /\ rep[n].log \in Seq(Value)
  BY RepFields DEF RepTypes

----------------------------------------------------------------------------
(* The client and the load balancers.                                      *)

\* What may have been written last is remembered.
Keeps == recent \cup Writing \subseteq recent' \cup Writing'

\* The call goes on or has failed.
GoesOn ==
  \/ call'.op = call.op /\ call'.value = call.value /\ UNCHANGED outcome
  \/ Fail

CallFacts == CallTypes' /\ Keeps /\ recent' \subseteq Nat /\ answer' \in Int /\ acked' = acked

LEMMA CallFields ==
  ASSUME CallTypes
  PROVE  /\ call.op \in {"none", "set", "get"} /\ call.value \in Nat /\ call.try \in Nat /\ call.attempt \in Nat
         /\ call.todo \in Seq(Node) /\ call.stage \in {"idle", "route", "sent", "reading"}
         /\ call.lb \in LB \cup {NoNode} /\ call.to \in Node \cup {NoNode}
  BY DEF CallTypes, CallRec

LEMMA NoCallIs == NoCall \in CallRec /\ NoCall.op = "none" /\ NoCall.stage = "idle"
<1>1. <<>> \in Seq(Node)
  OBVIOUS
<1> QED
  BY <1>1 DEF NoCall, CallRec

LEMMA FailIs ==
  ASSUME CallTypes, OtherTypes, Fail
  PROVE  CallFacts
<1>1. /\ call' = NoCall /\ answer' = NoAnswer /\ acked' = acked
      /\ recent' = IF call.op = "set" THEN recent \cup {call.value} ELSE recent
  BY DEF Fail
<1>2. CallTypes'
  BY <1>1, NoCallIs DEF CallTypes
<1>3. answer' \in Int
  BY <1>1 DEF NoAnswer
<1>4. recent' \subseteq Nat
  BY <1>1, CallFields DEF OtherTypes
<1>5. recent \cup Writing \subseteq recent'
  BY <1>1 DEF Writing
<1> QED
  BY <1>1, <1>2, <1>3, <1>4, <1>5 DEF CallFacts, Keeps

LEMMA GoesOnIs ==
  ASSUME CallTypes, OtherTypes, GoesOn, CallTypes'
  PROVE  CallFacts
<1>1. CASE Fail
  BY <1>1, FailIs
<1>2. CASE call'.op = call.op /\ call'.value = call.value /\ UNCHANGED outcome
  BY <1>2 DEF CallFacts, Keeps, Writing, OtherTypes, outcome
<1> QED
  BY <1>1, <1>2 DEF GoesOn

\* The call is routed again.
LEMMA RouteAgain ==
  ASSUME CallTypes, call.op # "none", NEW b \in LB, NEW t \in Nat, NEW a \in Nat,
         call' = [call EXCEPT !.stage = "route", !.lb = b, !.try = t, !.attempt = a, !.to = NoNode, !.todo = <<>>]
  PROVE  CallTypes' /\ call'.op = call.op /\ call'.value = call.value
<1>1. call \in CallRec /\ <<>> \in Seq(Node)
  BY DEF CallTypes
<1>2. call' \in CallRec /\ call'.op = call.op /\ call'.value = call.value /\ call'.stage = "route" /\ call'.lb = b
  BY <1>1 DEF CallRec
<1> QED
  BY <1>2 DEF CallTypes

LEMMA TryIs ==
  ASSUME CallTypes, OtherTypes, call.op # "none", NextTry
  PROVE  CallFacts
<1>1. CASE call.try < MaxRetries
  <2>1. PICK b \in LB : call' = [call EXCEPT !.stage = "route", !.lb = b, !.try = @ + 1,
                                              !.attempt = 0, !.to = NoNode, !.todo = <<>>]
    BY <1>1 DEF NextTry
  <2>2. call.try + 1 \in Nat /\ call \in CallRec
    BY CallFields DEF CallTypes
  <2>3. call' = [call EXCEPT !.stage = "route", !.lb = b, !.try = call.try + 1,
                             !.attempt = 0, !.to = NoNode, !.todo = <<>>]
    BY <2>1
  <2>4. CallTypes' /\ call'.op = call.op /\ call'.value = call.value
    BY <2>2, <2>3, RouteAgain
  <2>5. UNCHANGED outcome
    BY <1>1 DEF NextTry
  <2> QED
    BY <2>4, <2>5, GoesOnIs DEF GoesOn
<1>2. CASE ~(call.try < MaxRetries)
  BY <1>2, FailIs DEF NextTry
<1> QED
  BY <1>1, <1>2

LEMMA AttemptIs ==
  ASSUME CallTypes, OtherTypes, call.op # "none", NextAttempt
  PROVE  CallFacts
<1>1. CASE call.attempt + 1 < MaxAttempts
  <2>1. /\ call' = [call EXCEPT !.stage = "route", !.attempt = @ + 1, !.to = NoNode, !.todo = <<>>]
        /\ UNCHANGED outcome
    BY <1>1 DEF NextAttempt
  <2>2. call.attempt + 1 \in Nat /\ call \in CallRec /\ call.lb \in LB /\ <<>> \in Seq(Node)
    BY CallFields DEF CallTypes
  <2>3. call' \in CallRec /\ call'.op = call.op /\ call'.value = call.value /\ call'.stage = "route" /\ call'.lb = call.lb
    BY <2>1, <2>2 DEF CallRec
  <2>4. CallTypes'
    BY <2>2, <2>3 DEF CallTypes
  <2> QED
    BY <2>1, <2>3, <2>4, GoesOnIs DEF GoesOn
<1>2. CASE ~(call.attempt + 1 < MaxAttempts)
  BY <1>2, TryIs DEF NextAttempt
<1> QED
  BY <1>1, <1>2

\* The request is sent to a replica.
LEMMA SendIs ==
  ASSUME CallTypes, OtherTypes, call.op # "none", NEW n \in Node, NEW rest \in Seq(Node),
         call' = [call EXCEPT !.stage = "sent", !.to = n, !.todo = rest], UNCHANGED outcome
  PROVE  CallFacts
<1>1. call \in CallRec /\ call.lb \in LB
  BY DEF CallTypes
<1>2. call' \in CallRec /\ call'.op = call.op /\ call'.value = call.value /\ call'.to = n /\ call'.lb = call.lb
  BY <1>1 DEF CallRec
<1>3. CallTypes'
  BY <1>1, <1>2 DEF CallTypes
<1> QED
  BY <1>2, <1>3, GoesOnIs DEF GoesOn

LEMMA CandidateIs ==
  ASSUME CallTypes, OtherTypes, call.op # "none", NextCandidate
  PROVE  CallFacts
<1>1. CASE call.todo # <<>>
  <2>1. call.todo \in Seq(Node) /\ call \in CallRec
    BY CallFields DEF CallTypes
  <2>2. Head(call.todo) \in Node /\ Tail(call.todo) \in Seq(Node)
    BY <1>1, <2>1
  <2>3. /\ call' = [call EXCEPT !.stage = "sent", !.to = Head(call.todo), !.todo = Tail(call.todo)]
        /\ UNCHANGED outcome
    BY <1>1, <2>1 DEF NextCandidate
  <2> QED
    BY <2>2, <2>3, SendIs
<1>2. CASE ~(call.todo # <<>>)
  BY <1>2, AttemptIs DEF NextCandidate
<1> QED
  BY <1>1, <1>2

\* An order of replicas is a sequence of nodes.
LEMMA OrdersAre ==
  ASSUME NEW S \in SUBSET Node, NEW f \in Orders(S)
  PROVE  f \in Seq(Node)
<1>1. IsFiniteSet(S)
  BY FS_Subset, RequestsNodes
<1>2. Cardinality(S) \in Nat
  BY <1>1, FS_CardinalityType
<1>3. f \in [1..Cardinality(S) -> S]
  BY DEF Orders, SetToSeqs
<1>4. f \in [1..Cardinality(S) -> Node]
  BY <1>3
<1> QED
  BY <1>2, <1>4

LEMMA CandidatesAre ==
  ASSUME NEW l \in LayoutRec, NEW order \in readCandidates(l)
  PROVE  order \in Seq(Node)
<1>0. CASE l.leader = NoNode
  <2>1. order \in Orders(l.followers) /\ l.followers \in SUBSET Node
    BY <1>0, LayoutFields DEF readCandidates
  <2> QED
    BY <2>1, OrdersAre
<1> SUFFICES ASSUME l.leader # NoNode PROVE order \in Seq(Node)
  BY <1>0
<1>1. l.leader \in Node /\ l.followers \in SUBSET Node /\ {l.leader} \cup l.followers \in SUBSET Node
  BY LayoutFields
<1>2. l.leader # NoNode
  OBVIOUS
<1>3. CASE Strategy = "leader"
  <2>1. PICK f \in Orders(l.followers) : order = <<l.leader>> \o f
    BY <1>2, <1>3 DEF readCandidates
  <2>2. f \in Seq(Node) /\ <<l.leader>> \in Seq(Node)
    BY <1>1, OrdersAre
  <2> QED
    BY <2>1, <2>2
<1>4. CASE Strategy = "followers"
  <2>1. PICK f \in Orders(l.followers) : order = Append(f, l.leader)
    BY <1>2, <1>4 DEF readCandidates
  <2>2. f \in Seq(Node)
    BY <1>1, OrdersAre
  <2> QED
    BY <1>1, <2>1, <2>2
<1>5. CASE Strategy = "round-robin"
  <2>1. order \in Orders({l.leader} \cup l.followers)
    BY <1>2, <1>5 DEF readCandidates
  <2> QED
    BY <1>1, <2>1, OrdersAre
<1> QED
  BY <1>3, <1>4, <1>5, RequestsStrategy

\* The layout a node or a load balancer routes by.
LEMMA SeenIs ==
  ASSUME LayoutTypes, ViewTypes, NEW x \in Node \cup LB
  PROVE  layouts[view[x]] \in LayoutRec
  BY LatestIs DEF ViewTypes

LEMMA BeginIs ==
  ASSUME Types, NEW op \in {"set", "get"}, NEW b \in LB, Begin(op, b)
  PROVE  CallFacts /\ calls' \in Nat
<1>1. calls \in Nat /\ calls + 1 \in Nat \ {0} /\ recent \subseteq Nat
  BY DEF Types, OtherTypes
<1>2. /\ call.op = "none" /\ calls' = calls + 1 /\ answer' = NoAnswer /\ recent' = recent /\ acked' = acked
      /\ call' = [NoCall EXCEPT !.op = op, !.value = IF op = "set" THEN calls + 1 ELSE 0,
                                !.stage = "route", !.lb = b]
  BY DEF Begin
<1>3. PICK v \in Nat : v = (IF op = "set" THEN calls + 1 ELSE 0) /\ (op = "set" => v # 0)
  BY <1>1
<1>4. call' = [NoCall EXCEPT !.op = op, !.value = v, !.stage = "route", !.lb = b]
  BY <1>2, <1>3
<1>5. call' \in CallRec /\ call'.op = op /\ call'.value = v /\ call'.stage = "route" /\ call'.lb = b
  BY <1>4, NoCallIs DEF CallRec
<1>6. CallTypes'
  BY <1>3, <1>5 DEF CallTypes
<1>7. answer' \in Int
  BY <1>2 DEF NoAnswer
<1>8. Keeps
  BY <1>2 DEF Keeps, Writing
<1> QED
  BY <1>1, <1>2, <1>6, <1>7, <1>8 DEF CallFacts

LEMMA RouteSetIs ==
  ASSUME Types, RouteSet
  PROVE  CallFacts
<1>1. CallTypes /\ OtherTypes /\ LayoutTypes /\ ViewTypes /\ call.op = "set"
  BY DEF Types, RouteSet
<1>2. call.lb \in LB /\ call.op # "none" /\ call \in CallRec /\ call.todo \in Seq(Node)
  BY <1>1, CallFields DEF CallTypes
<1>4. CASE Writable(layouts[view[call.lb]])
  <2>0. layouts[view[call.lb]].leader \in Node
    BY <1>1, <1>2, <1>4, SeenIs, LayoutFields DEF Writable
  <2>1. call' = [call EXCEPT !.stage = "sent", !.to = layouts[view[call.lb]].leader] /\ UNCHANGED outcome
    BY <1>4 DEF RouteSet
  <2>2. call' = [call EXCEPT !.stage = "sent", !.to = layouts[view[call.lb]].leader, !.todo = call.todo]
    BY <1>2, <2>1 DEF CallRec
  <2> QED
    BY <1>1, <1>2, <2>0, <2>1, <2>2, SendIs
<1>5. CASE ~Writable(layouts[view[call.lb]])
  BY <1>1, <1>2, <1>5, AttemptIs DEF RouteSet
<1> QED
  BY <1>4, <1>5

LEMMA RouteGetIs ==
  ASSUME Types, RouteGet
  PROVE  CallFacts
<1>1. CallTypes /\ OtherTypes /\ LayoutTypes /\ ViewTypes /\ call.op = "get"
  BY DEF Types, RouteGet
<1>2. call.lb \in LB /\ call.op # "none"
  BY <1>1 DEF CallTypes
<1>3. PICK order \in readCandidates(layouts[view[call.lb]]) :
        IF order = <<>> THEN NextAttempt
        ELSE /\ call' = [call EXCEPT !.stage = "sent", !.to = Head(order), !.todo = Tail(order)]
             /\ UNCHANGED outcome
  BY DEF RouteGet
<1>4. order \in Seq(Node)
  BY <1>1, <1>2, SeenIs, CandidatesAre
<1>5. CASE order = <<>>
  BY <1>1, <1>2, <1>3, <1>5, AttemptIs
<1>6. CASE order # <<>>
  <2>1. Head(order) \in Node /\ Tail(order) \in Seq(Node)
    BY <1>4, <1>6
  <2>2. call' = [call EXCEPT !.stage = "sent", !.to = Head(order), !.todo = Tail(order)] /\ UNCHANGED outcome
    BY <1>3, <1>6
  <2> QED
    BY <1>1, <1>2, <2>1, <2>2, SendIs
<1> QED
  BY <1>5, <1>6

----------------------------------------------------------------------------
(* What a step of a call does to the cluster: nothing, or it writes at a   *)
(* node that takes writes a value that is remembered.                      *)

QuietStep == UNCHANGED <<cluster, acked, failovers>> /\ Keeps

\* A write that is acknowledged forgets the ones before.
WriteAt(n, v) ==
  /\ TakesWrite(n) /\ Wrote(n, v) /\ v \in recent' \cup Writing' /\ UNCHANGED <<layouts, view, failovers>>
  /\ (acked' = acked /\ Keeps) \/ acked' = Epoch(n)

WriteStep == \E n \in Node, v \in Value : WriteAt(n, v)

StepOfCall == CallTypes' /\ OtherTypes' /\ (QuietStep \/ WriteStep)

LEMMA FactsSuffice ==
  ASSUME Types, CallFacts, UNCHANGED <<late, calls>>, QuietStep \/ WriteStep
  PROVE  StepOfCall
<1>1. late' = late /\ calls' = calls
  OBVIOUS
<1>2. late \subseteq Node \X Value /\ calls \in Nat
  BY DEF Types, OtherTypes
<1>3. recent' \subseteq Nat /\ answer' \in Int /\ CallTypes'
  BY DEF CallFacts
<1>4. OtherTypes'
  BY <1>1, <1>2, <1>3 DEF OtherTypes
<1> QED
  BY <1>3, <1>4 DEF StepOfCall

LEMMA QuietCall ==
  ASSUME Types, CallFacts, UNCHANGED <<late, calls>>, UNCHANGED <<cluster, failovers>>
  PROVE  StepOfCall
<1>1. QuietStep
  BY DEF QuietStep, CallFacts
<1> QED
  BY <1>1, FactsSuffice

\* A write is sent to a node.
LEMMA SentSet ==
  ASSUME CallTypes, call.op = "set", call.stage = "sent"
  PROVE  call.to \in Node /\ call.value \in Value /\ call.op # "none" /\ call.value \in Writing
  BY CallFields DEF CallTypes, Value, Writing

LEMMA ServeSetIs ==
  ASSUME Types, ServeSet
  PROVE  StepOfCall
<1>1. /\ CallTypes /\ OtherTypes /\ call.op = "set" /\ call.stage = "sent"
      /\ UNCHANGED <<layouts, view, late, failovers, calls>>
  BY DEF Types, ServeSet
<1>2. call.to \in Node /\ call.value \in Value /\ call.op # "none"
  BY <1>1, SentSet
<1>3. CASE TakesWrite(call.to)
  <2>1. /\ Wrote(call.to, call.value) /\ call' = NoCall /\ recent' = {call.value} /\ answer' = NoAnswer
        /\ acked' = Epoch(call.to)
    BY <1>1, <1>3 DEF ServeSet, Return, Epoch
  <2>2. CallTypes'
    BY <2>1, NoCallIs DEF CallTypes
  <2>3. answer' \in Int /\ recent' \subseteq Nat
    BY <1>2, <2>1 DEF NoAnswer, Value
  <2>4. late \subseteq Node \X Value /\ calls \in Nat
    BY <1>1 DEF OtherTypes
  <2>5. OtherTypes'
    BY <1>1, <2>3, <2>4 DEF OtherTypes
  <2>6. WriteAt(call.to, call.value)
    BY <1>1, <1>3, <2>1 DEF WriteAt
  <2>7. WriteStep
    BY <1>2, <2>6 DEF WriteStep
  <2> QED
    BY <2>2, <2>5, <2>7 DEF StepOfCall
<1>4. CASE ~TakesWrite(call.to)
  <2>1. UNCHANGED rep /\ NextAttempt
    BY <1>4 DEF ServeSet
  <2>2. CallFacts
    BY <1>1, <1>2, <2>1, AttemptIs
  <2>3. UNCHANGED <<cluster, failovers>>
    BY <1>1, <2>1 DEF cluster
  <2> QED
    BY <1>1, <2>2, <2>3, QuietCall
<1> QED
  BY <1>3, <1>4

LEMMA CheckGetIs ==
  ASSUME Types, CheckGet
  PROVE  StepOfCall
<1>1. /\ CallTypes /\ OtherTypes /\ call.op = "get" /\ call.stage = "sent"
      /\ UNCHANGED <<cluster, late, failovers, calls>>
  BY DEF Types, CheckGet
<1>2. call.op # "none" /\ call.to \in Node /\ call \in CallRec /\ call.lb \in LB
  BY <1>1 DEF CallTypes
<1>3. CASE ServesRead(call.to)
  <2>1. call' = [call EXCEPT !.stage = "reading"] /\ UNCHANGED outcome
    BY <1>3 DEF CheckGet
  <2>2. call' \in CallRec /\ call'.op = call.op /\ call'.value = call.value /\ call'.to = call.to /\ call'.lb = call.lb
    BY <1>2, <2>1 DEF CallRec
  <2>3. CallTypes'
    BY <1>1, <1>2, <2>2 DEF CallTypes
  <2>4. CallFacts
    BY <1>1, <2>1, <2>2, <2>3, GoesOnIs DEF GoesOn
  <2> QED
    BY <1>1, <2>4, QuietCall
<1>4. CASE ~ServesRead(call.to)
  <2>1. NextCandidate
    BY <1>4 DEF CheckGet
  <2>2. CallFacts
    BY <1>1, <1>2, <2>1, CandidateIs
  <2> QED
    BY <1>1, <2>2, QuietCall
<1> QED
  BY <1>3, <1>4

LEMMA ValueIs ==
  ASSUME NEW log \in Seq(Value)
  PROVE  ValueOf(log) \in Int
<1>1. CASE log = <<>>
  BY <1>1 DEF ValueOf
<1>2. CASE log # <<>>
  <2>1. ValueOf(log) = log[Len(log)]
    BY <1>2 DEF ValueOf, Last
  <2>2. Len(log) \in 1..Len(log)
    BY <1>2
  <2>3. log[Len(log)] \in Value
    BY <2>2
  <2> QED
    BY <2>1, <2>3 DEF Value
<1> QED
  BY <1>1, <1>2

LEMMA ReadGetIs ==
  ASSUME Types, ReadGet
  PROVE  StepOfCall
<1>1. /\ CallTypes /\ OtherTypes /\ call.op = "get" /\ call.stage = "reading"
      /\ UNCHANGED <<cluster, late, failovers, calls>>
  BY DEF Types, ReadGet
<1>2. call.op # "none" /\ call.to \in Node /\ RepTypes
  BY <1>1 DEF CallTypes, Types
<1>3. CASE NextCandidate
  <2>1. CallFacts
    BY <1>1, <1>2, <1>3, CandidateIs
  <2> QED
    BY <1>1, <2>1, QuietCall
<1>4. CASE Return(ValueOf(rep[call.to].log))
  <2>1. call' = NoCall /\ recent' = recent /\ acked' = acked /\ answer' = ValueOf(rep[call.to].log)
    BY <1>1, <1>4 DEF Return
  <2>2. CallTypes'
    BY <2>1, NoCallIs DEF CallTypes
  <2>3. rep[call.to].log \in Seq(Value)
    BY <1>2, ReplicaIs
  <2>4. answer' \in Int
    BY <2>1, <2>3, ValueIs
  <2>5. late \subseteq Node \X Value /\ calls \in Nat /\ recent \subseteq Nat
    BY <1>1 DEF OtherTypes
  <2>6. OtherTypes'
    BY <1>1, <2>1, <2>4, <2>5 DEF OtherTypes
  <2>7. Keeps
    BY <1>1, <2>1 DEF Keeps, Writing
  <2> QED
    BY <1>1, <2>1, <2>2, <2>6, <2>7 DEF StepOfCall, QuietStep
<1> QED
  BY <1>3, <1>4 DEF ReadGet

LEMMA LoseRequestIs ==
  ASSUME Types, LoseRequest
  PROVE  StepOfCall
<1>1. CallTypes /\ OtherTypes /\ call.stage = "sent" /\ UNCHANGED <<cluster, late, failovers, calls>>
  BY DEF Types, LoseRequest
<1>2. call.op # "none"
  BY <1>1 DEF CallTypes
<1>3. NextCandidate \/ NextAttempt \/ NextTry
  BY DEF LoseRequest
<1>4. CallFacts
  BY <1>1, <1>2, <1>3, CandidateIs, AttemptIs, TryIs
<1> QED
  BY <1>1, <1>4, QuietCall

LEMMA LoseAnswerIs ==
  ASSUME Types, LoseAnswer
  PROVE  StepOfCall
<1>1. /\ CallTypes /\ OtherTypes /\ call.op = "set" /\ call.stage = "sent"
      /\ UNCHANGED <<layouts, view, late, failovers, calls>>
      /\ TakesWrite(call.to) /\ Wrote(call.to, call.value) /\ (NextAttempt \/ NextTry)
  BY DEF Types, LoseAnswer
<1>2. call.to \in Node /\ call.value \in Value /\ call.op # "none" /\ call.value \in Writing
  BY <1>1, SentSet
<1>3. CallFacts
  BY <1>1, <1>2, AttemptIs, TryIs
<1>4. call.value \in recent' \cup Writing' /\ acked' = acked /\ Keeps
  BY <1>2, <1>3 DEF CallFacts, Keeps
<1>5. WriteAt(call.to, call.value)
  BY <1>1, <1>4 DEF WriteAt
<1>6. WriteStep
  BY <1>2, <1>5 DEF WriteStep
<1> QED
  BY <1>1, <1>3, <1>6, FactsSuffice

LEMMA OvertakeIs ==
  ASSUME Types, Overtake
  PROVE  StepOfCall
<1>1. /\ CallTypes /\ OtherTypes /\ call.op = "set" /\ call.stage = "sent" /\ UNCHANGED <<cluster, failovers, calls>>
      /\ late' = late \cup {<<call.to, call.value>>} /\ (NextAttempt \/ NextTry)
  BY DEF Types, Overtake
<1>2. call.to \in Node /\ call.value \in Value /\ call.op # "none"
  BY <1>1, SentSet
<1>3. CallFacts
  BY <1>1, <1>2, AttemptIs, TryIs
<1>4. late' \subseteq Node \X Value /\ calls' \in Nat
  BY <1>1, <1>2 DEF OtherTypes
<1>5. recent' \subseteq Nat /\ answer' \in Int /\ CallTypes' /\ Keeps /\ acked' = acked
  BY <1>3 DEF CallFacts
<1>6. OtherTypes'
  BY <1>4, <1>5 DEF OtherTypes
<1> QED
  BY <1>1, <1>5, <1>6 DEF StepOfCall, QuietStep

LEMMA ServeLateIs ==
  ASSUME Types, ServeLate
  PROVE  StepOfCall
<1>1. CallTypes /\ OtherTypes /\ UNCHANGED <<layouts, view, call, answer, acked, failovers, calls>>
  BY DEF Types, ServeLate
<1>2. PICK w \in late :
        /\ late' = late \ {w}
        /\ IF TakesWrite(w[1]) THEN Wrote(w[1], w[2]) /\ recent' = recent \cup {w[2]}
           ELSE UNCHANGED <<rep, recent>>
  BY DEF ServeLate
<1>3. w[1] \in Node /\ w[2] \in Value /\ late' \subseteq Node \X Value /\ recent \subseteq Nat
  BY <1>1, <1>2 DEF OtherTypes
<1>4. CallTypes' /\ Writing' = Writing /\ answer' \in Int /\ calls' \in Nat
  BY <1>1 DEF CallTypes, Writing, OtherTypes
<1>5. CASE TakesWrite(w[1])
  <2>1. Wrote(w[1], w[2]) /\ recent' = recent \cup {w[2]}
    BY <1>2, <1>5
  <2>2. recent' \subseteq Nat
    BY <1>3, <2>1 DEF Value
  <2>3. Keeps
    BY <1>4, <2>1 DEF Keeps
  <2>4. WriteAt(w[1], w[2])
    BY <1>1, <1>5, <2>1, <2>3 DEF WriteAt
  <2>5. WriteStep
    BY <1>3, <2>4 DEF WriteStep
  <2> QED
    BY <1>3, <1>4, <2>2, <2>5 DEF StepOfCall, OtherTypes
<1>6. CASE ~TakesWrite(w[1])
  <2>1. rep' = rep /\ recent' = recent
    BY <1>2, <1>6
  <2>2. UNCHANGED <<cluster, acked, failovers>>
    BY <1>1, <2>1 DEF cluster
  <2>3. Keeps
    BY <1>4, <2>1 DEF Keeps
  <2> QED
    BY <1>3, <1>4, <2>1, <2>2, <2>3 DEF StepOfCall, OtherTypes, QuietStep
<1> QED
  BY <1>5, <1>6

LEMMA BeginStep ==
  ASSUME Types, NEW op \in {"set", "get"}, NEW b \in LB, Begin(op, b)
  PROVE  StepOfCall
<1>1. CallFacts /\ calls' \in Nat
  BY BeginIs
<1>2. UNCHANGED <<cluster, acked, failovers>> /\ late' = late
  BY DEF Begin
<1>3. late \subseteq Node \X Value
  BY DEF Types, OtherTypes
<1>4. recent' \subseteq Nat /\ answer' \in Int /\ CallTypes' /\ Keeps
  BY <1>1 DEF CallFacts
<1>5. OtherTypes'
  BY <1>1, <1>2, <1>3, <1>4 DEF OtherTypes
<1> QED
  BY <1>2, <1>4, <1>5 DEF StepOfCall, QuietStep

LEMMA RouteStep ==
  ASSUME Types, RouteSet \/ RouteGet
  PROVE  StepOfCall
<1>1. CallFacts
  BY RouteSetIs, RouteGetIs
<1>2. UNCHANGED <<cluster, late, failovers, calls>>
  BY DEF RouteSet, RouteGet
<1> QED
  BY <1>1, <1>2, QuietCall

----------------------------------------------------------------------------
(* The cluster.  A step that is not a write leaves the leader's log alone, *)
(* as long as there is no failover.                                        *)

LogKept == Settled' => Settled /\ rep'[Latest'.leader].log = rep[Latest.leader].log

\* An epoch has one leader, and the present one is the latest.
LEMMA OneLeader ==
  ASSUME LayoutTypes, RepTypes, ViewTypes, Order
  PROVE  /\ \A i \in Version : /\ layouts[i].epoch <= Latest.epoch
                               /\ layouts[i].epoch = Latest.epoch => Latest.leader \in {layouts[i].leader, NoNode}
         /\ \A i, j \in Version : i <= j =>
              /\ layouts[i].epoch <= layouts[j].epoch
              /\ layouts[i].epoch = layouts[j].epoch => layouts[j].leader \in {layouts[i].leader, NoNode}
         /\ Held(Latest)
<1>1. \A i, j \in Version : i <= j =>
        /\ layouts[i].epoch <= layouts[j].epoch
        /\ layouts[i].epoch = layouts[j].epoch => layouts[j].leader \in {layouts[i].leader, NoNode}
  BY DEF Order, Precedes
<1>2. Len(layouts) \in Version /\ Latest = layouts[Len(layouts)] /\ \A i \in Version : i <= Len(layouts)
  BY LatestIs
<1> QED
  BY <1>1, <1>2 DEF Order

\* The types of everything in reach.
LEMMA Basics ==
  ASSUME ClusterInv
  PROVE  /\ LayoutTypes /\ RepTypes /\ ViewTypes /\ Order /\ Replicas
         /\ Latest.leader \in Node \cup {NoNode} /\ Latest.epoch \in Nat /\ Latest.handoff \in Nat
         /\ Latest.followers \subseteq Node /\ Latest.members \subseteq Node /\ Latest.to \in Node \cup {NoNode}
         /\ Latest \in LayoutRec /\ Len(layouts) \in Version /\ Latest = layouts[Len(layouts)]
         /\ acked \in Nat /\ failovers \subseteq Nat /\ acked <= Latest.epoch
         /\ \A i \in Version : /\ i \in Nat /\ i <= Len(layouts) /\ layouts[i].epoch \in Nat
                               /\ layouts[i].epoch <= Latest.epoch
         /\ \A n \in Node : /\ view[n] \in Version /\ view[n] \in Nat /\ Epoch(n) \in Nat /\ Epoch(n) <= Latest.epoch
                            /\ rep[n] \in RepRec /\ rep[n].dataEpoch \in Nat
                            /\ rep[n].role \in {"none", "follower", "leader"} /\ n # NoNode
<1>1. LayoutTypes /\ RepTypes /\ ViewTypes /\ Order /\ Replicas /\ acked \in Nat /\ failovers \subseteq Nat
      /\ acked <= Latest.epoch
  BY DEF ClusterInv, GhostTypes, AckedLed
<1>2. /\ Latest.leader \in Node \cup {NoNode} /\ Latest.epoch \in Nat /\ Latest.handoff \in Nat
      /\ Latest.followers \subseteq Node /\ Latest.members \subseteq Node /\ Latest.to \in Node \cup {NoNode}
  BY <1>1, ClusterIs
<1>3. /\ Latest \in LayoutRec /\ Len(layouts) \in Version /\ Latest = layouts[Len(layouts)]
      /\ \A i \in Version : i \in Nat /\ i <= Len(layouts)
  BY <1>1, LatestIs
<1>4. \A i \in Version : layouts[i].epoch \in Nat /\ layouts[i].epoch <= Latest.epoch
  BY <1>1, ClusterIs, OneLeader
<1>5. \A n \in Node : view[n] \in Version /\ view[n] \in Nat /\ Epoch(n) \in Nat
  BY <1>1, ClusterIs
<1>6. \A n \in Node : Epoch(n) <= Latest.epoch
  BY <1>4, <1>5 DEF Epoch
<1>7. \A n \in Node : /\ rep[n] \in RepRec /\ rep[n].dataEpoch \in Nat
                      /\ rep[n].role \in {"none", "follower", "leader"}
  BY <1>1, ReplicaIs
<1>8. \A n \in Node : n # NoNode
  BY RequestsNodes
<1> QED
  BY <1>1, <1>2, <1>3, <1>4, <1>5, <1>6, <1>7, <1>8

\* What holds of one node.
LEMMA OfNode ==
  ASSUME ClusterInv, NEW n \in Node
  PROVE  Leads(n) /\ HasData(n) /\ EndsSealed(n) /\ Stays(n)
  BY DEF ClusterInv, Replicas

\* Only one node leads the present epoch.
LEMMA LeaderNow ==
  ASSUME ClusterInv, NEW n \in Node, rep[n].role = "leader", Epoch(n) = Latest.epoch
  PROVE  Latest.leader \in {n, NoNode}
<1>1. layouts[view[n]].leader = n /\ view[n] \in Version
  BY OfNode, Basics DEF Leads
<1> QED
  BY <1>1, Basics, OneLeader DEF Epoch

\* A node that takes writes in an epoch that has ended lost it in a failover.
LEMMA StaleWriter ==
  ASSUME ClusterInv, NEW n \in Node, TakesWrite(n), Epoch(n) < Latest.epoch
  PROVE  Epoch(n) + 1 \in failovers
<1> SUFFICES ASSUME Epoch(n) + 1 \notin failovers PROVE FALSE
  OBVIOUS
<1>1. layouts[view[n]].leader = n /\ rep[n].role = "leader" /\ ~rep[n].sealed
  BY DEF TakesWrite
<1>2. view[n] \in Version /\ view[n] \in Nat
  BY Basics
<1>3. Registered(n) /\ Handed(n, view[n])
  BY <1>1, <1>2 DEF Registered, Handed, Epoch
<1>4. layouts[view[n]].handoff # 0
  BY <1>2, <1>3, OfNode DEF EndsSealed
<1>5. rep[n].sealed = (layouts[view[n]].handoff # 0)
  BY <1>1, OfNode DEF Leads
<1> QED
  BY <1>1, <1>4, <1>5

\* The leader after handoffs only, or of an epoch with an acknowledged write, is up
\* unless it has died.
LEMMA SettledLeads ==
  ASSUME ClusterInv, Undisturbed, Latest.leader # NoNode, Registered(Latest.leader)
  PROVE  \/ LeadsNow(Latest.leader)
         \/ acked < Latest.epoch /\ Latest.epoch \notin failovers /\ Waits(Latest.leader)
<1>1. acked \in Nat /\ Latest.epoch \in Nat /\ acked <= Latest.epoch
  BY Basics
<1>2. CASE acked = Latest.epoch
  BY <1>2 DEF ClusterInv, AckedLed
<1>3. CASE acked < Latest.epoch
  <2>1. Latest.epoch \notin failovers
    BY <1>1, <1>3 DEF Undisturbed
  <2> QED
    BY <1>3, <2>1 DEF ClusterInv, Promised
<1> QED
  BY <1>1, <1>2, <1>3

LEMMA OrderStays ==
  ASSUME Order, layouts' = layouts
  PROVE  Order'
  BY DEF Order, HandoffLasts, Version, Precedes, Latest, Held

LEMMA LayoutsStay ==
  ASSUME LayoutTypes, layouts' = layouts
  PROVE  LayoutTypes' /\ Latest' = Latest /\ Version' = Version
  BY DEF LayoutTypes, Latest, Version

\* What a step does not change at a node still holds.
LEMMA NodeStays ==
  ASSUME NEW n \in Node, layouts' = layouts, view'[n] = view[n], failovers' = failovers, rep'[n].role = rep[n].role,
         rep'[n].sealed = rep[n].sealed, rep'[n].synced = rep[n].synced, rep'[n].dataEpoch = rep[n].dataEpoch,
         Leads(n), HasData(n), EndsSealed(n), Stays(n)
  PROVE  Leads(n)' /\ HasData(n)' /\ EndsSealed(n)' /\ Stays(n)'
<1>1. Leads(n)'
  BY DEF Leads, Epoch
<1>2. HasData(n)'
  BY DEF HasData, Epoch
<1>3. EndsSealed(n)' /\ Stays(n)'
  BY DEF EndsSealed, Stays, Handed, Registered, Epoch, Latest, Version
<1> QED
  BY <1>1, <1>2, <1>3

----------------------------------------------------------------------------
(* A write.                                                                *)

LEMMA WriteIs ==
  ASSUME ClusterInv, LeaderHasLast, NEW n \in Node, NEW v \in Value, WriteAt(n, v)
  PROVE  ClusterInv' /\ LeaderHasLast'
<1>1. LayoutTypes /\ RepTypes /\ ViewTypes /\ Order /\ Replicas
  BY Basics
<1>2. /\ layouts' = layouts /\ view' = view /\ failovers' = failovers
      /\ TakesWrite(n) /\ rep' = [rep EXCEPT ![n].log = Append(@, v)]
      /\ (acked' = acked /\ Keeps) \/ acked' = Epoch(n)
      /\ v \in recent' \cup Writing'
  BY DEF WriteAt, Wrote
<1>3. rep[n].role = "leader"
  BY <1>2 DEF TakesWrite
<1>4. rep[n].log \in Seq(Value)
  BY <1>1, ReplicaIs
<1>5. PICK log : log = Append(rep[n].log, v)
  OBVIOUS
<1>6. log \in Seq(Value) /\ log # <<>> /\ Last(log) = v
  BY <1>4, <1>5 DEF Last
<1>7. rep' = [rep EXCEPT ![n] = [rep[n] EXCEPT !.log = log]]
  BY <1>1, <1>2, <1>5 DEF RepTypes
<1>8. RepTypes'
  BY <1>1, <1>6, <1>7 DEF RepTypes, RepRec
<1>9. rep'[n].log = log /\ ValueOf(rep'[n].log) = v
  BY <1>1, <1>6, <1>7 DEF RepTypes, RepRec, ValueOf
<1>10. \A m \in Node : /\ rep'[m].role = rep[m].role /\ rep'[m].sealed = rep[m].sealed
                       /\ rep'[m].synced = rep[m].synced /\ rep'[m].dataEpoch = rep[m].dataEpoch
                       /\ m # n => rep'[m] = rep[m]
  <2> SUFFICES ASSUME NEW m \in Node
               PROVE  /\ rep'[m].role = rep[m].role /\ rep'[m].sealed = rep[m].sealed
                      /\ rep'[m].synced = rep[m].synced /\ rep'[m].dataEpoch = rep[m].dataEpoch
                      /\ m # n => rep'[m] = rep[m]
    OBVIOUS
  <2>1. rep[n] \in RepRec
    BY <1>1, ReplicaIs
  <2>2. CASE m = n
    <3>1. rep'[m] = [rep[n] EXCEPT !.log = log]
      BY <1>1, <1>7, <2>2 DEF RepTypes
    <3> QED
      BY <2>1, <2>2, <3>1 DEF RepRec
  <2>3. CASE m # n
    BY <1>1, <1>7, <2>3 DEF RepTypes
  <2> QED
    BY <2>2, <2>3
<1>11. LayoutTypes' /\ Latest' = Latest /\ Version' = Version /\ Order'
  BY <1>1, <1>2, LayoutsStay, OrderStays
<1>12. ViewTypes'
  BY <1>1, <1>2, <1>11 DEF ViewTypes
<1>13. GhostTypes' /\ acked' <= Latest.epoch
  <2>1. acked \in Nat /\ acked <= Latest.epoch /\ failovers \subseteq Nat /\ Epoch(n) \in Nat /\ Epoch(n) <= Latest.epoch
    BY Basics
  <2> QED
    BY <1>2, <2>1 DEF GhostTypes
<1>14. Replicas'
  <2> SUFFICES ASSUME NEW m \in Node PROVE Leads(m)' /\ HasData(m)' /\ EndsSealed(m)' /\ Stays(m)'
    BY DEF Replicas
  <2>1. Leads(m) /\ HasData(m) /\ EndsSealed(m) /\ Stays(m)
    BY OfNode
  <2> QED
    BY <1>2, <1>10, <2>1, NodeStays
<1>15. \A m \in Node : /\ Epoch(m)' = Epoch(m) /\ Registered(m)' = Registered(m) /\ LeadsNow(m)' = LeadsNow(m)
  BY <1>2, <1>10, <1>11 DEF Epoch, Registered, LeadsNow
<1>16. /\ Latest.leader \in Node \cup {NoNode} /\ Latest.epoch \in Nat /\ Epoch(n) \in Nat /\ Epoch(n) <= Latest.epoch
       /\ acked \in Nat
  BY Basics
<1>17. ASSUME Epoch(n) < Latest.epoch PROVE Epoch(n) + 1 \in failovers
  BY <1>2, <1>17, StaleWriter
<1>18. Promised'
  <2> SUFFICES ASSUME NEW m \in Node, m = Latest.leader, Latest.epoch \notin failovers, Registered(m), Waits(m),
                      ~LeadsNow(m)
               PROVE  Waits(m)'
    BY <1>1, <1>2, <1>11, <1>15, <1>16, RequestsNodes DEF Promised, ClusterInv
  <2>1. m # n /\ rep'[m] = rep[m] /\ rep[m].dataEpoch + 1 = Latest.epoch /\ rep[m].dataEpoch \in Nat
    BY <1>3, <1>10, Basics DEF Waits
  <2>2. Epoch(n) # rep[m].dataEpoch
    BY <1>16, <1>17, <2>1
  <2>3. \A k \in Node : rep'[k].role = "leader" /\ Epoch(k)' = rep'[m].dataEpoch => rep'[k].log = rep'[m].log
    BY <1>10, <1>15, <2>1, <2>2 DEF Waits
  <2> QED
    BY <1>11, <2>1, <2>3 DEF Waits
<1>19. AckedLed'
  <2> SUFFICES ASSUME acked' = Latest.epoch, Latest.leader # NoNode, Registered(Latest.leader)
               PROVE  LeadsNow(Latest.leader)
    BY <1>11, <1>13, <1>15, <1>16 DEF AckedLed
  <2>1. CASE acked' = acked
    BY <2>1 DEF ClusterInv, AckedLed
  <2>2. CASE acked' = Epoch(n)
    <3>1. Latest.leader = n
      BY <1>3, <2>2, LeaderNow
    <3> QED
      BY <1>3, <2>2, <3>1 DEF LeadsNow
  <2> QED
    BY <1>2, <2>1, <2>2
<1>20. LeaderHasLast'
  <2> SUFFICES ASSUME Settled' PROVE ValueOf(rep'[Latest.leader].log) \in recent' \cup Writing'
    BY <1>11 DEF LeaderHasLast
  <2>1. Latest.leader \in Node /\ Undisturbed' /\ rep[Latest.leader].role # "none"
    BY <1>10, <1>11, <1>16 DEF Settled
  <2>2. CASE Latest.leader = n
    BY <1>2, <1>9, <2>2
  <2>3. CASE Latest.leader # n /\ acked' = acked /\ Keeps
    <3>1. Settled
      BY <1>2, <1>11, <2>1, <2>3 DEF Settled, Undisturbed
    <3> QED
      BY <1>10, <2>1, <2>3, <3>1 DEF LeaderHasLast, Keeps
  <2>4. CASE Latest.leader # n /\ acked' = Epoch(n)
    <3>1. Epoch(n) # Latest.epoch
      BY <1>3, <2>1, <2>4, LeaderNow, RequestsNodes
    <3>2. Epoch(n) + 1 \in failovers'
      BY <1>2, <1>16, <1>17, <3>1
    <3> QED
      BY <1>16, <2>1, <2>4, <3>2 DEF Undisturbed
  <2> QED
    BY <1>2, <2>2, <2>3, <2>4
<1> QED
  BY <1>8, <1>11, <1>12, <1>13, <1>14, <1>18, <1>19, <1>20 DEF ClusterInv

----------------------------------------------------------------------------
(* A step that changes the replica of one node, or its view.               *)

\* The step keeps the layouts and all but what n has and sees.
OnlyAt(n) ==
  /\ layouts' = layouts /\ acked' = acked /\ failovers' = failovers
  /\ \A m \in Node \ {n} : rep'[m] = rep[m] /\ view'[m] = view[m]

\* The other nodes keep their part of the invariant.
LEMMA OthersStay ==
  ASSUME ClusterInv, NEW n \in Node, OnlyAt(n), RepTypes', ViewTypes',
         Leads(n)', HasData(n)', EndsSealed(n)', Stays(n)', Promised', AckedLed'
  PROVE  ClusterInv'
<1>1. LayoutTypes /\ Order /\ Replicas /\ layouts' = layouts /\ failovers' = failovers /\ acked' = acked
  BY DEF ClusterInv, OnlyAt
<1>2. LayoutTypes' /\ Order'
  BY <1>1, LayoutsStay, OrderStays
<1>3. GhostTypes'
  BY <1>1 DEF ClusterInv, GhostTypes
<1>4. \A m \in Node \ {n} : Leads(m)' /\ HasData(m)' /\ EndsSealed(m)' /\ Stays(m)'
  <2> SUFFICES ASSUME NEW m \in Node \ {n}
               PROVE  Leads(m)' /\ HasData(m)' /\ EndsSealed(m)' /\ Stays(m)'
    OBVIOUS
  <2>1. rep'[m] = rep[m] /\ view'[m] = view[m] /\ m \in Node
    BY DEF OnlyAt
  <2>2. Leads(m) /\ HasData(m) /\ EndsSealed(m) /\ Stays(m)
    BY <2>1, OfNode
  <2> QED
    BY <1>1, <2>1, <2>2, NodeStays
<1> QED
  BY <1>2, <1>3, <1>4 DEF ClusterInv, Replicas

\* A node other than the leader cannot break what holds of the leader, unless it
\* comes to lead the epoch before with another log.
LEMMA NotTheLeader ==
  ASSUME ClusterInv, NEW n \in Node, n # Latest.leader, OnlyAt(n),
         rep'[n].role = "leader" /\ Epoch(n)' + 1 = Latest.epoch /\ Latest.epoch \notin failovers =>
           rep[n].role = "leader" /\ Epoch(n) = Epoch(n)' /\ rep'[n].log = rep[n].log
  PROVE  Promised' /\ AckedLed' /\ LogKept
<1>1. Latest' = Latest /\ layouts' = layouts /\ acked' = acked /\ failovers' = failovers
  BY Basics, LayoutsStay DEF OnlyAt
<1>2. Latest.leader \in Node \cup {NoNode} /\ acked <= Latest.epoch
  BY Basics
<1>3. \A m \in Node \ {n} : rep'[m] = rep[m] /\ Epoch(m)' = Epoch(m) /\ Registered(m)' = Registered(m)
  BY <1>1 DEF OnlyAt, Epoch, Registered
<1>4. CASE Latest.leader = NoNode
  BY <1>1, <1>2, <1>4 DEF Promised, AckedLed, LogKept, Settled
<1>5. CASE Latest.leader # NoNode
  <2>1. PICK m \in Node \ {n} : m = Latest.leader
    BY <1>2, <1>5
  <2>2. rep'[m] = rep[m] /\ Epoch(m)' = Epoch(m) /\ Registered(m)' = Registered(m)
    BY <1>3
  <2>3. LeadsNow(m)' = LeadsNow(m)
    BY <1>1, <2>2 DEF LeadsNow
  <2>4. ASSUME Waits(m), Latest.epoch \notin failovers PROVE Waits(m)'
    <3>1. /\ rep[m].role = "follower" /\ rep[m].synced /\ rep[m].dataEpoch + 1 = Latest.epoch
          /\ \A k \in Node : rep[k].role = "leader" /\ Epoch(k) = rep[m].dataEpoch => rep[k].log = rep[m].log
      BY <2>4 DEF Waits
    <3>2. \A k \in Node : rep'[k].role = "leader" /\ Epoch(k)' = rep'[m].dataEpoch => rep'[k].log = rep'[m].log
      <4> SUFFICES ASSUME NEW k \in Node, rep'[k].role = "leader", Epoch(k)' = rep'[m].dataEpoch
                   PROVE  rep'[k].log = rep'[m].log
        OBVIOUS
      <4>1. CASE k # n
        BY <1>3, <2>2, <3>1, <4>1
      <4>2. CASE k = n
        <5>1. rep[n].role = "leader" /\ Epoch(n) = Epoch(n)' /\ rep'[n].log = rep[n].log
          BY <2>2, <2>4, <3>1, <4>2
        <5> QED
          BY <2>2, <3>1, <4>2, <5>1
      <4> QED
        BY <4>1, <4>2
    <3> QED
      BY <1>1, <2>2, <3>1, <3>2 DEF Waits
  <2>5. Promised'
    BY <1>1, <2>1, <2>2, <2>3, <2>4 DEF Promised, ClusterInv
  <2>6. AckedLed'
    BY <1>1, <1>2, <2>1, <2>2, <2>3 DEF AckedLed, ClusterInv
  <2>7. LogKept
    BY <1>1, <2>1, <2>2 DEF LogKept, Settled, Undisturbed
  <2> QED
    BY <2>5, <2>6, <2>7
<1> QED
  BY <1>4, <1>5

\* After a failover in whose epoch nothing has been acknowledged, nothing is
\* promised of the leader.
LEMMA NothingPromised ==
  ASSUME ClusterInv, NEW n \in Node, n = Latest.leader, OnlyAt(n), Latest.epoch \in failovers, acked # Latest.epoch
  PROVE  Promised' /\ AckedLed' /\ LogKept
<1>1. Latest' = Latest /\ layouts' = layouts /\ acked' = acked /\ failovers' = failovers
  BY Basics, LayoutsStay DEF OnlyAt
<1>2. acked <= Latest.epoch /\ acked \in Nat /\ Latest.epoch \in Nat
  BY Basics
<1>3. ~(Latest.epoch <= acked)
  BY <1>2
<1>4. ~Undisturbed'
  BY <1>1, <1>3 DEF Undisturbed
<1> QED
  BY <1>1, <1>2, <1>4 DEF Promised, AckedLed, LogKept, Settled

LEMMA EmptyIs ==
  ASSUME NEW role \in {"none", "follower"}
  PROVE  /\ Empty(role) \in RepRec /\ Empty(role).role = role /\ Empty(role).dataEpoch = 0
         /\ Empty(role).synced = FALSE
<1>1. <<>> \in Seq(Value)
  OBVIOUS
<1> QED
  BY <1>1 DEF Empty, RepRec

\* A follower gets other data, from the leader it follows or none: that is not one
\* that waits to lead.
LEMMA FollowerChanges ==
  ASSUME ClusterInv, NEW m \in Node, NEW n, n = layouts[view[m]].leader, Following(m, n), Behind(m, n),
         UNCHANGED <<layouts, view, acked, failovers>>,
         NEW r \in RepRec, rep' = [rep EXCEPT ![m] = r], r.role = "follower", r.dataEpoch <= Epoch(m)
  PROVE  ClusterInv' /\ LogKept
<1>1. LayoutTypes /\ RepTypes /\ ViewTypes /\ Order /\ Replicas
  BY Basics
<1>2. RepTypes' /\ rep'[m] = r /\ \A k \in Node \ {m} : rep'[k] = rep[k]
  BY <1>1 DEF RepTypes
<1>3. Latest' = Latest /\ Version' = Version
  BY <1>1, LayoutsStay
<1>4. ViewTypes' /\ OnlyAt(m)
  BY <1>1, <1>2, <1>3 DEF ViewTypes, OnlyAt
<1>5. rep[m].role = "follower" /\ rep[n].role = "leader" /\ Epoch(n) = Epoch(m) /\ n \in Node
  BY <1>1, ClusterIs, Basics DEF Following
<1>6. Leads(m) /\ HasData(m) /\ EndsSealed(m) /\ Stays(m)
  BY OfNode
<1>7. Leads(m)' /\ HasData(m)'
  BY <1>2, <1>5, <1>6 DEF Leads, HasData, Epoch
<1>8. EndsSealed(m)' /\ Stays(m)'
  BY <1>2, <1>3, <1>5, <1>6 DEF EndsSealed, Stays, Registered, Handed, Epoch
<1>9. Promised' /\ AckedLed' /\ LogKept
  <2>1. CASE m # Latest.leader
    BY <1>2, <1>4, <2>1, NotTheLeader
  <2>2. CASE m = Latest.leader
    <3>1. Registered(m) /\ Latest.leader # NoNode /\ ~LeadsNow(m)
      BY <1>5, <2>2, Basics DEF Registered, LeadsNow
    <3>2. acked # Latest.epoch
      BY <2>2, <3>1 DEF ClusterInv, AckedLed
    <3>3. Latest.epoch \in failovers
      <4> SUFFICES ASSUME Latest.epoch \notin failovers PROVE FALSE
        OBVIOUS
      <4>1. Waits(m)
        BY <2>2, <3>1 DEF ClusterInv, Promised
      <4>2. /\ rep[m].dataEpoch + 1 = Latest.epoch
            /\ Epoch(n) = rep[m].dataEpoch => rep[n].log = rep[m].log
        BY <1>5, <4>1 DEF Waits
      <4>3. Epoch(m) # Latest.epoch
        <5>1. layouts[view[n]].leader = n
          BY <1>5, OfNode DEF Leads
        <5>2. n # m
          BY <1>5
        <5> QED
          BY <1>5, <2>2, <3>1, <5>2, LeaderNow
      <4>4. rep[m].dataEpoch <= Epoch(m) /\ rep[m].dataEpoch \in Nat /\ Epoch(m) \in Nat /\ Epoch(m) <= Latest.epoch
        BY <1>6, Basics DEF HasData
      <4>5. Epoch(n) = rep[m].dataEpoch
        BY <1>5, <4>2, <4>3, <4>4
      <4> QED
        BY <4>2, <4>5 DEF Behind
    <3> QED
      BY <1>4, <2>2, <3>2, <3>3, NothingPromised
  <2> QED
    BY <2>1, <2>2
<1> QED
  BY <1>2, <1>4, <1>7, <1>8, <1>9, OthersStay

LEMMA ReplicateIs ==
  ASSUME ClusterInv, NEW m \in Node, Replicate(m)
  PROVE  ClusterInv' /\ LogKept
<1>1. LayoutTypes /\ RepTypes /\ ViewTypes /\ Order /\ Replicas
  BY Basics
<1>2. PICK n : n = layouts[view[m]].leader
  OBVIOUS
<1>3. /\ Following(m, n) /\ Behind(m, n) /\ UNCHANGED <<layouts, view, acked, failovers>>
      /\ rep' = [rep EXCEPT ![m].synced = TRUE, ![m].dataEpoch = Epoch(n), ![m].log = rep[n].log]
  BY <1>2 DEF Replicate, NoFailover, Unaffected, outcome
<1>4. n \in Node /\ rep[m].role = "follower" /\ Epoch(n) = Epoch(m) /\ Epoch(m) \in Nat
  BY <1>1, <1>2, <1>3, ClusterIs DEF Following
<1>5. rep[n].log \in Seq(Value) /\ rep[m] \in RepRec
  BY <1>1, <1>4, ReplicaIs
<1>6. PICK r : r = [rep[m] EXCEPT !.synced = TRUE, !.dataEpoch = Epoch(n), !.log = rep[n].log]
  OBVIOUS
<1>7. rep' = [rep EXCEPT ![m] = r]
  BY <1>1, <1>3, <1>6 DEF RepTypes
<1>8. r \in RepRec /\ r.role = "follower" /\ r.dataEpoch = Epoch(m)
  BY <1>4, <1>5, <1>6 DEF RepRec
<1>9. r.dataEpoch <= Epoch(m)
  BY <1>4, <1>8
<1> QED
  BY <1>2, <1>3, <1>7, <1>8, <1>9, FollowerChanges

LEMMA StartOverIs ==
  ASSUME ClusterInv, NEW m \in Node, StartOver(m)
  PROVE  ClusterInv' /\ LogKept
<1>1. PICK n : n = layouts[view[m]].leader
  OBVIOUS
<1>2. /\ Following(m, n) /\ Behind(m, n) /\ UNCHANGED <<layouts, view, acked, failovers>>
      /\ rep' = [rep EXCEPT ![m] = Empty("follower")]
  BY <1>1 DEF StartOver, NoFailover, Unaffected, outcome
<1>3. PICK r : r = Empty("follower")
  OBVIOUS
<1>4. r \in RepRec /\ r.role = "follower" /\ r.dataEpoch = 0
  BY <1>3, EmptyIs
<1>5. r.dataEpoch <= Epoch(m)
  BY <1>4, Basics
<1> QED
  BY <1>1, <1>2, <1>3, <1>4, <1>5, FollowerChanges

\* A node dies, or drops its replica.
LEMMA GoneIs ==
  ASSUME ClusterInv, NEW n \in Node, rep[n].role # "none", UNCHANGED <<layouts, view, acked, failovers>>,
         rep' = [rep EXCEPT ![n] = Empty("none")]
  PROVE  ClusterInv' /\ LogKept
<1>1. LayoutTypes /\ RepTypes /\ ViewTypes /\ Order /\ Replicas
  BY Basics
<1>2. RepTypes' /\ rep'[n] = Empty("none") /\ \A k \in Node \ {n} : rep'[k] = rep[k]
  BY <1>1, EmptyIs DEF RepTypes
<1>3. rep'[n].role = "none" /\ ~rep'[n].synced /\ rep'[n].dataEpoch = 0
  BY <1>2, EmptyIs
<1>4. Latest' = Latest /\ Version' = Version
  BY <1>1, LayoutsStay
<1>5. ViewTypes' /\ OnlyAt(n)
  BY <1>1, <1>2, <1>4 DEF ViewTypes, OnlyAt
<1>6. n \in layouts[view[n]].members /\ Epoch(n) \in Nat /\ n # NoNode
  BY OfNode, Basics DEF HasData
<1>7. ~Registered(n)'
  BY <1>3, <1>6 DEF Registered
<1>8. Leads(n)' /\ HasData(n)' /\ EndsSealed(n)' /\ Stays(n)'
  BY <1>3, <1>6, <1>7 DEF Leads, HasData, Epoch, EndsSealed, Stays
<1>9. Promised' /\ AckedLed' /\ LogKept
  <2>1. CASE n # Latest.leader
    BY <1>3, <1>5, <2>1, NotTheLeader
  <2>2. CASE n = Latest.leader
    BY <1>3, <1>4, <1>7, <2>2, Basics DEF Promised, AckedLed, LogKept, Settled
  <2> QED
    BY <2>1, <2>2
<1> QED
  BY <1>2, <1>5, <1>8, <1>9, OthersStay

LEMMA CrashIs ==
  ASSUME ClusterInv, NEW n \in Node, Crash(n) \/ Notice(n)
  PROVE  ClusterInv' /\ LogKept
  BY GoneIs DEF Crash, Notice, NoFailover, Unaffected, outcome

----------------------------------------------------------------------------
(* A node applies a later layout.                                          *)

\* n sees a later layout, and has r.
LEMMA AppliedAt ==
  ASSUME ClusterInv, NEW n \in Node, NEW v \in Version, v > view[n], NEW r \in RepRec,
         view' = [view EXCEPT ![n] = v], rep' = [rep EXCEPT ![n] = r], UNCHANGED <<layouts, acked, failovers>>
  PROVE  /\ RepTypes' /\ rep'[n] = r /\ ViewTypes' /\ view'[n] = v /\ OnlyAt(n)
         /\ Latest' = Latest /\ Version' = Version /\ Epoch(n)' = layouts[v].epoch
         /\ Epoch(n) <= layouts[v].epoch /\ v \in Nat /\ layouts[v].epoch \in Nat
         /\ layouts[v].epoch <= Latest.epoch
         /\ \A i \in Version : i >= v => i >= view[n] /\ i > view[n]
<1>1. LayoutTypes /\ RepTypes /\ ViewTypes /\ Order
  BY Basics
<1>2. RepTypes' /\ rep'[n] = r /\ \A k \in Node \ {n} : rep'[k] = rep[k]
  BY <1>1 DEF RepTypes
<1>3. Latest' = Latest /\ Version' = Version
  BY <1>1, LayoutsStay
<1>4. ViewTypes' /\ view'[n] = v /\ \A k \in Node \ {n} : view'[k] = view[k]
  BY <1>1, <1>3 DEF ViewTypes
<1>5. view[n] \in Version /\ view[n] \in Nat /\ v \in Nat /\ layouts[v].epoch \in Nat /\ layouts[v].epoch <= Latest.epoch
  BY Basics
<1>6. Epoch(n) <= layouts[v].epoch
  BY <1>1, <1>5, OneLeader DEF Epoch
<1>7. \A i \in Version : i >= v => i >= view[n] /\ i > view[n]
  <2> SUFFICES ASSUME NEW i \in Version, i >= v PROVE i >= view[n] /\ i > view[n]
    OBVIOUS
  <2>1. i \in Nat
    BY Basics
  <2> QED
    BY <1>5, <2>1
<1> QED
  BY <1>2, <1>3, <1>4, <1>5, <1>6, <1>7 DEF OnlyAt, Epoch

\* An epoch that n has handed over, or is to: the layouts up to i are of it too.
LEMMA HandedIs ==
  ASSUME ClusterInv, NEW n \in Node, Registered(n), NEW v \in Version, v > view[n],
         NEW i \in Version, i >= v, Handed(n, i)
  PROVE  /\ layouts[i].handoff # 0 /\ rep[n].role = "leader"
         /\ Epoch(n) = layouts[i].epoch /\ layouts[v].epoch = layouts[i].epoch /\ layouts[v].leader = n
<1>1. layouts[i].handoff # 0 /\ rep[n].role = "leader" /\ Epoch(n) = layouts[i].epoch /\ layouts[i].leader = n
  BY OfNode DEF EndsSealed, Handed
<1>2. /\ view[n] \in Version /\ view[n] \in Nat /\ v \in Nat /\ i \in Nat /\ layouts[v].epoch \in Nat
      /\ layouts[i].epoch \in Nat /\ n # NoNode
  BY Basics
<1>3. view[n] <= v /\ v <= i
  BY <1>2
<1>4. /\ Epoch(n) <= layouts[v].epoch /\ layouts[v].epoch <= layouts[i].epoch
      /\ layouts[v].epoch = layouts[i].epoch => layouts[i].leader \in {layouts[v].leader, NoNode}
  BY <1>2, <1>3, Basics, OneLeader DEF Epoch
<1>5. layouts[v].epoch = layouts[i].epoch
  BY <1>1, <1>2, <1>4
<1> QED
  BY <1>1, <1>2, <1>4, <1>5

\* n leads by the layout: it keeps its log.
LEMMA ApplyLeader ==
  ASSUME ClusterInv, NEW n \in Node, NEW v \in Version, ApplyNode(n, v), n \in layouts[v].members, layouts[v].leader = n
  PROVE  ClusterInv' /\ LogKept
<1>1. PICK r : r = [rep[n] EXCEPT !.role = "leader", !.synced = TRUE, !.dataEpoch = layouts[v].epoch,
                                  !.sealed = (layouts[v].handoff # 0)]
  OBVIOUS
<1>2. /\ v > view[n] /\ view' = [view EXCEPT ![n] = v] /\ Registered(n) /\ UNCHANGED <<layouts, acked, failovers>>
      /\ rep' = [rep EXCEPT ![n] = r]
  BY <1>1 DEF ApplyNode, NoFailover, Unaffected, outcome
<1>3. rep[n] \in RepRec /\ layouts[v].epoch \in Nat /\ n # NoNode /\ Latest.epoch \in Nat
  BY Basics
<1>4. /\ r \in RepRec /\ r.role = "leader" /\ r.dataEpoch = layouts[v].epoch /\ r.log = rep[n].log
      /\ r.sealed = (layouts[v].handoff # 0) /\ r.synced
  BY <1>1, <1>3 DEF RepRec
<1>5. /\ RepTypes' /\ rep'[n] = r /\ ViewTypes' /\ view'[n] = v /\ OnlyAt(n) /\ v \in Nat
      /\ Latest' = Latest /\ Version' = Version /\ Epoch(n)' = layouts[v].epoch /\ Epoch(n) <= layouts[v].epoch
      /\ layouts[v].epoch <= Latest.epoch
      /\ \A i \in Version : i >= v => i >= view[n] /\ i > view[n]
  BY <1>2, <1>4, AppliedAt
<1>6. Leads(n)' /\ HasData(n)'
  BY <1>2, <1>3, <1>4, <1>5 DEF Leads, HasData
<1>7. ASSUME NEW i \in Version, Handed(n, i)' PROVE i >= v /\ Handed(n, i)
  BY <1>2, <1>5, <1>7 DEF Handed
<1>8. EndsSealed(n)'
  <2> SUFFICES ASSUME NEW i \in Version, Handed(n, i)'
               PROVE  layouts[i].handoff # 0 /\ Epoch(n)' = layouts[i].epoch
    BY <1>2, <1>4, <1>5 DEF EndsSealed
  <2>1. i >= v /\ Handed(n, i)
    BY <1>7
  <2> QED
    BY <1>2, <1>5, <2>1, HandedIs
<1>9. Stays(n)'
  <2> SUFFICES ASSUME n \in Latest.members, NEW i \in Version, i > v PROVE n \in layouts[i].members
    BY <1>2, <1>5 DEF Stays
  <2>1. i \in Nat
    BY Basics
  <2>2. i > view[n]
    BY <1>5, <2>1
  <2> QED
    BY <1>2, <2>2, OfNode DEF Stays
<1>10. Promised' /\ AckedLed' /\ LogKept
  <2>1. CASE n # Latest.leader
    <3>1. ASSUME layouts[v].epoch + 1 = Latest.epoch, Latest.epoch \notin failovers
          PROVE  rep[n].role = "leader" /\ Epoch(n) = layouts[v].epoch
      <4>1. layouts[v].epoch < Latest.epoch
        BY <1>3, <3>1
      <4>2. Handed(n, v)
        BY <1>5, <3>1, <4>1 DEF Handed
      <4> QED
        BY <1>2, <1>5, <4>2, HandedIs
    <3> QED
      BY <1>4, <1>5, <2>1, <3>1, NotTheLeader
  <2>2. CASE n = Latest.leader
    <3>1. ASSUME LeadsNow(n) PROVE layouts[v].epoch = Latest.epoch
      BY <1>3, <1>5, <3>1 DEF LeadsNow
    <3>2. ASSUME Waits(n), Latest.epoch \notin failovers PROVE layouts[v].epoch = Latest.epoch
      <4>1. rep[n].role = "follower" /\ rep[n].dataEpoch + 1 = Latest.epoch /\ rep[n].dataEpoch <= Epoch(n)
        BY <3>2, OfNode DEF Waits, HasData
      <4>2. rep[n].dataEpoch \in Nat /\ Epoch(n) \in Nat
        BY Basics
      <4>3. layouts[v].epoch = Latest.epoch \/ layouts[v].epoch + 1 = Latest.epoch
        BY <1>3, <1>5, <4>1, <4>2
      <4>4. CASE layouts[v].epoch + 1 = Latest.epoch
        <5>1. Handed(n, v)
          BY <1>3, <1>5, <3>2, <4>4 DEF Handed
        <5> QED
          BY <1>2, <1>5, <4>1, <5>1, HandedIs
      <4> QED
        BY <4>3, <4>4
    <3>3. Latest.epoch \notin failovers => layouts[v].epoch = Latest.epoch
      BY <1>2, <1>3, <2>2, <3>1, <3>2 DEF ClusterInv, Promised
    <3>4. acked = Latest.epoch => layouts[v].epoch = Latest.epoch
      BY <1>2, <1>3, <2>2, <3>1 DEF ClusterInv, AckedLed
    <3>5. layouts[v].epoch = Latest.epoch => LeadsNow(n)'
      BY <1>4, <1>5 DEF LeadsNow
    <3>6. Promised'
      BY <1>2, <1>5, <2>2, <3>3, <3>5 DEF Promised
    <3>7. AckedLed'
      BY <1>2, <1>5, <2>2, <3>4, <3>5 DEF AckedLed, ClusterInv
    <3>8. LogKept
      <4> SUFFICES ASSUME Undisturbed' PROVE Settled /\ rep'[n].log = rep[n].log
        BY <1>5, <2>2 DEF LogKept, Settled
      <4>1. Undisturbed
        BY <1>2 DEF Undisturbed
      <4>2. rep[n].role # "none"
        BY <1>2, <1>3, <2>2, <4>1, SettledLeads DEF LeadsNow, Waits
      <4> QED
        BY <1>3, <1>4, <1>5, <2>2, <4>1, <4>2 DEF Settled
    <3> QED
      BY <3>6, <3>7, <3>8
  <2> QED
    BY <2>1, <2>2
<1> QED
  BY <1>5, <1>6, <1>8, <1>9, <1>10, OthersStay

\* n does not lead by the layout.
LEMMA ApplyOther ==
  ASSUME ClusterInv, NEW n \in Node, NEW v \in Version, ApplyNode(n, v), layouts[v].leader # n
  PROVE  ClusterInv' /\ LogKept
<1>1. /\ v > view[n] /\ view' = [view EXCEPT ![n] = v] /\ Registered(n) /\ UNCHANGED <<layouts, acked, failovers>>
      /\ rep[n].role = "none" => n \in layouts[v].members
  BY DEF ApplyNode, NoFailover, Unaffected, outcome
<1>2. rep[n] \in RepRec /\ n # NoNode /\ rep[n].role \in {"none", "follower", "leader"} /\ Latest.epoch \in Nat
  BY Basics
<1>3. PICK r \in RepRec :
        /\ rep' = [rep EXCEPT ![n] = r]
        /\ \/ r = rep[n] /\ rep[n].role = "follower" /\ n \in layouts[v].members
           \/ r = Empty("follower") /\ rep[n].role # "follower" /\ n \in layouts[v].members
           \/ r = Empty("none") /\ n \notin layouts[v].members
  <2>1. CASE n \notin layouts[v].members
    BY <2>1, EmptyIs DEF ApplyNode
  <2>2. CASE n \in layouts[v].members /\ rep[n].role = "follower"
    BY <1>2, <2>2 DEF ApplyNode
  <2>3. CASE n \in layouts[v].members /\ rep[n].role # "follower"
    BY <2>3, EmptyIs DEF ApplyNode
  <2> QED
    BY <2>1, <2>2, <2>3
<1>4. /\ r.role \in {"none", "follower"} /\ (r.role = "none" <=> n \notin layouts[v].members)
      /\ r = rep[n] \/ (r.dataEpoch = 0 /\ ~r.synced)
      /\ rep[n].role = "follower" /\ n \in layouts[v].members => r = rep[n]
  BY <1>3, EmptyIs
<1>5. /\ RepTypes' /\ rep'[n] = r /\ ViewTypes' /\ view'[n] = v /\ OnlyAt(n) /\ v \in Nat
      /\ Latest' = Latest /\ Version' = Version /\ Epoch(n)' = layouts[v].epoch /\ Epoch(n) <= layouts[v].epoch
      /\ layouts[v].epoch <= Latest.epoch /\ layouts[v].epoch \in Nat
      /\ \A i \in Version : i >= v => i >= view[n] /\ i > view[n]
  <2>1. rep' = [rep EXCEPT ![n] = r] /\ r \in RepRec
    BY <1>3
  <2> QED
    BY <1>1, <2>1, AppliedAt
<1>6. Leads(n)'
  BY <1>4, <1>5 DEF Leads
<1>7. HasData(n)'
  <2>1. rep[n].dataEpoch <= Epoch(n) /\ rep[n].dataEpoch \in Nat /\ Epoch(n) \in Nat
        /\ (rep[n].role = "none" => ~rep[n].synced)
    BY OfNode, Basics DEF HasData
  <2>2. r.dataEpoch <= layouts[v].epoch /\ (r.role = "none" => ~r.synced)
    BY <1>4, <1>5, <2>1
  <2> QED
    BY <1>1, <1>4, <1>5, <2>2 DEF HasData
<1>8. EndsSealed(n)'
  <2> SUFFICES ASSUME NEW i \in Version, Handed(n, i)' PROVE FALSE
    BY <1>1, <1>5 DEF EndsSealed
  <2>1. i >= v /\ Handed(n, i)
    BY <1>1, <1>5 DEF Handed
  <2> QED
    BY <1>1, <2>1, HandedIs
<1>9. n \in Latest.members => \A i \in Version : i > view[n] => n \in layouts[i].members
  BY <1>1, OfNode DEF Stays
<1>10. Stays(n)'
  <2> SUFFICES ASSUME n \in Latest.members, NEW i \in Version, i > v PROVE n \in layouts[i].members
    BY <1>1, <1>5 DEF Stays
  <2>1. i \in Nat
    BY Basics
  <2>2. i > view[n]
    BY <1>5, <2>1
  <2> QED
    BY <1>9, <2>2
<1>11. Promised' /\ AckedLed' /\ LogKept
  <2>1. CASE n # Latest.leader
    BY <1>4, <1>5, <2>1, NotTheLeader
  <2>2. CASE n = Latest.leader
    <3>1. n \in layouts[v].members
      BY <1>1, <1>2, <1>9, <2>2, Basics, OneLeader DEF Held
    <3>2. ~LeadsNow(n)
      <4> SUFFICES ASSUME LeadsNow(n) PROVE FALSE
        OBVIOUS
      <4>1. layouts[v].epoch = Latest.epoch
        BY <1>2, <1>5 DEF LeadsNow
      <4> QED
        BY <1>2, <2>2, <4>1, Basics, OneLeader
    <3>3. acked # Latest.epoch
      BY <1>1, <1>2, <2>2, <3>2 DEF ClusterInv, AckedLed
    <3>4. CASE Latest.epoch \in failovers
      BY <1>5, <2>2, <3>3, <3>4, NothingPromised
    <3>5. CASE Latest.epoch \notin failovers
      <4>1. Waits(n)
        BY <1>1, <1>2, <2>2, <3>2, <3>5 DEF ClusterInv, Promised
      <4>2. r = rep[n] /\ rep[n].role = "follower"
        BY <1>4, <3>1, <4>1 DEF Waits
      <4>3. \A k \in Node : rep'[k] = rep[k] /\ (rep[k].role = "leader" => Epoch(k)' = Epoch(k))
        BY <1>1, <1>5, <4>2 DEF OnlyAt, Epoch
      <4>4. Waits(n)'
        BY <1>5, <4>1, <4>3 DEF Waits
      <4>5. Promised'
        BY <1>5, <2>2, <4>4 DEF Promised
      <4>6. AckedLed'
        BY <1>1, <1>5, <3>3 DEF ClusterInv, AckedLed
      <4>7. LogKept
        BY <1>1, <1>5, <2>2, <4>2 DEF LogKept, Settled, Undisturbed
      <4> QED
        BY <4>5, <4>6, <4>7
    <3> QED
      BY <3>4, <3>5
  <2> QED
    BY <2>1, <2>2
<1> QED
  BY <1>5, <1>6, <1>7, <1>8, <1>10, <1>11, OthersStay

LEMMA ApplyNodeIs ==
  ASSUME ClusterInv, NEW n \in Node, NEW v \in Version, ApplyNode(n, v)
  PROVE  ClusterInv' /\ LogKept
<1>1. CASE layouts[v].leader = n
  <2>1. n \in layouts[v].members
    BY <1>1, Basics DEF Order, Held
  <2> QED
    BY <1>1, <2>1, ApplyLeader
<1>2. CASE layouts[v].leader # n
  BY <1>2, ApplyOther
<1> QED
  BY <1>1, <1>2

\* What a load balancer sees does not matter to the cluster.
LEMMA ApplyLBIs ==
  ASSUME ClusterInv, NEW b \in LB, NEW v \in Version, ApplyLB(b, v)
  PROVE  ClusterInv' /\ LogKept
<1>1. LayoutTypes /\ RepTypes /\ ViewTypes /\ Order /\ Replicas
  BY Basics
<1>2. view' = [view EXCEPT ![b] = v] /\ layouts' = layouts /\ rep' = rep /\ acked' = acked /\ failovers' = failovers
  BY DEF ApplyLB, NoFailover, Unaffected, outcome
<1>3. LayoutTypes' /\ Order' /\ Latest' = Latest /\ Version' = Version
  BY <1>1, <1>2, LayoutsStay, OrderStays
<1>4. ViewTypes' /\ RepTypes' /\ GhostTypes'
  BY <1>1, <1>2, <1>3 DEF ViewTypes, RepTypes, GhostTypes, ClusterInv
<1>5. \A n \in Node : view'[n] = view[n]
  BY <1>1, <1>2, RequestsNodes DEF ViewTypes
<1>6. Replicas'
  <2> SUFFICES ASSUME NEW n \in Node PROVE Leads(n)' /\ HasData(n)' /\ EndsSealed(n)' /\ Stays(n)'
    BY DEF Replicas
  <2>1. Leads(n) /\ HasData(n) /\ EndsSealed(n) /\ Stays(n) /\ rep'[n] = rep[n] /\ view'[n] = view[n]
    BY <1>2, <1>5, OfNode
  <2> QED
    BY <1>2, <2>1, NodeStays
<1>7. \A n \in Node : Epoch(n)' = Epoch(n) /\ Registered(n)' = Registered(n)
  BY <1>2, <1>5 DEF Epoch, Registered
<1>8. \A n \in Node : LeadsNow(n)' = LeadsNow(n) /\ Waits(n)' = Waits(n)
  BY <1>2, <1>3, <1>7 DEF LeadsNow, Waits
<1>9. Latest.leader \in Node \cup {NoNode}
  BY Basics
<1>10. Promised' /\ AckedLed' /\ LogKept
  BY <1>2, <1>3, <1>7, <1>8, <1>9 DEF ClusterInv, Promised, AckedLed, LogKept, Settled, Undisturbed
<1> QED
  BY <1>3, <1>4, <1>6, <1>10 DEF ClusterInv

----------------------------------------------------------------------------
(* A step of the planner appends a layout.                                 *)

LEMMA OrderPut ==
  ASSUME LayoutTypes, Order, NEW l \in LayoutRec, PutLayout(l), Precedes(Latest, l), Held(l), HandoffLasts'
  PROVE  Order'
<1>1. /\ Latest' = l
      /\ \A i \in Version : layouts'[i] = layouts[i]
      /\ \A i \in Version' : i \in Version \/ i = Len(layouts) + 1
      /\ layouts'[Len(layouts) + 1] = l
  BY PutIs
<1>2. /\ Len(layouts) \in Version /\ Latest = layouts[Len(layouts)] /\ Len(layouts) \in Nat
      /\ \A i \in Version : i \in Nat /\ i <= Len(layouts) /\ layouts[i] \in LayoutRec
  BY LatestIs
<1>3. \A i \in Version : Precedes(layouts[i], Latest)
  BY <1>2 DEF Order
<1>4. l.epoch \in Nat /\ Latest.epoch \in Nat /\ \A i \in Version : layouts[i].epoch \in Nat
  BY <1>2, LayoutFields
<1>5. \A i \in Version : Precedes(layouts[i], l)
  BY <1>3, <1>4 DEF Precedes
<1>6. Precedes(l, l)
  BY <1>4 DEF Precedes
<1>7. \A i, j \in Version' : i <= j => Precedes(layouts'[i], layouts'[j])
  <2> SUFFICES ASSUME NEW i \in Version', NEW j \in Version', i <= j
               PROVE  Precedes(layouts'[i], layouts'[j])
    OBVIOUS
  <2>1. CASE i \in Version /\ j \in Version
    BY <1>1, <2>1 DEF Order
  <2>2. CASE i \in Version /\ j = Len(layouts) + 1
    BY <1>1, <1>5, <2>2
  <2>3. CASE i = Len(layouts) + 1 /\ j = Len(layouts) + 1
    BY <1>1, <1>6, <2>3
  <2>4. CASE i = Len(layouts) + 1 /\ j \in Version
    BY <1>2, <2>4
  <2> QED
    BY <1>1, <2>1, <2>2, <2>3, <2>4
<1>8. \A i, j \in Version' : i <= j => Precedes(layouts[i], layouts[j])'
  BY <1>7 DEF Precedes
<1>9. \A i \in Version' : Held(layouts'[i])
  BY <1>1 DEF Order
<1>10. \A i \in Version' : Held(layouts[i])'
  BY <1>9 DEF Held
<1> QED
  BY <1>8, <1>10 DEF Order

\* The nodes of J, which have no replica, register anew; nothing else changes.
TakesIn(J) ==
  /\ J \subseteq Node /\ \A k \in J : rep[k].role = "none" /\ k \notin Latest.members
  /\ view' \in [Node \cup LB -> Version]
  /\ \A k \in Node : view'[k] = IF k \in J THEN Len(layouts) ELSE view[k]
  /\ rep' = rep /\ acked' = acked

\* The epoch goes on, ends with a failover, or is handed over by a leader that
\* has applied the handoff.
EpochEnds(l) ==
  \/ l.epoch = Latest.epoch
  \/ Latest.epoch + 1 \in failovers'
  \/ /\ Latest.handoff # 0 /\ rep[Latest.leader].role = "leader" /\ view[Latest.leader] >= Latest.handoff
     /\ l.epoch = Latest.epoch + 1

LEMMA PutKeeps ==
  ASSUME ClusterInv, NEW l \in LayoutRec, PutLayout(l), NEW J, TakesIn(J), Held(l), Precedes(Latest, l),
         HandoffLasts', l.members \subseteq Latest.members \cup J,
         failovers \subseteq failovers', failovers' \subseteq Nat, EpochEnds(l)
  PROVE  /\ LayoutTypes' /\ RepTypes' /\ ViewTypes' /\ GhostTypes' /\ Order' /\ Replicas'
         /\ Latest' = l
         /\ \A k \in Node \ J : Epoch(k)' = Epoch(k) /\ Registered(k)' = Registered(k)
<1>1. LayoutTypes /\ RepTypes /\ ViewTypes /\ Order
  BY Basics
<1>2. /\ LayoutTypes' /\ Latest' = l
      /\ \A i \in Version : i \in Version' /\ layouts'[i] = layouts[i]
      /\ \A i \in Version' : i \in Version \/ i = Len(layouts) + 1
      /\ layouts'[Len(layouts) + 1] = l
  BY <1>1, PutIs
<1>3. Order'
  BY <1>1, OrderPut
<1>4. RepTypes' /\ GhostTypes'
  BY <1>1 DEF RepTypes, GhostTypes, TakesIn, ClusterInv
<1>5. ViewTypes'
  BY <1>2 DEF ViewTypes, TakesIn
<1>6. \A k \in Node \ J : view'[k] = view[k] /\ layouts'[view'[k]] = layouts[view[k]]
  BY <1>2, Basics DEF TakesIn
<1>7. \A k \in Node \ J : Epoch(k)' = Epoch(k) /\ Registered(k)' = Registered(k)
  BY <1>6 DEF Epoch, Registered, TakesIn
<1>8. /\ Latest.epoch \in Nat /\ l.epoch \in Nat /\ Latest.epoch <= l.epoch
      /\ Len(layouts) \in Nat /\ Len(layouts) \in Version /\ Latest = layouts[Len(layouts)]
      /\ \A i \in Version : i \in Nat /\ i <= Len(layouts) /\ layouts[i].epoch \in Nat /\ layouts[i].epoch <= Latest.epoch
  BY Basics, LayoutFields, LatestIs DEF Precedes
<1>9. \A k \in Node \ J : Leads(k)' /\ HasData(k)' /\ EndsSealed(k)' /\ Stays(k)'
  <2> SUFFICES ASSUME NEW k \in Node \ J PROVE Leads(k)' /\ HasData(k)' /\ EndsSealed(k)' /\ Stays(k)'
    OBVIOUS
  <2>1. Leads(k) /\ HasData(k) /\ EndsSealed(k) /\ Stays(k) /\ rep'[k] = rep[k]
    BY OfNode DEF TakesIn
  <2>2. Leads(k)' /\ HasData(k)'
    BY <1>6, <1>7, <2>1 DEF Leads, HasData
  <2>3. EndsSealed(k)'
    <3> SUFFICES ASSUME Registered(k), NEW i \in Version', Handed(k, i)'
                 PROVE  layouts'[i].handoff # 0 /\ rep[k].role = "leader" /\ Epoch(k) = layouts'[i].epoch
      BY <1>7, <2>1 DEF EndsSealed
    <3>1. /\ i >= view[k] /\ layouts'[i].leader = k /\ layouts'[i].epoch < l.epoch
          /\ layouts'[i].epoch + 1 \notin failovers'
      BY <1>2, <1>6 DEF Handed
    <3>2. i \in Version /\ layouts'[i] = layouts[i]
      BY <1>2, <1>8, <3>1
    <3>3. layouts[i].epoch \in Nat /\ layouts[i].epoch <= Latest.epoch /\ layouts[i].epoch + 1 \notin failovers
      BY <1>8, <3>1, <3>2
    <3>4. CASE layouts[i].epoch < Latest.epoch
      <4>1. Handed(k, i)
        BY <3>1, <3>2, <3>3, <3>4 DEF Handed
      <4> QED
        BY <2>1, <3>2, <4>1 DEF EndsSealed
    <3>5. CASE layouts[i].epoch = Latest.epoch
      <4>1. /\ Latest.handoff # 0 /\ rep[Latest.leader].role = "leader" /\ view[Latest.leader] >= Latest.handoff
        BY <1>8, <3>1, <3>2, <3>5 DEF EpochEnds
      <4>2. /\ Latest.leader # NoNode /\ Latest.handoff \in Nat
            /\ \A j \in Version : j >= Latest.handoff => layouts[j].handoff # 0 /\ layouts[j].epoch = Latest.epoch
        BY <1>1, <4>1, Basics DEF Order, HandoffLasts
      <4>3. Latest.leader = k
        BY <1>1, <3>1, <3>2, <3>5, <4>2, OneLeader
      <4>4. view[k] \in Version /\ view[k] \in Nat /\ i \in Nat
        BY <3>2, Basics
      <4>5. i >= Latest.handoff
        BY <3>1, <4>1, <4>2, <4>3, <4>4
      <4>6. Epoch(k) = Latest.epoch
        BY <4>1, <4>2, <4>3, <4>4 DEF Epoch
      <4> QED
        BY <3>2, <3>5, <4>1, <4>2, <4>3, <4>5, <4>6
    <3> QED
      BY <1>8, <3>3, <3>4, <3>5
  <2>4. Stays(k)'
    <3> SUFFICES ASSUME Registered(k), k \in l.members, NEW i \in Version', i > view[k]
                 PROVE  k \in layouts'[i].members
      BY <1>2, <1>6, <1>7 DEF Stays
    <3>1. k \in Latest.members
      OBVIOUS
    <3>2. CASE i \in Version
      BY <1>2, <2>1, <3>1, <3>2 DEF Stays
    <3>3. CASE i = Len(layouts) + 1
      BY <1>2, <3>3
    <3> QED
      BY <1>2, <3>2, <3>3
  <2> QED
    BY <2>2, <2>3, <2>4
<1>10. \A k \in J : Leads(k)' /\ HasData(k)' /\ EndsSealed(k)' /\ Stays(k)'
  <2> SUFFICES ASSUME NEW k \in J PROVE Leads(k)' /\ HasData(k)' /\ EndsSealed(k)' /\ Stays(k)'
    OBVIOUS
  <2>1. /\ k \in Node /\ rep'[k] = rep[k] /\ rep[k].role = "none" /\ k \notin Latest.members
        /\ view'[k] = Len(layouts) /\ k # NoNode
    BY RequestsNodes DEF TakesIn
  <2>2. Leads(k)'
    BY <2>1 DEF Leads
  <2>3. HasData(k) /\ Epoch(k) <= Latest.epoch /\ Epoch(k) \in Nat /\ rep[k].dataEpoch \in Nat
    BY <2>1, OfNode, Basics
  <2>4. layouts'[Len(layouts)] = Latest /\ Epoch(k)' = Latest.epoch
    BY <1>2, <1>8, <2>1 DEF Epoch
  <2>5. HasData(k)'
    BY <1>8, <2>1, <2>3, <2>4 DEF HasData
  <2>6. \A i \in Version' : i >= Len(layouts) => i = Len(layouts) \/ i = Len(layouts) + 1
    BY <1>2, <1>8
  <2>7. Latest.leader # k
    BY <1>1, <2>1, OneLeader DEF Held
  <2>8. EndsSealed(k)'
    <3> SUFFICES ASSUME NEW i \in Version', Handed(k, i)' PROVE FALSE
      BY DEF EndsSealed
    <3>1. i >= Len(layouts) /\ layouts'[i].leader = k /\ layouts'[i].epoch < l.epoch
      BY <1>2, <2>1 DEF Handed
    <3> QED
      BY <1>2, <1>8, <2>4, <2>6, <2>7, <3>1
  <2>9. Stays(k)'
    <3> SUFFICES ASSUME k \in l.members, NEW i \in Version', i > Len(layouts) PROVE k \in layouts'[i].members
      BY <1>2, <2>1 DEF Stays
    <3>1. i = Len(layouts) + 1
      BY <1>2, <1>8
    <3> QED
      BY <1>2, <3>1
  <2> QED
    BY <2>2, <2>5, <2>8, <2>9
<1>11. Replicas'
  BY <1>9, <1>10 DEF Replicas
<1> QED
  BY <1>2, <1>3, <1>4, <1>5, <1>7, <1>11

\* The epoch goes on, with its leader or without.
LEMMA SameEpoch ==
  ASSUME ClusterInv, NEW l \in LayoutRec, PutLayout(l), NEW J, TakesIn(J), Held(l), HandoffLasts',
         l.members \subseteq Latest.members \cup J, failovers' = failovers,
         l.epoch = Latest.epoch, l.leader \in {Latest.leader, NoNode}
  PROVE  ClusterInv' /\ LogKept
<1>1. Latest.epoch \in Nat /\ failovers \subseteq Nat /\ acked <= Latest.epoch /\ Latest.leader \in Node \cup {NoNode}
  BY Basics
<1>2. Precedes(Latest, l) /\ EpochEnds(l)
  BY <1>1 DEF Precedes, EpochEnds
<1>3. /\ LayoutTypes' /\ RepTypes' /\ ViewTypes' /\ GhostTypes' /\ Order' /\ Replicas' /\ Latest' = l
      /\ \A k \in Node \ J : Epoch(k)' = Epoch(k) /\ Registered(k)' = Registered(k)
  BY <1>1, <1>2, PutKeeps
<1>4. rep' = rep /\ acked' = acked /\ \A k \in J : rep[k].role = "none" /\ k \notin Latest.members
  BY DEF TakesIn
<1>5. Promised' /\ AckedLed' /\ LogKept
  <2>1. CASE l.leader = NoNode
    BY <1>1, <1>3, <1>4, <2>1 DEF Promised, AckedLed, LogKept, Settled
  <2>2. CASE l.leader # NoNode
    <3>1. PICK m \in Node \ J : m = Latest.leader /\ m = l.leader
      BY <1>1, <1>4, <2>2, Basics, OneLeader DEF Held
    <3>2. Registered(m)' = Registered(m) /\ LeadsNow(m)' = LeadsNow(m)
      BY <1>3, <1>4 DEF LeadsNow
    <3>3. Waits(m) => Waits(m)'
      BY <1>3, <1>4 DEF Waits
    <3>4. Promised'
      BY <1>3, <3>1, <3>2, <3>3 DEF ClusterInv, Promised
    <3>5. AckedLed'
      BY <1>1, <1>3, <1>4, <3>1, <3>2 DEF ClusterInv, AckedLed
    <3>6. LogKept
      BY <1>3, <1>4, <3>1 DEF LogKept, Settled, Undisturbed
    <3> QED
      BY <3>4, <3>5, <3>6
  <2> QED
    BY <2>1, <2>2
<1> QED
  BY <1>3, <1>5 DEF ClusterInv

\* A layout as the planner finds it, or without a node: a handoff in it lasts.
LEMMA HandoffGoesOn ==
  ASSUME ClusterInv, NEW l \in LayoutRec, PutLayout(l), l.epoch = Latest.epoch,
         l.handoff # 0 => l.handoff = Latest.handoff /\ l.to = Latest.to /\ l.to \in l.followers /\ l.leader # NoNode
  PROVE  HandoffLasts'
<1>1. /\ Latest' = l /\ Len(layouts') = Len(layouts) + 1
      /\ \A i \in Version : layouts'[i] = layouts[i]
      /\ \A i \in Version' : i \in Version \/ i = Len(layouts) + 1
      /\ layouts'[Len(layouts) + 1] = l
  BY Basics, PutIs
<1> SUFFICES ASSUME l.handoff # 0 PROVE HandoffLasts'
  BY <1>1 DEF HandoffLasts
<1>2. l.handoff = Latest.handoff /\ l.to \in l.followers /\ l.leader # NoNode
  OBVIOUS
<1>3. /\ Latest.handoff <= Len(layouts) /\ Latest.handoff \in Nat
      /\ \A i \in Version : i >= Latest.handoff => layouts[i].handoff # 0 /\ layouts[i].epoch = Latest.epoch
  BY <1>2, Basics DEF Order, HandoffLasts
<1>4. Len(layouts) \in Nat
  BY Basics, LatestIs
<1>5. \A i \in Version' : i >= l.handoff => layouts'[i].handoff # 0 /\ layouts'[i].epoch = l.epoch
  BY <1>1, <1>2, <1>3
<1>6. l.handoff <= Len(layouts')
  BY <1>1, <1>2, <1>3, <1>4
<1> QED
  BY <1>1, <1>2, <1>5, <1>6 DEF HandoffLasts

\* Nobody registers.
LEMMA NobodyTaken ==
  ASSUME ClusterInv, UNCHANGED <<view, rep, acked>>
  PROVE  TakesIn({})
  BY Basics DEF TakesIn, ViewTypes

LEMMA StartHandoffIs ==
  ASSUME ClusterInv, NEW m \in Node, StartHandoff(m)
  PROVE  ClusterInv' /\ LogKept
<1>1. PICK l : l = [Latest EXCEPT !.handoff = Len(layouts) + 1, !.to = m]
  OBVIOUS
<1>2. /\ PutLayout(l) /\ m \in Latest.followers /\ Latest.leader # NoNode /\ UNCHANGED <<view, rep, acked, failovers>>
  BY <1>1 DEF StartHandoff, NoFailover, Unaffected, outcome
<1>3. Latest \in LayoutRec /\ Len(layouts) \in Nat
  BY Basics, LatestIs
<1>4. /\ l \in LayoutRec /\ l.leader = Latest.leader /\ l.epoch = Latest.epoch /\ l.followers = Latest.followers
      /\ l.members = Latest.members /\ l.handoff = Len(layouts) + 1 /\ l.to = m
  <2>1. PICK h \in Nat : h = Len(layouts) + 1
    BY <1>3
  <2>2. l = [Latest EXCEPT !.handoff = h, !.to = m]
    BY <1>1, <2>1
  <2>3. /\ l \in LayoutRec /\ l.leader = Latest.leader /\ l.epoch = Latest.epoch
        /\ l.followers = Latest.followers /\ l.members = Latest.members /\ l.handoff = h /\ l.to = m
    BY <1>3, <2>2 DEF LayoutRec
  <2> QED
    BY <2>1, <2>3
<1>5. Held(l)
  BY <1>4, Basics, OneLeader DEF Held
<1>6. /\ Latest' = l /\ Len(layouts') = Len(layouts) + 1
      /\ \A i \in Version' : i \in Version \/ i = Len(layouts) + 1
      /\ layouts'[Len(layouts) + 1] = l
  BY <1>2, <1>4, Basics, PutIs
<1>7. HandoffLasts'
  <2>1. \A i \in Version : i \in Nat /\ i <= Len(layouts)
    BY Basics
  <2>2. \A i \in Version' : i >= l.handoff => layouts'[i] = l
    BY <1>3, <1>4, <1>6, <2>1
  <2>3. l.handoff # 0 /\ l.handoff <= Len(layouts') /\ l.to \in l.followers /\ l.leader # NoNode
    BY <1>2, <1>3, <1>4, <1>6
  <2> QED
    BY <1>6, <2>2, <2>3 DEF HandoffLasts
<1>8. TakesIn({})
  BY <1>2, NobodyTaken
<1> QED
  BY <1>2, <1>4, <1>5, <1>7, <1>8, SameEpoch

LEMMA CancelHandoffIs ==
  ASSUME ClusterInv, CancelHandoff
  PROVE  ClusterInv' /\ LogKept
<1>1. PICK l : l = [Latest EXCEPT !.handoff = 0, !.to = NoNode]
  OBVIOUS
<1>2. PutLayout(l) /\ UNCHANGED <<view, rep, acked, failovers>>
  BY <1>1 DEF CancelHandoff, NoFailover, Unaffected, outcome
<1>3. Latest \in LayoutRec
  BY Basics
<1>4. /\ l \in LayoutRec /\ l.leader = Latest.leader /\ l.epoch = Latest.epoch
      /\ l.followers = Latest.followers /\ l.members = Latest.members /\ l.handoff = 0
  BY <1>1, <1>3 DEF LayoutRec
<1>5. Held(l) /\ TakesIn({})
  BY <1>2, <1>4, Basics, OneLeader, NobodyTaken DEF Held
<1>6. HandoffLasts'
  BY <1>2, <1>4, HandoffGoesOn
<1> QED
  BY <1>2, <1>4, <1>5, <1>6, SameEpoch

LEMMA PromoteJoinerIs ==
  ASSUME ClusterInv, NEW m \in Node, PromoteJoiner(m)
  PROVE  ClusterInv' /\ LogKept
<1>1. PICK l : l = [Latest EXCEPT !.followers = @ \cup {m}]
  OBVIOUS
<1>2. /\ PutLayout(l) /\ m # Latest.leader /\ m \in Latest.members /\ UNCHANGED <<view, rep, acked, failovers>>
  BY <1>1 DEF PromoteJoiner, Joining, NoFailover, Unaffected, outcome
<1>3. Latest \in LayoutRec
  BY Basics
<1>4. /\ l \in LayoutRec /\ l.leader = Latest.leader /\ l.epoch = Latest.epoch /\ l.members = Latest.members
      /\ l.followers = Latest.followers \cup {m} /\ l.handoff = Latest.handoff /\ l.to = Latest.to
  BY <1>1, <1>3 DEF LayoutRec
<1>5. Held(l) /\ TakesIn({})
  BY <1>2, <1>4, Basics, OneLeader, NobodyTaken DEF Held
<1>6. HandoffLasts'
  <2>1. Latest.handoff # 0 => Latest.to \in Latest.followers /\ Latest.leader # NoNode
    BY Basics DEF Order, HandoffLasts
  <2> QED
    BY <1>2, <1>4, <2>1, HandoffGoesOn
<1> QED
  BY <1>2, <1>4, <1>5, <1>6, SameEpoch

\* m leads the next epoch by the layout.
LEMMA LedByIs ==
  ASSUME NEW l \in LayoutRec, NEW m \in Node, Held(l), m \in l.members
  PROVE  /\ LedBy(l, m) \in LayoutRec /\ LedBy(l, m).leader = m /\ LedBy(l, m).epoch = l.epoch + 1
         /\ LedBy(l, m).members = l.members /\ LedBy(l, m).handoff = 0 /\ Held(LedBy(l, m))
<1>1. l.epoch + 1 \in Nat /\ l.followers \ {m} \in SUBSET Node
  BY LayoutFields
<1>2. PICK e \in Nat, f \in SUBSET Node : e = l.epoch + 1 /\ f = l.followers \ {m}
  BY <1>1
<1>3. LedBy(l, m) = [l EXCEPT !.leader = m, !.epoch = e, !.followers = f, !.handoff = 0, !.to = NoNode]
  BY <1>2 DEF LedBy
<1>4. /\ LedBy(l, m) \in LayoutRec /\ LedBy(l, m).leader = m /\ LedBy(l, m).epoch = e
      /\ LedBy(l, m).members = l.members /\ LedBy(l, m).handoff = 0 /\ LedBy(l, m).followers = f
  <2> DEFINE r == [l EXCEPT !.leader = m, !.epoch = e, !.followers = f, !.handoff = 0, !.to = NoNode]
  <2>1. /\ r.leader = m /\ r.epoch = e /\ r.members = l.members /\ r.handoff = 0 /\ r.followers = f
    BY DEF LayoutRec
  <2>2. r \in LayoutRec
    BY DEF LayoutRec
  <2> QED
    BY <1>3, <2>1, <2>2
<1> QED
  BY <1>2, <1>4 DEF Held

LEMMA FinishHandoffIs ==
  ASSUME ClusterInv, FinishHandoff
  PROVE  ClusterInv' /\ LogKept
<1>1. PICK n : n = Latest.leader
  OBVIOUS
<1>2. PICK m : m = Latest.to
  OBVIOUS
<1>3. /\ Latest.handoff # 0 /\ rep[n].role = "leader" /\ view[n] >= Latest.handoff
      /\ CaughtUp(m) /\ PutLayout(LedBy(Latest, m)) /\ UNCHANGED <<view, rep, acked, failovers>>
  BY <1>1, <1>2 DEF FinishHandoff, NoFailover, Unaffected, outcome
<1>4. /\ m \in Latest.followers /\ n # NoNode /\ n \in Node /\ m \in Node /\ m \in Latest.members /\ m # n
      /\ Held(Latest) /\ Latest \in LayoutRec /\ Latest.epoch \in Nat /\ failovers \subseteq Nat
  BY <1>1, <1>2, <1>3, Basics, OneLeader DEF Order, HandoffLasts, Held
<1>5. PICK l \in LayoutRec : /\ l = LedBy(Latest, m) /\ l.leader = m /\ l.epoch = Latest.epoch + 1
                             /\ l.members = Latest.members /\ l.handoff = 0 /\ Held(l)
  BY <1>4, LedByIs
<1>6. PutLayout(l) /\ TakesIn({}) /\ Precedes(Latest, l) /\ EpochEnds(l)
  BY <1>1, <1>3, <1>4, <1>5, NobodyTaken DEF Precedes, EpochEnds
<1>7. HandoffLasts'
  BY <1>5, <1>6, Basics, PutIs DEF HandoffLasts
<1>8. /\ LayoutTypes' /\ RepTypes' /\ ViewTypes' /\ GhostTypes' /\ Order' /\ Replicas' /\ Latest' = l
      /\ \A k \in Node \ {} : Epoch(k)' = Epoch(k) /\ Registered(k)' = Registered(k)
  BY <1>3, <1>4, <1>5, <1>6, <1>7, PutKeeps
<1>9. rep[m].synced /\ rep[m].dataEpoch = Latest.epoch /\ rep[m].log = rep[n].log
  BY <1>1, <1>3 DEF CaughtUp
<1>10. rep[m].role = "follower"
  <2>1. rep[m].role # "none"
    BY <1>4, <1>9, OfNode DEF HasData
  <2>2. rep[m].role # "leader"
    <3> SUFFICES ASSUME rep[m].role = "leader" PROVE FALSE
      OBVIOUS
    <3>1. Epoch(m) = Latest.epoch
      BY <1>4, <1>9, OfNode DEF Leads
    <3> QED
      BY <1>1, <1>4, <3>1, LeaderNow
  <2> QED
    BY <1>4, <2>1, <2>2, Basics
<1>11. \A k \in Node : rep[k].role = "leader" /\ Epoch(k) = Latest.epoch => k = n
  BY <1>1, <1>4, LeaderNow
<1>12. Waits(m)'
  BY <1>3, <1>5, <1>8, <1>9, <1>10, <1>11 DEF Waits
<1>13. Promised'
  BY <1>5, <1>8, <1>12 DEF Promised
<1>14. AckedLed'
  <2>1. acked <= Latest.epoch /\ acked \in Nat
    BY Basics
  <2>2. acked' < l.epoch
    BY <1>3, <1>4, <1>5, <2>1
  <2>3. acked' <= l.epoch /\ acked' # l.epoch
    BY <1>3, <1>4, <1>5, <2>1, <2>2
  <2> QED
    BY <1>8, <2>3 DEF AckedLed
<1>15. LogKept
  BY <1>1, <1>3, <1>4, <1>5, <1>8, <1>9 DEF LogKept, Settled, Undisturbed
<1> QED
  BY <1>8, <1>13, <1>14, <1>15 DEF ClusterInv

\* failover, with or without a candidate, on a layout l of the same epoch.
LEMMA FailoverIs ==
  ASSUME ClusterInv, NEW l \in LayoutRec, NEW J, TakesIn(J), Held(l), l.members \subseteq Latest.members \cup J,
         l.epoch = Latest.epoch, l.leader \in {Latest.leader, NoNode},
         l.handoff # 0 => l.handoff = Latest.handoff /\ l.to = Latest.to /\ l.to \in l.followers /\ l.leader # NoNode,
         NEW spare, spare \subseteq l.members, Failover(l, spare)
  PROVE  ClusterInv' /\ LogKept
<1>1. CASE PutLayout(l) /\ failovers' = failovers
  <2>1. HandoffLasts'
    BY <1>1, HandoffGoesOn
  <2> QED
    BY <1>1, <2>1, SameEpoch
<1>2. ASSUME NEW m \in Candidates(l, spare), PutLayout(LedBy(l, m)), failovers' = failovers \cup {l.epoch + 1}
      PROVE  ClusterInv' /\ LogKept
  <2>1. m \in l.members /\ m \in Node
    BY <1>2, LayoutFields DEF Candidates, Joining, Held
  <2>2. PICK k \in LayoutRec : /\ k = LedBy(l, m) /\ k.leader = m /\ k.epoch = l.epoch + 1
                               /\ k.members = l.members /\ k.handoff = 0 /\ Held(k)
    BY <2>1, LedByIs
  <2>3. Latest.epoch \in Nat /\ failovers \subseteq Nat /\ acked \in Nat /\ acked <= Latest.epoch
    BY Basics
  <2>4. PutLayout(k) /\ Precedes(Latest, k) /\ EpochEnds(k)
    BY <1>2, <2>2, <2>3 DEF Precedes, EpochEnds
  <2>5. HandoffLasts'
    BY <2>2, <2>4, Basics, PutIs DEF HandoffLasts
  <2>6. failovers \subseteq failovers' /\ failovers' \subseteq Nat /\ k.epoch \in failovers'
    <3>1. PICK e \in Nat : e = l.epoch + 1
      BY <2>3
    <3>2. failovers' = failovers \cup {e} /\ k.epoch = e
      BY <1>2, <2>2, <3>1
    <3> QED
      BY <2>3, <3>1, <3>2
  <2>7. LayoutTypes' /\ RepTypes' /\ ViewTypes' /\ GhostTypes' /\ Order' /\ Replicas' /\ Latest' = k
    BY <2>2, <2>4, <2>5, <2>6, PutKeeps
  <2>8. acked' <= k.epoch /\ ~(k.epoch <= acked') /\ acked' # k.epoch
    BY <2>2, <2>3 DEF TakesIn
  <2>9. ~Undisturbed'
    BY <2>6, <2>8 DEF Undisturbed
  <2>10. Promised' /\ AckedLed' /\ LogKept
    BY <2>6, <2>7, <2>8, <2>9 DEF Promised, AckedLed, LogKept, Settled
  <2> QED
    BY <2>7, <2>10 DEF ClusterInv
<1> QED
  BY <1>1, <1>2 DEF Failover

LEMMA WithoutIs ==
  ASSUME ClusterInv, NEW n \in Node
  PROVE  LET l == Without(Latest, n)
         IN /\ l \in LayoutRec /\ Held(l) /\ l.members \subseteq Latest.members /\ l.epoch = Latest.epoch
            /\ l.leader \in {Latest.leader, NoNode}
            /\ l.handoff # 0 => l.handoff = Latest.handoff /\ l.to = Latest.to /\ l.to \in l.followers /\ l.leader # NoNode
<1> DEFINE ends == n \in {Latest.leader, Latest.to}
<1>1. PICK w \in Node \cup {NoNode} : w = IF Latest.leader = n THEN NoNode ELSE Latest.leader
  BY Basics
<1>2. PICK f \in SUBSET Node : f = Latest.followers \ {n}
  BY Basics
<1>3. PICK g \in SUBSET Node : g = Latest.members \ {n}
  BY Basics
<1>4. PICK h \in Nat : h = IF ends THEN 0 ELSE Latest.handoff
  BY Basics
<1>5. PICK t \in Node \cup {NoNode} : t = IF ends THEN NoNode ELSE Latest.to
  BY Basics
<1>6. Without(Latest, n) = [Latest EXCEPT !.leader = w, !.followers = f, !.members = g, !.handoff = h, !.to = t]
  BY <1>1, <1>2, <1>3, <1>4, <1>5 DEF Without
<1>7. PICK l : l = Without(Latest, n)
  OBVIOUS
<1>8. Latest \in LayoutRec /\ Held(Latest)
  BY Basics, OneLeader
<1>9. /\ l \in LayoutRec /\ l.leader = w /\ l.followers = f /\ l.members = g /\ l.handoff = h /\ l.to = t
      /\ l.epoch = Latest.epoch
  BY <1>6, <1>7, <1>8 DEF LayoutRec
<1>10. Held(l)
  BY <1>1, <1>2, <1>3, <1>8, <1>9, RequestsNodes DEF Held
<1>11. l.leader \in {Latest.leader, NoNode} /\ l.members \subseteq Latest.members
  BY <1>1, <1>3, <1>9
<1>12. ASSUME l.handoff # 0
       PROVE  l.handoff = Latest.handoff /\ l.to = Latest.to /\ l.to \in l.followers /\ l.leader # NoNode
  <2>1. ~ends /\ Latest.handoff # 0
    BY <1>4, <1>9, <1>12
  <2>2. Latest.to \in Latest.followers /\ Latest.leader # NoNode
    BY <2>1, Basics DEF Order, HandoffLasts
  <2> QED
    BY <1>1, <1>2, <1>4, <1>5, <1>9, <2>1, <2>2
<1> QED
  BY <1>7, <1>9, <1>10, <1>11, <1>12

LEMMA LapseIs ==
  ASSUME ClusterInv, NEW n \in Node, Lapse(n)
  PROVE  ClusterInv' /\ LogKept
<1>1. Failover(Without(Latest, n), {}) /\ UNCHANGED <<view, rep, acked>>
  BY DEF Lapse, Unaffected, outcome
<1>2. PICK l : l = Without(Latest, n)
  OBVIOUS
<1>3. /\ l \in LayoutRec /\ Held(l) /\ l.members \subseteq Latest.members /\ l.epoch = Latest.epoch
      /\ l.leader \in {Latest.leader, NoNode}
      /\ l.handoff # 0 => l.handoff = Latest.handoff /\ l.to = Latest.to /\ l.to \in l.followers /\ l.leader # NoNode
  BY <1>2, WithoutIs
<1>4. TakesIn({})
  BY <1>1, NobodyTaken
<1> QED
  BY <1>1, <1>2, <1>3, <1>4, FailoverIs

LEMMA ElectIs ==
  ASSUME ClusterInv, Elect
  PROVE  ClusterInv' /\ LogKept
<1>1. Failover(Latest, {}) /\ UNCHANGED <<view, rep, acked>> /\ Latest.leader = NoNode
  BY DEF Elect, Unaffected, outcome
<1>2. TakesIn({}) /\ Latest \in LayoutRec /\ Held(Latest)
  BY <1>1, NobodyTaken, Basics, OneLeader
<1>3. Latest.handoff = 0
  BY <1>1, Basics DEF Order, HandoffLasts
<1> QED
  BY <1>1, <1>2, <1>3, FailoverIs

LEMMA RejoinIs ==
  ASSUME ClusterInv, NEW n \in Node, Rejoin(n)
  PROVE  ClusterInv' /\ LogKept
<1>1. PICK l : l = [Latest EXCEPT !.members = @ \cup {n}]
  OBVIOUS
<1>2. /\ rep[n].role = "none" /\ n \notin Latest.members /\ Failover(l, {n})
      /\ view' = [view EXCEPT ![n] = Len(layouts)] /\ UNCHANGED <<rep, acked>>
  BY <1>1 DEF Rejoin, Unaffected, outcome
<1>3. Latest \in LayoutRec /\ Held(Latest) /\ ViewTypes /\ Len(layouts) \in Version
  BY Basics, OneLeader
<1>4. /\ l \in LayoutRec /\ l.leader = Latest.leader /\ l.epoch = Latest.epoch /\ l.members = Latest.members \cup {n}
      /\ l.followers = Latest.followers /\ l.handoff = Latest.handoff /\ l.to = Latest.to
  BY <1>1, <1>3 DEF LayoutRec
<1>5. Held(l)
  BY <1>3, <1>4 DEF Held
<1>6. TakesIn({n})
  BY <1>2, <1>3 DEF TakesIn, ViewTypes
<1>7. Latest.handoff # 0 => Latest.to \in Latest.followers /\ Latest.leader # NoNode
  BY Basics DEF Order, HandoffLasts
<1> QED
  BY <1>2, <1>4, <1>5, <1>6, <1>7, FailoverIs


----------------------------------------------------------------------------
(* The invariant, and the theorems.                                        *)

LEMMA InitHolds == Init => Inv
<1> SUFFICES ASSUME Init PROVE Inv
  OBVIOUS
<1>1. PICK n : n = CHOOSE k \in Node : TRUE
  OBVIOUS
<1>2. PICK l : l = [leader |-> n, epoch |-> 1, followers |-> Node \ {n},
                    members |-> Node, handoff |-> 0, to |-> NoNode]
  OBVIOUS
<1>3. layouts = <<l>> /\ view = [x \in Node \cup LB |-> 1]
  BY <1>1, <1>2 DEF Init
<1>4. rep = [m \in Node |-> [role |-> IF m = n THEN "leader" ELSE "follower", synced |-> TRUE,
                             dataEpoch |-> 1, sealed |-> FALSE, log |-> <<1>>]]
  BY <1>1 DEF Init
<1>5. /\ call = NoCall /\ late = {} /\ answer = NoAnswer /\ recent = {1} /\ calls = 1
      /\ acked = 1 /\ failovers = {}
  BY DEF Init
<1>6. n \in Node
  BY <1>1, RequestsNodes
<1>7. /\ l \in LayoutRec /\ l.leader = n /\ l.epoch = 1 /\ l.followers = Node \ {n}
      /\ l.members = Node /\ l.handoff = 0
  BY <1>2, <1>6 DEF LayoutRec
<1>8. LayoutTypes /\ Len(layouts) = 1 /\ layouts[1] = l /\ Latest = l /\ Version = {1}
  BY <1>3, <1>7 DEF LayoutTypes, Latest, Last, Version
<1>9. ViewTypes /\ \A k \in Node : view[k] = 1 /\ Epoch(k) = 1
  BY <1>3, <1>7, <1>8 DEF ViewTypes, Epoch
<1>10. <<1>> \in Seq(Value) /\ <<1>> # <<>>
  BY DEF Value
<1>11. \A m \in Node : /\ rep[m].role = (IF m = n THEN "leader" ELSE "follower") /\ rep[m].synced = TRUE
                       /\ rep[m].dataEpoch = 1 /\ rep[m].sealed = FALSE /\ rep[m].log = <<1>>
  BY <1>4
<1>12. RepTypes
  BY <1>4, <1>10 DEF RepTypes, RepRec
<1>13. CallTypes
  BY <1>5, NoCallIs DEF CallTypes
<1>14. OtherTypes /\ GhostTypes
  BY <1>5 DEF OtherTypes, GhostTypes, NoAnswer
<1>15. Order
  BY <1>6, <1>7, <1>8 DEF Order, Precedes, HandoffLasts, Held
<1>16. \A k \in Node : Leads(k) /\ HasData(k) /\ EndsSealed(k) /\ Stays(k)
  <2> SUFFICES ASSUME NEW k \in Node PROVE Leads(k) /\ HasData(k) /\ EndsSealed(k) /\ Stays(k)
    OBVIOUS
  <2>1. layouts[view[k]] = l /\ view[k] = 1 /\ Epoch(k) = 1
    BY <1>8, <1>9
  <2>2. HasData(k)
    BY <1>7, <1>11, <2>1 DEF HasData
  <2>3. Leads(k)
    BY <1>7, <1>11, <2>1 DEF Leads
  <2>4. \A i \in Version : ~Handed(k, i) /\ ~(i > view[k])
    BY <1>7, <1>8, <2>1 DEF Handed
  <2> QED
    BY <2>2, <2>3, <2>4 DEF EndsSealed, Stays
<1>17. LeadsNow(n)
  BY <1>6, <1>7, <1>8, <1>9, <1>11 DEF LeadsNow
<1>18. Promised /\ AckedLed
  BY <1>5, <1>7, <1>8, <1>17 DEF Promised, AckedLed
<1>19. LeaderHasLast
  <2>1. rep[Latest.leader].log = <<1>>
    BY <1>6, <1>7, <1>8, <1>11
  <2>2. ValueOf(<<1>>) = 1
    BY <1>10 DEF ValueOf, Last
  <2> QED
    BY <1>5, <2>1, <2>2 DEF LeaderHasLast
<1> QED
  BY <1>8, <1>9, <1>12, <1>13, <1>14, <1>15, <1>16, <1>18, <1>19 DEF Inv, ClusterInv, Replicas

LEMMA InvTypes == Inv => Types
  BY DEF Inv, ClusterInv, Types

LEMMA NothingMoves ==
  ASSUME ClusterInv, UNCHANGED <<layouts, view, rep, acked, failovers>>
  PROVE  ClusterInv' /\ Latest' = Latest /\ (Settled' => Settled)
<1>1. LayoutTypes' /\ RepTypes' /\ ViewTypes' /\ GhostTypes' /\ Latest' = Latest /\ Version' = Version
  BY DEF ClusterInv, LayoutTypes, RepTypes, ViewTypes, GhostTypes, Latest, Version
<1>2. Order' /\ Replicas'
  <2>1. Order'
    BY OrderStays DEF ClusterInv
  <2>2. ASSUME NEW n \in Node PROVE Leads(n)' /\ HasData(n)' /\ EndsSealed(n)' /\ Stays(n)'
    BY OfNode, NodeStays
  <2> QED
    BY <2>1, <2>2 DEF Replicas
<1>3. \A m \in Node : (LeadsNow(m)' <=> LeadsNow(m)) /\ (Waits(m)' <=> Waits(m)) /\ (Registered(m)' <=> Registered(m))
  BY <1>1 DEF LeadsNow, Waits, Registered, Epoch
<1>4. Latest.leader \in Node \cup {NoNode}
  BY Basics
<1>5. Promised' /\ AckedLed'
  BY <1>1, <1>3, <1>4 DEF Promised, AckedLed, ClusterInv
<1>6. Settled' => Settled
  BY <1>1 DEF Settled, Undisturbed
<1> QED
  BY <1>1, <1>2, <1>5, <1>6 DEF ClusterInv

\* A step of a call keeps the invariant.
LEMMA CallKeeps ==
  ASSUME Inv, StepOfCall
  PROVE  Inv'
<1>1. ClusterInv /\ LeaderHasLast
  BY DEF Inv
<1>2. CASE QuietStep
  <2>1. UNCHANGED <<layouts, view, rep, acked, failovers>> /\ Keeps
    BY <1>2 DEF QuietStep, cluster
  <2>2. ClusterInv' /\ Latest' = Latest /\ (Settled' => Settled)
    BY <1>1, <2>1, NothingMoves
  <2>3. LeaderHasLast'
    BY <1>1, <2>1, <2>2 DEF LeaderHasLast, Keeps
  <2> QED
    BY <2>2, <2>3 DEF StepOfCall, Inv
<1>3. CASE WriteStep
  BY <1>1, <1>3, WriteIs DEF StepOfCall, WriteStep, Inv
<1> QED
  BY <1>2, <1>3 DEF StepOfCall

\* A step of the cluster keeps it.
LEMMA ClusterKeeps ==
  ASSUME Inv, Unaffected, ClusterInv', LogKept
  PROVE  Inv'
<1>1. /\ CallTypes /\ OtherTypes /\ LeaderHasLast
      /\ call' = call /\ late' = late /\ answer' = answer /\ recent' = recent /\ calls' = calls
  BY DEF Inv, Unaffected, outcome
<1>2. CallTypes' /\ OtherTypes'
  BY <1>1 DEF CallTypes, OtherTypes
<1>3. LeaderHasLast'
  BY <1>1 DEF LeaderHasLast, LogKept, Writing
<1> QED
  BY <1>2, <1>3 DEF Inv

LEMMA InvStep == Inv /\ [Next]_vars => Inv'
<1> SUFFICES ASSUME Inv, [Next]_vars PROVE Inv'
  OBVIOUS
<1>1. Types /\ ClusterInv
  BY InvTypes DEF Inv
<1>2. ASSUME NEW b \in LB, Begin("set", b) \/ Begin("get", b) PROVE Inv'
  BY <1>1, <1>2, BeginStep, CallKeeps
<1>3. ASSUME CallStep PROVE Inv'
  <2>1. CASE RouteSet \/ RouteGet
    BY <1>1, <2>1, RouteStep, CallKeeps
  <2>2. CASE ServeSet
    BY <1>1, <2>2, ServeSetIs, CallKeeps
  <2>3. CASE CheckGet
    BY <1>1, <2>3, CheckGetIs, CallKeeps
  <2>4. CASE ReadGet
    BY <1>1, <2>4, ReadGetIs, CallKeeps
  <2> QED
    BY <1>3, <2>1, <2>2, <2>3, <2>4 DEF CallStep
<1>4. CASE LoseRequest
  BY <1>1, <1>4, LoseRequestIs, CallKeeps
<1>5. CASE LoseAnswer
  BY <1>1, <1>5, LoseAnswerIs, CallKeeps
<1>6. CASE Overtake
  BY <1>1, <1>6, OvertakeIs, CallKeeps
<1>7. CASE ServeLate
  BY <1>1, <1>7, ServeLateIs, CallKeeps
<1>8. ASSUME NEW b \in LB, NEW v \in 1..Len(layouts), ApplyLB(b, v) PROVE Inv'
  <2>1. v \in Version /\ Unaffected
    BY <1>8 DEF Version, ApplyLB, NoFailover
  <2> QED
    BY <1>1, <1>8, <2>1, ApplyLBIs, ClusterKeeps
<1>9. ASSUME NEW n \in Node, NodeStep(n) PROVE Inv'
  <2>1. CASE Replicate(n)
    BY <1>1, <2>1, ReplicateIs, ClusterKeeps DEF Replicate, NoFailover
  <2>2. CASE StartOver(n)
    BY <1>1, <2>2, StartOverIs, ClusterKeeps DEF StartOver, NoFailover
  <2>3. CASE StartHandoff(n)
    BY <1>1, <2>3, StartHandoffIs, ClusterKeeps DEF StartHandoff, NoFailover
  <2>4. CASE PromoteJoiner(n)
    BY <1>1, <2>4, PromoteJoinerIs, ClusterKeeps DEF PromoteJoiner, NoFailover
  <2>5. CASE Lapse(n)
    BY <1>1, <2>5, LapseIs, ClusterKeeps DEF Lapse
  <2>6. CASE Crash(n) \/ Notice(n)
    BY <1>1, <2>6, CrashIs, ClusterKeeps DEF Crash, Notice, NoFailover
  <2>7. CASE Rejoin(n)
    BY <1>1, <2>7, RejoinIs, ClusterKeeps DEF Rejoin
  <2>8. ASSUME NEW v \in 1..Len(layouts), ApplyNode(n, v) PROVE Inv'
    <3>1. v \in Version /\ Unaffected
      BY <2>8 DEF Version, ApplyNode, NoFailover
    <3> QED
      BY <1>1, <2>8, <3>1, ApplyNodeIs, ClusterKeeps
  <2> QED
    BY <1>9, <2>1, <2>2, <2>3, <2>4, <2>5, <2>6, <2>7, <2>8 DEF NodeStep
<1>10. CASE FinishHandoff
  BY <1>1, <1>10, FinishHandoffIs, ClusterKeeps DEF FinishHandoff, NoFailover
<1>11. CASE CancelHandoff
  BY <1>1, <1>11, CancelHandoffIs, ClusterKeeps DEF CancelHandoff, NoFailover
<1>12. CASE Elect
  BY <1>1, <1>12, ElectIs, ClusterKeeps DEF Elect
<1>13. CASE UNCHANGED vars
  <2>1. QuietStep /\ UNCHANGED <<call, late, answer, recent, calls>>
    BY <1>13 DEF vars, QuietStep, cluster, Keeps, Writing
  <2>2. CallTypes' /\ OtherTypes'
    BY <1>1, <2>1 DEF Types, CallTypes, OtherTypes
  <2>3. StepOfCall
    BY <2>1, <2>2 DEF StepOfCall
  <2> QED
    BY <2>3, CallKeeps
<1> QED
  BY <1>2, <1>3, <1>4, <1>5, <1>6, <1>7, <1>8, <1>9, <1>10, <1>11, <1>12, <1>13 DEF Next

LEMMA InvAlways == Spec => []Inv
<1>1. Init => Inv
  BY InitHolds
<1>2. Inv /\ [Next]_vars => Inv'
  BY InvStep
<1> QED
  BY <1>1, <1>2, PTL DEF Spec

\* When no call is in progress and there was no failover since the client's last
\* acknowledged write, the leader of the latest layout has its value, or that of
\* a write that ended with an error: the retries of do, write and handleGet
\* through stale load balancers and stale nodes, old leaders whose lease expired
\* (keepMembership), handoffs, and the failovers before it never bring an older
\* value back.
THEOREM LastWriteKept == Spec => []LastWriteWins
<1>1. Inv => LastWriteWins
  BY DEF Inv, LeaderHasLast, Settled, Writing, LastWriteWins
<1> QED
  BY <1>1, InvAlways, PTL

\* A node that takes a write in an epoch that has ended lost that epoch to a
\* failover: the seal and the layouts of progressHandoff leave no second writer,
\* however far behind with the layouts the old leader is.
THEOREM HandoffsEndWrites == Spec => []HandoffEndsWrites
<1>1. Inv => HandoffEndsWrites
  BY StaleWriter DEF Inv, HandoffEndsWrites
<1> QED
  BY <1>1, InvAlways, PTL
============================================================================
