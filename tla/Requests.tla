----------------------------- MODULE Requests ------------------------------
(***************************************************************************)
(* The path of a request: a client with its retries (pkg/client), the load *)
(* balancers that route with the layout they last saw                      *)
(* (internal/loadbalancer), and the nodes that check it against theirs     *)
(* (internal/node), while the leadership of the partition moves.           *)
(*                                                                         *)
(* One client works on one key that exists from the start and that nobody  *)
(* else touches; a value is the number of the write that set it, and 0     *)
(* means that the key was not found.  How replicas follow each other is    *)
(* the subject of module Replication: here a follower that replicates gets *)
(* all there is at once, and the planner's reports are true.  A node whose *)
(* lease expires is alive and knows nothing of it until it is told: it     *)
(* keeps its layout, its role and its data, and goes on taking writes.     *)
(***************************************************************************)
EXTENDS Integers, FiniteSets, SequencesExt

CONSTANTS Node, NoNode, LB,
          Strategy,       \* "leader", "round-robin" or "followers"
          MaxAttempts,    \* Options.MaxAttempts of the load balancers
          MaxRetries,     \* Client.MaxRetries
          MaxCalls,       \* bound: calls of the client
          MaxFaults,      \* bound: lost messages, crashes, expired leases, restarted replications
          MaxHandoffs     \* bound: handoffs

ASSUME RequestsNodes == IsFiniteSet(Node) /\ Node # {} /\ NoNode \notin Node /\ LB # {} /\ Node \cap LB = {}
ASSUME RequestsStrategy == Strategy \in {"leader", "round-robin", "followers"}
ASSUME RequestsBounds ==
  /\ MaxAttempts \in Nat \ {0} /\ MaxRetries \in Nat
  /\ MaxCalls \in Nat /\ MaxFaults \in Nat /\ MaxHandoffs \in Nat

VARIABLES
  layouts,  \* the layouts written so far; a version is a position in it
  view,     \* node or load balancer -> version it saw last
  rep,      \* node -> its replica
  call,     \* the client's call
  late,     \* writes on their way to a node whose sender has given up
  answer,   \* what the last call read
  recent,   \* ghost: the values a read of the newest data may return
  acked,    \* ghost: the epoch whose leader acknowledged the last write
  failovers,\* ghost: the epochs that began with a failover
  calls, faults, handoffs \* how much of the bounds is used

cluster == <<layouts, view, rep>>
spent   == <<faults, handoffs>>
outcome == <<recent, acked, answer>>
vars    == <<layouts, view, rep, call, late, answer, recent, acked, failovers, calls, faults, handoffs>>

Latest == Last(layouts)
ValueOf(log) == IF log = <<>> THEN 0 ELSE Last(log)

NoCall == [op |-> "none", value |-> 0, stage |-> "idle", lb |-> NoNode,
           try |-> 0, attempt |-> 0, to |-> NoNode, todo |-> <<>>]
NoAnswer == -1

\* Every node holds the key and has applied the layout; which one leads makes
\* no difference.
Init ==
  LET n == CHOOSE n \in Node : TRUE
  IN /\ layouts = <<[leader |-> n, epoch |-> 1, followers |-> Node \ {n},
                    members |-> Node, handoff |-> 0, to |-> NoNode]>>
     /\ view = [x \in Node \cup LB |-> 1]
     /\ rep = [m \in Node |-> [role |-> IF m = n THEN "leader" ELSE "follower", synced |-> TRUE,
                               dataEpoch |-> 1, sealed |-> FALSE, log |-> <<1>>]]
     /\ call = NoCall /\ late = {} /\ answer = NoAnswer /\ recent = {1}
     /\ acked = 1 /\ failovers = {}
     /\ calls = 1 /\ faults = 0 /\ handoffs = 0

Fault == faults < MaxFaults /\ faults' = faults + 1 /\ UNCHANGED handoffs

----------------------------------------------------------------------------
(* The client.                                                             *)

Begin(op, b) ==
  /\ call.op = "none" /\ calls < MaxCalls /\ calls' = calls + 1
  /\ call' = [NoCall EXCEPT !.op = op, !.value = IF op = "set" THEN calls + 1 ELSE 0,
                            !.stage = "route", !.lb = b]
  /\ answer' = NoAnswer
  /\ UNCHANGED <<cluster, late, recent, acked, failovers, spent>>

\* The call ends with an answer: a write took effect, a read saw v.
Return(v) ==
  /\ call' = NoCall
  /\ recent' = IF call.op = "set" THEN {call.value} ELSE recent
  /\ acked' = IF call.op = "set" THEN layouts[view[call.to]].epoch ELSE acked
  /\ answer' = IF call.op = "get" THEN v ELSE NoAnswer

\* It ends with an error: nobody knows whether the write took effect.
Fail ==
  /\ call' = NoCall
  /\ recent' = IF call.op = "set" THEN recent \cup {call.value} ELSE recent
  /\ UNCHANGED acked
  /\ answer' = NoAnswer

\* The load balancer gave up or its answer is lost: do tries the next one.
NextTry ==
  IF call.try < MaxRetries
    THEN /\ \E b \in LB : /\ Cardinality(LB) > 1 => b # call.lb
                          /\ call' = [call EXCEPT !.stage = "route", !.lb = b, !.try = @ + 1,
                                                  !.attempt = 0, !.to = NoNode, !.todo = <<>>]
         /\ UNCHANGED outcome
    ELSE Fail

----------------------------------------------------------------------------
(* A load balancer.                                                        *)

\* The loops of write and handleGet go round, or answer 503.
NextAttempt ==
  IF call.attempt + 1 < MaxAttempts
    THEN /\ call' = [call EXCEPT !.stage = "route", !.attempt = @ + 1, !.to = NoNode, !.todo = <<>>]
         /\ UNCHANGED outcome
    ELSE NextTry

\* The next candidate of the same attempt, if there is one.
NextCandidate ==
  IF call.todo # <<>>
    THEN /\ call' = [call EXCEPT !.stage = "sent", !.to = Head(call.todo), !.todo = Tail(@)]
         /\ UNCHANGED outcome
    ELSE NextAttempt

\* All orders of a set; lists are rotated to spread the reads, and start in an
\* order of their own.
Orders(S) == SetToSeqs(S)

\* readCandidates, with ReadReplicas: the leader first, then the followers.
readCandidates(l) ==
  CASE l.leader = NoNode -> Orders(l.followers)
    [] l.leader # NoNode /\ Strategy = "leader" -> {<<l.leader>> \o f : f \in Orders(l.followers)}
    [] l.leader # NoNode /\ Strategy = "followers" -> {Append(f, l.leader) : f \in Orders(l.followers)}
    [] OTHER -> Orders({l.leader} \cup l.followers)

Writable(l) == l.leader # NoNode /\ l.handoff = 0

\* Mutant: waiting for a writable leader takes no attempt.
RouteSetWaiting ==
  LET l == layouts[view[call.lb]]
  IN /\ call.op = "set" /\ call.stage = "route"
     /\ call' = IF Writable(l) THEN [call EXCEPT !.stage = "sent", !.to = l.leader] ELSE call
     /\ UNCHANGED <<cluster, late, outcome, failovers, calls, spent>>

RouteSet ==
  LET l == layouts[view[call.lb]]
  IN /\ call.op = "set" /\ call.stage = "route"
     /\ IF Writable(l)
          THEN /\ call' = [call EXCEPT !.stage = "sent", !.to = l.leader]
               /\ UNCHANGED outcome
          ELSE NextAttempt
     /\ UNCHANGED <<cluster, late, failovers, calls, spent>>

RouteGet ==
  /\ call.op = "get" /\ call.stage = "route"
  /\ \E order \in readCandidates(layouts[view[call.lb]]) :
       IF order = <<>> THEN NextAttempt
       ELSE /\ call' = [call EXCEPT !.stage = "sent", !.to = Head(order), !.todo = Tail(order)]
            /\ UNCHANGED outcome
  /\ UNCHANGED <<cluster, late, failovers, calls, spent>>

----------------------------------------------------------------------------
(* A node.                                                                 *)

\* target's checks for a write, and the partition's.
TakesWrite(n) ==
  /\ layouts[view[n]].leader = n
  /\ rep[n].role = "leader" /\ ~rep[n].sealed

\* target's checks for a read.
ServesRead(n) == rep[n].role = "leader" \/ (rep[n].role = "follower" /\ rep[n].synced)

Wrote(n, v) == rep' = [rep EXCEPT ![n].log = Append(@, v)]

\* handleSet; a refusal, or a node that is down, is retried.
ServeSet ==
  /\ call.op = "set" /\ call.stage = "sent"
  /\ IF TakesWrite(call.to) THEN Wrote(call.to, call.value) /\ Return(0)
     ELSE UNCHANGED rep /\ NextAttempt
  /\ UNCHANGED <<layouts, view, late, failovers, calls, spent>>

\* handleGet checks, and reads afterwards without another look.
CheckGet ==
  /\ call.op = "get" /\ call.stage = "sent"
  /\ IF ServesRead(call.to)
       THEN call' = [call EXCEPT !.stage = "reading"] /\ UNCHANGED outcome
       ELSE NextCandidate
  /\ UNCHANGED <<cluster, late, failovers, calls, spent>>

\* A replica that its node has dropped meanwhile answers as it did just before,
\* so that only a dead node is passed over.
ReadGet ==
  /\ call.op = "get" /\ call.stage = "reading"
  /\ IF rep[call.to].role = "none" THEN NextCandidate ELSE Return(ValueOf(rep[call.to].log))
  /\ UNCHANGED <<cluster, late, failovers, calls, spent>>

\* A request or an answer is lost between a load balancer and a node, or
\* between the client and its load balancer.
LoseRequest ==
  /\ Fault /\ call.stage = "sent"
  /\ (IF call.op = "get" THEN NextCandidate ELSE NextAttempt) \/ NextTry
  /\ UNCHANGED <<cluster, late, failovers, calls>>

LoseAnswer ==
  /\ Fault /\ call.op = "set" /\ call.stage = "sent" /\ TakesWrite(call.to)
  /\ Wrote(call.to, call.value)
  /\ NextAttempt \/ NextTry
  /\ UNCHANGED <<layouts, view, late, failovers, calls>>

\* The sender times out while the request is still on its way.
Overtake ==
  /\ Fault /\ call.op = "set" /\ call.stage = "sent"
  /\ late' = late \cup {<<call.to, call.value>>}
  /\ NextAttempt \/ NextTry
  /\ UNCHANGED <<cluster, failovers, calls>>

ServeLate ==
  /\ \E w \in late :
       /\ late' = late \ {w}
       /\ IF TakesWrite(w[1]) THEN Wrote(w[1], w[2]) /\ recent' = recent \cup {w[2]}
          ELSE UNCHANGED <<rep, recent>>
  /\ UNCHANGED <<layouts, view, call, answer, acked, failovers, calls, spent>>

----------------------------------------------------------------------------
(* Meanwhile the layout changes, and everyone learns of it in time.        *)

\* What the call and its ghosts have, and the epochs begun by failovers.
Unaffected == UNCHANGED <<call, late, outcome, calls>>
NoFailover == Unaffected /\ UNCHANGED failovers

PutLayout(l) == layouts' = Append(layouts, l)

\* The epoch a replica is in.
Epoch(n) == layouts[view[n]].epoch

\* resetLocked.
Empty(role) == [role |-> role, synced |-> FALSE, dataEpoch |-> 0, sealed |-> FALSE, log |-> <<>>]

ApplyLB(b, v) ==
  /\ v > view[b] /\ view' = [view EXCEPT ![b] = v]
  /\ NoFailover /\ UNCHANGED <<layouts, rep, spent>>

\* A node that has registered, as opposed to one that has died: a layout that it
\* sees from now on is for the incarnation that it is.
Registered(n) == rep[n].role # "none" \/ n \notin layouts[view[n]].members

\* reconcile.  A demoted leader throws its data away; a node that is not a
\* member any more drops the replica.
ApplyNode(n, v) ==
  LET l == layouts[v]
      r == rep[n]
  IN /\ v > view[n] /\ view' = [view EXCEPT ![n] = v]
     /\ Registered(n) /\ (r.role = "none" => n \in l.members)
     /\ rep' = [rep EXCEPT ![n] =
          CASE n \notin l.members -> Empty("none")
            [] l.leader = n -> [r EXCEPT !.role = "leader", !.synced = TRUE, !.dataEpoch = l.epoch,
                                         !.sealed = (l.handoff # 0)]
            [] n \in l.members /\ l.leader # n /\ r.role # "follower" -> Empty("follower")
            [] OTHER -> r]
     /\ NoFailover /\ UNCHANGED <<layouts, spent>>

\* m has not got all of n's log from n.
Behind(m, n) == rep[m].dataEpoch # Epoch(n) \/ rep[m].log # rep[n].log

\* handleReplicate and handleSnapshot answer for the epoch they lead.
Following(m, n) ==
  /\ rep[m].role = "follower" /\ n # NoNode /\ rep[n].role = "leader" /\ Epoch(n) = Epoch(m)

\* A follower catches up, with the log or with a snapshot.
Replicate(m) ==
  LET n == layouts[view[m]].leader
  IN /\ Following(m, n) /\ Behind(m, n)
     /\ rep' = [rep EXCEPT ![m].synced = TRUE, ![m].dataEpoch = Epoch(n), ![m].log = rep[n].log]
     /\ NoFailover /\ UNCHANGED <<layouts, view, spent>>

\* A follower too far behind, whose position is refused, drops its data.
StartOver(m) ==
  LET n == layouts[view[m]].leader
  IN /\ Fault /\ Following(m, n) /\ rep[m].synced /\ Behind(m, n)
     /\ rep' = [rep EXCEPT ![m] = Empty("follower")]
     /\ NoFailover /\ UNCHANGED <<layouts, view>>

StartHandoff(m) ==
  /\ handoffs < MaxHandoffs /\ handoffs' = handoffs + 1
  /\ Latest.leader # NoNode /\ Latest.handoff = 0 /\ m \in Latest.followers
  /\ PutLayout([Latest EXCEPT !.handoff = Len(layouts) + 1, !.to = m])
  /\ NoFailover /\ UNCHANGED <<view, rep, faults>>

\* m leads the next epoch.
LedBy(l, m) == [l EXCEPT !.leader = m, !.epoch = @ + 1, !.followers = @ \ {m},
                         !.handoff = 0, !.to = NoNode]

\* Mutant: the sealed leader's position is not compared.
CaughtUpInEpoch(m) == rep[m].synced /\ rep[m].dataEpoch = Latest.epoch

\* m has got all of the leader's log in this epoch.
CaughtUp(m) == rep[m].synced /\ rep[m].dataEpoch = Latest.epoch /\ rep[m].log = rep[Latest.leader].log

\* Mutant: the leader's seal is not waited for.
FinishHandoffUnsealed ==
  /\ Latest.handoff # 0 /\ rep[Latest.leader].role = "leader"
  /\ CaughtUp(Latest.to) /\ PutLayout(LedBy(Latest, Latest.to))
  /\ NoFailover /\ UNCHANGED <<view, rep, spent>>

\* progressHandoff; the old leader joins again.
FinishHandoff ==
  LET n == Latest.leader
  IN /\ Latest.handoff # 0 /\ rep[n].role = "leader"
     /\ rep[n].sealed /\ view[n] >= Latest.handoff
     /\ CaughtUp(Latest.to) /\ PutLayout(LedBy(Latest, Latest.to))
     /\ NoFailover /\ UNCHANGED <<view, rep, spent>>

\* progressHandoff after handoffTimeout: the leader goes on.
CancelHandoff ==
  /\ Latest.handoff # 0 /\ PutLayout([Latest EXCEPT !.handoff = 0, !.to = NoNode])
  /\ NoFailover /\ UNCHANGED <<view, rep, spent>>

\* Members that are neither the leader nor in-sync followers are joining.
Joining(l) == l.members \ (l.followers \cup {l.leader})

\* promoteJoiners; a joiner may lag behind a little.
PromoteJoiner(m) ==
  LET n == Latest.leader
  IN /\ n # NoNode /\ m \in Joining(Latest)
     /\ rep[n].role = "leader" /\ Epoch(n) = Latest.epoch
     /\ rep[m].role = "follower" /\ rep[m].synced /\ rep[m].dataEpoch = Latest.epoch
     /\ PutLayout([Latest EXCEPT !.followers = @ \cup {m}])
     /\ NoFailover /\ UNCHANGED <<view, rep, spent>>

\* Whom failover may choose: an in-sync follower by the layout, whatever it has
\* by now, else a joining replica that has data, else a node without a replica.
Candidates(l, spare) ==
  LET joined == {m \in Joining(l) : rep[m].synced}
  IN CASE l.followers # {} -> l.followers
       [] l.followers = {} /\ joined # {} -> joined
       [] OTHER -> spare

\* failover, on the layout l that membership has made.
Failover(l, spare) ==
  IF l.leader # NoNode \/ Candidates(l, spare) = {}
    THEN PutLayout(l) /\ UNCHANGED failovers
    ELSE /\ \E m \in Candidates(l, spare) : PutLayout(LedBy(l, m))
         /\ failovers' = failovers \cup {l.epoch + 1}

\* removeNode.
Without(l, n) ==
  LET ends == n \in {l.leader, l.to}
  IN [l EXCEPT !.leader = IF @ = n THEN NoNode ELSE @, !.followers = @ \ {n}, !.members = @ \ {n},
               !.handoff = IF ends THEN 0 ELSE @, !.to = IF ends THEN NoNode ELSE @]

\* membership: n's lease has expired, and the planner does without n at once.
\* If n is alive it has not noticed.
Lapse(n) ==
  /\ n \in Latest.members
  /\ Fault \/ (~Registered(n) /\ UNCHANGED spent)
  /\ Failover(Without(Latest, n), {})
  /\ Unaffected /\ UNCHANGED <<view, rep>>

\* A later round finds a leader.
Elect ==
  /\ Latest.leader = NoNode /\ Candidates(Latest, {}) # {} /\ Failover(Latest, {})
  /\ Unaffected /\ UNCHANGED <<view, rep, spent>>

\* The process of n dies.
Crash(n) ==
  /\ Fault /\ rep[n].role # "none" /\ rep' = [rep EXCEPT ![n] = Empty("none")]
  /\ NoFailover /\ UNCHANGED <<layouts, view>>

\* keepMembership: n notices that its lease is gone, and drops its replica.
Notice(n) ==
  /\ rep[n].role # "none" /\ n \notin Latest.members
  /\ rep' = [rep EXCEPT ![n] = Empty("none")]
  /\ NoFailover /\ UNCHANGED <<layouts, view, spent>>

\* n registers, and the planner takes it in: it joins, or leads the partition
\* empty if every replica of it is lost.
Rejoin(n) ==
  /\ rep[n].role = "none" /\ n \notin Latest.members
  /\ Failover([Latest EXCEPT !.members = @ \cup {n}], {n})
  /\ view' = [view EXCEPT ![n] = Len(layouts)]
  /\ Unaffected /\ UNCHANGED <<rep, spent>>

----------------------------------------------------------------------------
CallStep == RouteSet \/ RouteGet \/ ServeSet \/ CheckGet \/ ReadGet

NodeStep(n) ==
  \/ Replicate(n) \/ StartOver(n) \/ StartHandoff(n) \/ PromoteJoiner(n)
  \/ Lapse(n) \/ Crash(n) \/ Notice(n) \/ Rejoin(n)
  \/ \E v \in 1..Len(layouts) : ApplyNode(n, v)

Next ==
  \/ \E b \in LB : Begin("set", b) \/ Begin("get", b) \/ \E v \in 1..Len(layouts) : ApplyLB(b, v)
  \/ CallStep \/ LoseRequest \/ LoseAnswer \/ Overtake \/ ServeLate
  \/ \E n \in Node : NodeStep(n)
  \/ FinishHandoff \/ CancelHandoff \/ Elect

Spec == Init /\ [][Next]_vars

\* The processes of a call keep running, whatever happens to the partition.
FairSpec == Spec /\ WF_vars(CallStep)

----------------------------------------------------------------------------
(* Properties.                                                             *)

\* "checks that this node may serve it": a replica that has to get its data first
\* is not asked, so a read never says that the key, which is there from the
\* start, is not found.  handleGet reads after the check, from what may be an
\* empty replica by then.
KeyNeverVanishes == answer # 0

\* No failover since the epoch whose leader acknowledged the last write.
Undisturbed == \A e \in failovers : e <= acked

\* After the client's last write was acknowledged the leader has its value, or
\* that of a later write that ended with an error, until there is a failover:
\* retries through stale load balancers, nodes that have applied different
\* layouts and handoffs do not bring an older value back.  Only a request that is
\* served after its sender gave it up does, and it stays the only one.  A failover
\* may lose what was not replicated and what the old leader, unaware of it,
\* acknowledges; the first write acknowledged in the new epoch is safe again.
LastWriteWins ==
  LET n == Latest.leader
  IN call.op = "none" /\ Undisturbed /\ n # NoNode /\ rep[n].role # "none" => ValueOf(rep[n].log) \in recent

\* A handoff leaves no second writer: a node that takes writes in an epoch that
\* has ended lost it to a failover, without having noticed that its lease expired.
HandoffEndsWrites ==
  \A n \in Node : TakesWrite(n) /\ Epoch(n) < Latest.epoch => Epoch(n) + 1 \in failovers

\* "Use READ_STRATEGY=leader if you need to read your own writes" (README): the
\* value of a key that is found is the one last written.
ReadYourWrites == answer \notin {NoAnswer, 0} => answer \in recent

\* A call returns, with a result or an error, even if the partition stays
\* without a writable leader.
EveryCallReturns == (call.op # "none") ~> (call.op = "none")
============================================================================
