------------------------------ MODULE Balance ------------------------------
(***************************************************************************)
(* The planner (internal/controller/planner.go) over all the partitions of *)
(* a cluster: who gets a replica depends on how many the nodes hold, and   *)
(* the balancer moves replicas and leaderships.  The question is whether   *)
(* rounds converge, as /api/stable reports it.                             *)
(*                                                                         *)
(* What happens to one partition comes from module Planner; here its       *)
(* choices by load are made as in the code.  What the nodes do between two *)
(* rounds is a level for each copy: 0 without data, 1 with the data of an  *)
(* earlier epoch, 2 caught up with the leader, or leading.                 *)
(***************************************************************************)
EXTENDS Planner

CONSTANTS Partitions,       \* Config.PartitionCount
          MaxMovesPerRound, \* maxMovesPerRound
          Requests,         \* what the administrator and the machines may do
          MaxRequests       \* bound: how often

ASSUME NodesAreOrdered == Node \subseteq Nat
ASSUME PartitionsAssumption == Partitions \in Nat \ {0} /\ MaxMovesPerRound \in Nat
ASSUME RequestsAssumption ==
  /\ Requests \subseteq {"leave", "join", "drain", "transfer", "move", "unpin", "late"}
  /\ MaxRequests \in Nat

VARIABLES
  members,  \* node -> 1 when it is a member of the layout
  parts,    \* partition -> its entry in the layout
  nodes,    \* node -> 1 when it has a lease
  drained,
  level,    \* partition -> node -> how far its copy is
  sealed,   \* partitions whose leader has sealed for the handoff in progress
  requests  \* how much of the bound is used

vars == <<members, parts, nodes, drained, level, sealed, requests>>

Part == 1..Partitions

NewPart == [epoch |-> 0, leader |-> NoNode, followers |-> {}, joining |-> {}, evict |-> {},
            handoffTo |-> NoNode, handoffVersion |-> 0, pinned |-> FALSE]

\* bootstrap: partitions without holders, which the first rounds assign.
Init ==
  /\ members = [n \in Node |-> 0] /\ nodes = [n \in Node |-> 1] /\ drained = {}
  /\ parts = [i \in Part |-> NewPart]
  /\ level = [i \in Part |-> [n \in Node |-> 0]] /\ sealed = {}
  /\ requests = 0

----------------------------------------------------------------------------
(* What a round observes.  Versions only tell whether a leader has seen    *)
(* the handoff, so 1 stands for that of any handoff.                       *)

Status(i) ==
  [n \in Node |->
     IF nodes[n] = 0 \/ n \notin Holders(parts[i]) THEN NoStatus
     ELSE [ok |-> TRUE, version |-> 1, epoch |-> parts[i].epoch,
           role |-> IF n = parts[i].leader /\ level[i][n] = 2 THEN "leader" ELSE "follower",
           dataEpoch |-> IF level[i][n] = 2 THEN parts[i].epoch ELSE 0,
           seq |-> IF level[i][n] = 0 THEN 0 ELSE 1,
           synced |-> level[i][n] > 0,
           sealed |-> n = parts[i].leader /\ i \in sealed]]

In(i, late) == [nodes |-> nodes, drained |-> drained, status |-> Status(i), late |-> i \in late]

----------------------------------------------------------------------------
(* Choices by load.  The counters of computeLoad, which the steps of plan  *)
(* keep up to date, are at any time the count of what the layout holds.    *)

computeLoad(ps, n) ==
  Cardinality({i \in Part : n \in Holders(ps[i]) /\ n \notin drained \cup ps[i].evict})

\* a comes before b for leastLoaded and for the ends of the balancer's scale.
Lighter(ps, a, b) ==
  \/ computeLoad(ps, a) < computeLoad(ps, b)
  \/ computeLoad(ps, a) = computeLoad(ps, b) /\ a <= b

leastLoaded(ps, elig, i) ==
  {n \in elig \ Holders(ps[i]) : \A m \in elig \ Holders(ps[i]) : Lighter(ps, n, m)}

\* A copy goes to a node that holds the fewest, and surplus ones go from those
\* that hold the most.
ByLoad(ps, i, q, elig) ==
  LET p       == ps[i]
      added   == Holders(q) \ Holders(p)
      dropped == {n \in p.followers \ Holders(q) : n \notin drained \cup p.evict}
      kept    == {n \in q.followers : n \notin drained \cup p.evict /\ n # p.handoffTo}
  IN /\ \A n \in added, m \in elig \ Holders(q) : Lighter(ps, n, m)
     /\ \A n \in dropped, m \in kept : computeLoad(ps, n) >= computeLoad(ps, m)

\* Step, from the partitions and one of them to sets of partitions, taken for
\* each of them in turn (Layout.Each).
Each(S, Step(_, _)) ==
  LET after[k \in 0..Partitions] ==
        IF k = 0 THEN S ELSE UNION {Step(ps, k) : ps \in after[k - 1]}
  IN after[Partitions]

With(ps, i, Q) == {[ps EXCEPT ![i] = q] : q \in Q}

----------------------------------------------------------------------------
(* The balancer.                                                           *)

Busiest(ps, elig) ==
  CHOOSE n \in elig : \A m \in elig : \/ computeLoad(ps, n) > computeLoad(ps, m)
                                      \/ computeLoad(ps, n) = computeLoad(ps, m) /\ n <= m

Idlest(ps, elig) == CHOOSE n \in elig : \A m \in elig : Lighter(ps, n, m)

Movable(p, to) ==
  /\ ~p.pinned /\ p.handoffTo = NoNode /\ p.leader # NoNode
  /\ p.joining = {} /\ p.evict = {} /\ to \notin Holders(p)

\* A partition from follows, or else one it leads: the first in the list.
moveReplica(ps, from, to) ==
  LET follows == {i \in Part : Movable(ps[i], to) /\ from \in ps[i].followers}
      leads   == {i \in Part : Movable(ps[i], to) /\ from = ps[i].leader}
      choice  == IF follows # {} THEN follows ELSE leads
  IN IF choice = {} THEN ps
     ELSE [ps EXCEPT ![Min(choice)].joining = {to}, ![Min(choice)].evict = {from}]

\* Mutant: a difference of one is moved as well.
moveIfUneven(ps, elig) ==
  LET hi == Busiest(ps, elig)
      lo == Idlest(ps, elig)
  IN IF computeLoad(ps, hi) - computeLoad(ps, lo) < 1 THEN ps ELSE moveReplica(ps, hi, lo)

moveOnce(ps, elig) ==
  LET hi == Busiest(ps, elig)
      lo == Idlest(ps, elig)
  IN IF computeLoad(ps, hi) - computeLoad(ps, lo) < 2 THEN ps ELSE moveReplica(ps, hi, lo)

balanceReplicas(ps, elig) ==
  LET after[k \in 0..MaxMovesPerRound] ==
        IF k = 0 THEN ps ELSE moveOnce(after[k - 1], elig)
  IN IF Cardinality(elig) < 2 THEN ps ELSE after[MaxMovesPerRound]

Leads(ps, n) == Cardinality({i \in Part : ps[i].leader = n})

\* The followers that partition i may be handed to.
Handable(ps, i, elig, in) ==
  LET p == ps[i]
  IN {f \in p.followers \cap elig :
        /\ p.leader \in elig /\ ~p.pinned /\ p.evict = {}
        /\ in.status[p.leader].ok /\ in.status[f].ok
        /\ Leads(ps, p.leader) - Leads(ps, f) >= 2
        /\ in.status[f].dataEpoch = p.epoch
        /\ in.status[p.leader].seq - in.status[f].seq <= JoinLag}

\* One handoff at a time, of the first partition that has a lighter follower.
balanceLeaders(ps, elig, late) ==
  LET able == {i \in Part : Handable(ps, i, elig, In(i, late)) # {}}
  IN IF able = {} \/ \E i \in Part : ps[i].handoffTo # NoNode THEN {ps}
     ELSE With(ps, Min(able), {startHandoff(ps[Min(able)], f, 1) :
                                 f \in Handable(ps, Min(able), elig, In(Min(able), late))})

----------------------------------------------------------------------------
\* The layouts that a round may make of ps; handoffs in late have timed out.
planAll(ps, late) ==
  LET gone == {n \in Node : members[n] # 0 /\ nodes[n] # members[n]}
      elig == {n \in Node : nodes[n] # 0 /\ n \notin drained}
      left == [i \in Part |-> removeNodes(ps[i], gone)]
      Failover(qs, i) ==
        LET new == leastLoaded(qs, elig, i)
        IN With(qs, i, {q \in failover(qs[i], elig, In(i, late)) :
                          q.leader \in Holders(qs[i]) \cup new \cup {NoNode}})
      Progress(qs, i) ==
        LET in == In(i, late)
        IN With(qs, i, handoffEvictedLeader(progressHandoff(promoteJoiners(qs[i], in), in),
                                            elig, in, 1))
      Fix(qs, i) ==
        With(qs, i, {q \in fixReplicaCount(qs[i], elig, In(i, late)) : ByLoad(qs, i, q, elig)})
      fixed == Each(Each(Each({left}, Failover), Progress), Fix)
  IN UNION {balanceLeaders(balanceReplicas(qs, elig), elig, late) : qs \in fixed}

\* Copies that a change of the layout affects: a new leader and a copy that
\* stays have the data of an earlier epoch, everyone else starts without.
Levels(i, q) ==
  LET p == parts[i]
  IN [n \in Node |->
        CASE n \notin Holders(p) \/ n \notin Holders(q) \/ nodes[n] # members[n] -> 0
          [] q.epoch = p.epoch /\ n \in Holders(p) \cap Holders(q) -> level[i][n]
          [] OTHER -> IF n = p.leader \/ level[i][n] = 0 THEN 0 ELSE 1]

\* The layout becomes ps, and the nodes have not reacted yet.
PutParts(ps) ==
  /\ parts' = ps
  /\ level' = [i \in Part |-> Levels(i, ps[i])]
  /\ sealed' = {i \in sealed : ps[i].handoffTo = parts[i].handoffTo /\ ps[i].epoch = parts[i].epoch}

Request(kind) == kind \in Requests /\ requests < MaxRequests /\ requests' = requests + 1

Round ==
  /\ \E ps \in planAll(parts, {}) : PutParts(ps)
  /\ members' = nodes
  /\ UNCHANGED <<nodes, drained, requests>>

\* A round in which the handoff of partition i is found to take too long.
LateRound(i) ==
  /\ Request("late") /\ parts[i].handoffTo # NoNode
  /\ \E ps \in planAll(parts, {i}) : PutParts(ps)
  /\ members' = nodes
  /\ UNCHANGED <<nodes, drained>>

----------------------------------------------------------------------------
(* The nodes.                                                              *)

\* The leader starts to lead, or a copy catches up with it.
CatchUp(i, n) ==
  LET p == parts[i]
  IN /\ n \in Holders(p) /\ members[n] # 0 /\ nodes[n] # 0 /\ level[i][n] < 2
     /\ p.leader # NoNode /\ (n = p.leader \/ level[i][p.leader] = 2)
     /\ level' = [level EXCEPT ![i][n] = 2]
     /\ UNCHANGED <<members, parts, nodes, drained, sealed, requests>>

\* The leader refuses the position of a copy, which drops its data.
StartOver(i, n) ==
  /\ level[i][n] = 1 /\ n # parts[i].leader
  /\ level' = [level EXCEPT ![i][n] = 0]
  /\ UNCHANGED <<members, parts, nodes, drained, sealed, requests>>

Seal(i) ==
  /\ parts[i].handoffTo # NoNode /\ i \notin sealed
  /\ nodes[parts[i].leader] # 0 /\ level[i][parts[i].leader] = 2
  /\ sealed' = sealed \cup {i}
  /\ UNCHANGED <<members, parts, nodes, drained, level, requests>>

----------------------------------------------------------------------------
(* Requests.                                                               *)

Leave(n) ==
  /\ Request("leave") /\ nodes[n] = 1
  /\ nodes' = [nodes EXCEPT ![n] = 0]
  /\ UNCHANGED <<members, parts, drained, level, sealed>>

\* A lease that comes back is that of another incarnation; it is granted when
\* the planner has noticed the loss.
Join(n) ==
  /\ Request("join") /\ nodes[n] = 0 /\ members[n] = 0
  /\ nodes' = [nodes EXCEPT ![n] = 1]
  /\ UNCHANGED <<members, parts, drained, level, sealed>>

SetDrained(n) ==
  /\ Request("drain")
  /\ drained' = IF n \in drained THEN drained \ {n} ELSE drained \cup {n}
  /\ UNCHANGED <<members, parts, nodes, level, sealed>>

handleTransferLeader(i, n) ==
  /\ Request("transfer") /\ parts[i].handoffTo = NoNode /\ n \in parts[i].followers
  /\ PutParts([parts EXCEPT ![i] = [startHandoff(@, n, 1) EXCEPT !.pinned = TRUE]])
  /\ UNCHANGED <<members, nodes, drained>>

handleMove(i, from, to) ==
  /\ Request("move")
  /\ from \in Holders(parts[i]) /\ to \notin Holders(parts[i]) /\ members[to] # 0
  /\ PutParts([parts EXCEPT ![i].joining = @ \cup {to}, ![i].evict = @ \cup {from},
                            ![i].pinned = TRUE])
  /\ UNCHANGED <<members, nodes, drained>>

handleUnpin(i) ==
  /\ Request("unpin") /\ parts[i].pinned
  /\ PutParts([parts EXCEPT ![i].pinned = FALSE])
  /\ UNCHANGED <<members, nodes, drained>>

NodeStep(i, n) == CatchUp(i, n) \/ StartOver(i, n)

Next ==
  \/ Round
  \/ \E i \in Part : LateRound(i) \/ Seal(i) \/ handleUnpin(i)
  \/ \E i \in Part, n \in Node : NodeStep(i, n) \/ handleTransferLeader(i, n)
  \/ \E i \in Part, from, to \in Node : handleMove(i, from, to)
  \/ \E n \in Node : Leave(n) \/ Join(n) \/ SetDrained(n)

Spec == Init /\ [][Next]_vars

RoundIdle == members = nodes /\ planAll(parts, {}) = {parts}

\* Rounds follow each other, and nodes react to the layout.  The first conjunct
\* is weak fairness of Round with its enabling condition written out.
Fairness ==
  /\ []<>RoundIdle \/ []<><<Round>>_vars
  /\ \A i \in Part : WF_vars(Seal(i)) /\ \A n \in Node : WF_vars(CatchUp(i, n))

FairSpec == Spec /\ Fairness

----------------------------------------------------------------------------
(* Properties.                                                             *)

\* The difference between the largest and the smallest of the counts.
spread(counts) == IF counts = {} THEN 0 ELSE Max(counts) - Min(counts)

\* unstableReason finds nothing.
Stable ==
  LET elig == {n \in Node : members[n] # 0 /\ n \notin drained}
      Replicas(n) == Cardinality({i \in Part : n \in Holders(parts[i])})
      Leaders(n) == Leads(parts, n)
  IN /\ \A i \in Part :
          LET p == parts[i]
          IN /\ p.leader # NoNode /\ p.handoffTo = NoNode /\ p.joining = {} /\ p.evict = {}
             /\ 1 + Cardinality(p.followers) = desiredCopies(elig)
             /\ Holders(p) \cap drained = {}
     /\ spread({Replicas(n) : n \in elig}) < 2 /\ spread({Leaders(n) : n \in elig}) < 2

\* The nodes have done what the layout asks of them, and one more round would
\* change nothing.
AtRest ==
  /\ members = nodes /\ \E n \in Node : nodes[n] # 0 /\ n \notin drained
  /\ \A i \in Part, n \in Node : n \in Holders(parts[i]) => level[i][n] = 2
  /\ \A i \in Part : parts[i].handoffTo # NoNode => i \in sealed
  /\ RoundIdle


\* "no more changes but not stable" must not happen (converge, planner_test):
\* when rounds have nothing left to do and nothing is pinned, /api/stable
\* reports it.
QuietMeansStable == AtRest /\ (\A i \in Part : ~parts[i].pinned) => Stable

\* The next layout takes a copy of S away from a node that stays a member,
\* while the in-sync copies of partition i are fewer than desired.
RemovesTooEarly(i, S) ==
  LET q    == parts'[i]
      elig == {n \in Node : members'[n] # 0} \ drained
  IN /\ \E n \in S : n \notin Holders(q) /\ members'[n] = members[n]
     /\ Cardinality(({q.leader} \ {NoNode}) \cup q.followers) < desiredCopies(elig)

\* "Surplus copies are only removed while enough in-sync copies remain"
\* (README, fixReplicaCount): for followers, whatever is drained, moved,
\* balanced or lost meanwhile.
FollowersOutlastMoves ==
  [][\A i \in Part : ~RemovesTooEarly(i, parts[i].followers)]_parts

\* "The old one is evicted once the new one is in sync" (README, handleMove):
\* the same of the leader's copy, when nothing is drained.
CopiesOutlastMoves ==
  [][drained = {} => \A i \in Part : ~RemovesTooEarly(i, {parts[i].leader} \ {NoNode})]_parts

\* The planner does not undo its own moves: once requests end, rounds stop
\* changing the layout.
Settles == <>[][FALSE]_parts
============================================================================
