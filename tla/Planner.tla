------------------------------ MODULE Planner ------------------------------
(***************************************************************************)
(* The controller's planner (internal/controller/planner.go) for one       *)
(* partition: the pure function plan as operators from a layout and what   *)
(* the round observed to the set of layouts it may produce.                *)
(*                                                                         *)
(* The holders of a partition are sets.  Where the Go code breaks a tie by *)
(* list order or by the load of a node, which depends on the partitions    *)
(* this module does not see, any of the tied nodes may be chosen.          *)
(***************************************************************************)
EXTENDS Integers, FiniteSets, SequencesExt

CONSTANTS Node, NoNode,
          RF,       \* Config.ReplicationFactor
          JoinLag   \* joinLagThreshold

ASSUME RFAssumption == RF \in Nat \ {0}
ASSUME JoinLagAssumption == JoinLag \in Nat
ASSUME NodeAssumption == IsFiniteSet(Node) /\ NoNode \notin Node

(* A layout is [version, members, part]; members maps a node to its        *)
(* incarnation, 0 when it is not a member.  A round's input is [nodes,     *)
(* drained, status, late]: live leases, drained nodes, what each node      *)
(* reported, and whether a running handoff has exceeded its timeout.       *)

\* The zero value of model.PartitionStatus, used when there is no report.
NoStatus == [ok |-> FALSE, version |-> 0, role |-> "none", epoch |-> 0, dataEpoch |-> 0,
             seq |-> 0, synced |-> FALSE, sealed |-> FALSE]

Holders(p) == ({p.leader} \ {NoNode}) \cup p.followers \cup p.joining

Eligible(l, in) == {n \in Node : l.members[n] # 0 /\ n \notin in.drained}

evicted(n, p, in) == n \in in.drained \/ n \in p.evict

----------------------------------------------------------------------------
(* Membership.                                                             *)

clearHandoff(p) == [p EXCEPT !.handoffTo = NoNode, !.handoffVersion = 0]

removeNodes(p, gone) ==
  LET q == [p EXCEPT !.leader = IF @ \in gone THEN NoNode ELSE @,
                     !.followers = @ \ gone, !.joining = @ \ gone, !.evict = @ \ gone]
  IN IF p.handoffTo \in gone THEN clearHandoff(q) ELSE q

\* A member without a lease, or with another incarnation, loses every role.
membership(l, in) ==
  LET gone == {n \in Node : l.members[n] # 0 /\ in.nodes[n] # l.members[n]}
  IN [l EXCEPT !.members = in.nodes, !.part = removeNodes(@, gone)]

----------------------------------------------------------------------------
(* Failover.                                                               *)

Fresher(a, b) ==
  \/ a.dataEpoch > b.dataEpoch
  \/ a.dataEpoch = b.dataEpoch /\ a.seq > b.seq

\* The candidates no other one beats: not drained first, then newest data.
mostUpToDate(candidates, requireSynced, elig, status) ==
  LET pool == {c \in candidates : requireSynced => status[c].synced}
      Better(c, d) == \/ c \in elig /\ d \notin elig
                      \/ (c \in elig <=> d \in elig) /\ Fresher(status[c], status[d])
  IN {c \in pool : \A d \in pool : ~Better(d, c)}

\* Mutant: the new leader starts in the old epoch.
leadSameEpoch(p, n) ==
  clearHandoff([p EXCEPT !.leader = n, !.followers = @ \ {n}, !.joining = @ \ {n}])

\* Mutant: the new leader stays in the list it came from.
leadStaysFollower(p, n) == clearHandoff([p EXCEPT !.leader = n, !.epoch = @ + 1])

lead(p, n) ==
  clearHandoff([p EXCEPT !.leader = n, !.epoch = @ + 1,
                         !.followers = @ \ {n}, !.joining = @ \ {n}])

\* Followers, then synced joiners, then any eligible node, which starts empty.
failover(p, elig, in) ==
  LET followers == mostUpToDate(p.followers, FALSE, elig, in.status)
      joiners   == mostUpToDate(p.joining, TRUE, elig, in.status)
      choice    == IF followers # {} THEN followers
                   ELSE IF joiners # {} THEN joiners ELSE elig \ Holders(p)
  IN IF p.leader # NoNode \/ choice = {} THEN {p} ELSE {lead(p, n) : n \in choice}

\* Mutant: the threshold is exclusive.
promoteJoinersStrict(p, in) ==
  LET leader == in.status[p.leader]
      ready  == {j \in p.joining : LET st == in.status[j] IN
                   /\ st.synced /\ st.role = "follower" /\ st.dataEpoch = p.epoch
                   /\ leader.seq - st.seq < JoinLag}
  IN IF p.leader # NoNode /\ leader.role = "leader" /\ leader.epoch = p.epoch
       THEN [p EXCEPT !.joining = @ \ ready, !.followers = @ \cup ready]
       ELSE p

promoteJoiners(p, in) ==
  LET leader == in.status[p.leader]
      ready  == {j \in p.joining : LET st == in.status[j] IN
                   /\ st.synced /\ st.role = "follower" /\ st.dataEpoch = p.epoch
                   /\ leader.seq - st.seq <= JoinLag}
  IN IF p.leader # NoNode /\ leader.role = "leader" /\ leader.epoch = p.epoch
       THEN [p EXCEPT !.joining = @ \ ready, !.followers = @ \cup ready]
       ELSE p

----------------------------------------------------------------------------
(* Handoff.                                                                *)

startHandoff(p, target, version) ==
  [p EXCEPT !.handoffTo = target, !.handoffVersion = version]

\* Mutant: a sealed status of an earlier handoff is believed.
HandoffReadyAnyVersion(p, in) ==
  LET leader == in.status[p.leader]
      target == in.status[p.handoffTo]
  IN /\ leader.sealed
     /\ target.ok /\ target.dataEpoch = p.epoch /\ target.seq >= leader.seq

\* The leader has sealed for this handoff and the target is at its position.
HandoffReady(p, in) ==
  LET leader == in.status[p.leader]
      target == in.status[p.handoffTo]
  IN /\ leader.version >= p.handoffVersion /\ leader.sealed
     /\ target.ok /\ target.dataEpoch = p.epoch /\ target.seq >= leader.seq

\* Cancelled, timed out, still waiting, or completed: the old leader then
\* rejoins, or leaves if it was being moved off.
progressHandoff(p, in) ==
  CASE p.handoffTo = NoNode -> p
    [] p.handoffTo # NoNode /\ (p.leader = NoNode \/ p.handoffTo \notin p.followers \/ in.late)
         -> clearHandoff(p)
    [] OTHER
         -> IF ~HandoffReady(p, in) THEN p
            ELSE LET q == lead(p, p.handoffTo)
                 IN IF evicted(p.leader, p, in)
                      THEN [q EXCEPT !.evict = @ \ {p.leader}]
                      ELSE [q EXCEPT !.joining = @ \cup {p.leader}]

handoffEvictedLeader(p, elig, in, version) ==
  LET targets == mostUpToDate({f \in p.followers : f \in elig /\ ~evicted(f, p, in)},
                              TRUE, elig, in.status)
  IN IF \/ p.leader = NoNode \/ p.handoffTo # NoNode
        \/ ~evicted(p.leader, p, in) \/ targets = {}
       THEN {p} ELSE {startHandoff(p, t, version) : t \in targets}

----------------------------------------------------------------------------
(* Replica count.                                                          *)

desiredCopies(elig) == IF RF > Cardinality(elig) THEN Cardinality(elig) ELSE RF

\* n members of S, or all of them when there are fewer.
UpTo(n, S) == IF n <= 0 THEN {{}} ELSE kSubset(IF n > Cardinality(S) THEN Cardinality(S) ELSE n, S)


\* Joining replicas that bring the partition up to the desired copies.
AddReplicas(p, elig, in) ==
  LET kept == {n \in Holders(p) : ~evicted(n, p, in)}
  IN {[p EXCEPT !.joining = @ \cup new] :
        new \in UpTo(desiredCopies(elig) - Cardinality(kept), elig \ Holders(p))}

\* Mutant: joining replicas count as copies.
InSyncWithJoiners(p, in) == {n \in Holders(p) : ~evicted(n, p, in)}

InSync(p, in) == {n \in {p.leader} \cup p.followers : ~evicted(n, p, in)}

\* Once enough copies are in sync, evicted and surplus ones go, and so do
\* replicas still joining.
DropReplicas(p, elig, in) ==
  LET spare == {n \in p.followers \cup p.joining : evicted(n, p, in) /\ n # p.handoffTo}
      kept  == {f \in p.followers \ {p.handoffTo} : ~evicted(f, p, in)}
      extra == Cardinality(InSync(p, in)) - desiredCopies(elig)
  IN IF extra < 0 THEN {p}
     ELSE {[p EXCEPT !.followers = @ \ (spare \cup victims),
                     !.joining = {j \in @ \ spare : evicted(j, p, in)}] :
             victims \in UpTo(extra, kept)}

fixReplicaCount(p, elig, in) ==
  IF p.leader = NoNode \/ desiredCopies(elig) = 0 THEN {p}
  ELSE {[r EXCEPT !.evict = @ \cap Holders(r)] :
          r \in UNION {DropReplicas(q, elig, in) : q \in AddReplicas(p, elig, in)}}

----------------------------------------------------------------------------
\* One round, on a layout whose version has been bumped already.
plan(l, in) ==
  LET m     == membership(l, in)
      elig  == Eligible(m, in)
      led   == failover(m.part, elig, in)
      moved == {progressHandoff(promoteJoiners(p, in), in) : p \in led}
      begun == UNION {handoffEvictedLeader(p, elig, in, l.version) : p \in moved}
  IN {[m EXCEPT !.part = p] : p \in UNION {fixReplicaCount(q, elig, in) : q \in begun}}
============================================================================
