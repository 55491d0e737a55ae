---------------------------- MODULE Replication ----------------------------
(***************************************************************************)
(* One partition and the processes that keep its copies: the nodes that    *)
(* hold it (internal/partition/partition.go, internal/node/node.go), the   *)
(* etcd leases and layout they watch (internal/registry/etcd.go) and the   *)
(* controller's rounds (internal/controller/controller.go, with the        *)
(* planner of module Planner).                                             *)
(*                                                                         *)
(* A replica's WAL and store are one history of entries, a pair of the     *)
(* epoch that wrote it and "write" or "checkpoint"; its length is the      *)
(* sequence number.  Modules WAL and Store justify this: After returns     *)
(* exactly the entries that follow or reports them truncated, and a store  *)
(* is a map that only the logged operations change.                        *)
(***************************************************************************)
EXTENDS Planner

CONSTANTS Retain,      \* WAL entries kept for replicas that fall behind
          Batch,       \* replicationBatch
          FlushSize,   \* writes that fill the memtable
          PromptServe, \* no demotion between a replicate handler's checks and its read
          MaxSeq,      \* bound: length of a history
          MaxEpoch,    \* bound: epochs the planner may start
          MaxVersion,  \* bound: layouts written
          MaxFaults,   \* bound: crashes and expired leases
          MaxRequests  \* bound: requests of the administrator

ASSUME RetainAssumption == Retain \in Nat \ {0} /\ Batch \in Nat \ {0} /\ FlushSize \in Nat \ {0}
ASSUME ReplicationBounds ==
  /\ MaxSeq \in Nat /\ MaxSeq >= RF - 1 /\ MaxEpoch \in Nat \ {0} /\ MaxVersion \in Nat \ {0, 1}
  /\ MaxFaults \in Nat /\ MaxRequests \in Nat /\ PromptServe \in BOOLEAN

VARIABLES
  layout,   \* the layout in etcd
  lease,    \* node -> incarnation its lease-bound key holds, 0 when gone
  drained,  \* nodes marked for removal in etcd
  inc,      \* node -> incarnation of the process
  joined,   \* node -> whether that incarnation has registered
  pending,  \* node -> layouts its watch has not applied yet
  view,     \* node -> layout it applied last
  rep,      \* node -> its replica of the partition
  call,     \* node -> the request of its replication loop
  round,    \* the controller's round in progress
  lineage,  \* ghost: epoch -> history of the leader of that epoch
  handed,   \* ghost: epochs that began with a completed handoff
  faults, requests  \* how much of the two bounds is used

etcd  == <<layout, lease, drained>>
ghost == <<lineage, handed>>
spent == <<faults, requests>>
vars  == <<layout, lease, drained, inc, joined, pending, view, rep, call, round,
           lineage, handed, faults, requests>>

Epoch == 1..MaxEpoch

NoReplica == [role |-> "none", epoch |-> 0, dataEpoch |-> 0, prevEpoch |-> -1,
              promotedSeq |-> 0, synced |-> FALSE, sealed |-> FALSE,
              hist |-> <<>>, origin |-> 0]

NewPartition == [NoReplica EXCEPT !.role = "follower"]

NoCall == [stage |-> "none", to |-> NoNode, epoch |-> 0, after |-> 0, data |-> <<>>]

NoRound == [open |-> FALSE, nodes |-> [n \in Node |-> 0], drained |-> {},
            status |-> [n \in Node |-> NoStatus]]

\* Before the first layout reaches a node.
NoLayout == [version |-> 0, members |-> [n \in Node |-> 0],
             part |-> [epoch |-> 0, leader |-> NoNode, followers |-> {}, joining |-> {},
                       evict |-> {}, handoffTo |-> NoNode, handoffVersion |-> 0]]

Seq0(r) == Len(r.hist)

\* A new cluster has converged: every follower has loaded its snapshot, the
\* checkpoints of which are all the log holds, and every node has applied the
\* layout in which the planner counts it as in sync.
Init ==
  \E n \in Node, fs \in SUBSET Node : \E o \in Injection(fs, 1..(RF - 1)) :
    LET start == [version |-> 2, members |-> [m \in Node |-> 1],
                  part |-> [NoLayout.part EXCEPT !.epoch = 1, !.leader = n, !.followers = fs]]
        log   == [i \in 1..(RF - 1) |-> <<1, "checkpoint">>]
        held  == [NewPartition EXCEPT !.epoch = 1, !.dataEpoch = 1, !.synced = TRUE, !.hist = log]
    IN /\ n \notin fs /\ Cardinality(fs) = RF - 1
       /\ layout = start
       /\ lease = [m \in Node |-> 1] /\ drained = {}
       /\ inc = [m \in Node |-> 1] /\ joined = [m \in Node |-> TRUE]
       /\ pending = [m \in Node |-> <<>>] /\ view = [m \in Node |-> start]
       /\ rep = [m \in Node |-> CASE m = n -> [held EXCEPT !.role = "leader"]
                                  [] m \in fs -> [held EXCEPT !.origin = o[m]]
                                  [] OTHER -> NoReplica]
       /\ call = [m \in Node |-> NoCall] /\ round = NoRound
       /\ lineage = [e \in Epoch |-> IF e = 1 THEN log ELSE <<>>] /\ handed = {}
       /\ faults = 0 /\ requests = 0

----------------------------------------------------------------------------
(* A replica.                                                              *)

resetLocked(r) ==
  [r EXCEPT !.hist = <<>>, !.origin = 0, !.synced = FALSE, !.dataEpoch = 0]

LeadFresh(r, epoch) ==
  [resetLocked(r) EXCEPT !.role = "leader", !.epoch = epoch, !.dataEpoch = epoch,
                         !.prevEpoch = -1, !.promotedSeq = 0, !.synced = TRUE]

Promote(r, epoch) ==
  [r EXCEPT !.prevEpoch = IF r.synced THEN r.dataEpoch ELSE -1,
            !.promotedSeq = Seq0(r), !.role = "leader", !.epoch = epoch,
            !.dataEpoch = epoch, !.synced = TRUE, !.sealed = FALSE]

\* A demoted leader throws its data away.
Follow(r, epoch) ==
  LET kept == IF r.role = "leader" THEN resetLocked(r) ELSE r
  IN [kept EXCEPT !.role = "follower", !.epoch = epoch, !.sealed = FALSE]

\* Mutant: any position within the log is accepted from the previous epoch.
CanServeUnbounded(r, dataEpoch, after) ==
  /\ after <= Seq0(r)
  /\ \/ dataEpoch = r.epoch
     \/ r.prevEpoch >= 0 /\ dataEpoch = r.prevEpoch

CanServe(r, dataEpoch, after) ==
  /\ after <= Seq0(r)
  /\ \/ dataEpoch = r.epoch
     \/ r.prevEpoch >= 0 /\ dataEpoch = r.prevEpoch /\ after <= r.promotedSeq

\* Whether After may refuse a position (WAL!RetentionWindow), and must.
MayBeTruncated(r, after)  == after < r.origin \/ Seq0(r) - after > Retain
MustBeTruncated(r, after) == after < r.origin

Status(n) == [ok |-> rep[n].role # "none", version |-> view[n].version, role |-> rep[n].role,
              epoch |-> rep[n].epoch, dataEpoch |-> rep[n].dataEpoch, seq |-> Seq0(rep[n]),
              synced |-> rep[n].synced, sealed |-> rep[n].sealed]

----------------------------------------------------------------------------
(* Writes.                                                                 *)

\* The leader n logs entries of its own epoch.
Log(n, kinds) ==
  LET e     == rep[n].epoch
      grown == rep[n].hist \o [i \in 1..Len(kinds) |-> <<e, kinds[i]>>]
  IN /\ Len(grown) <= MaxSeq
     /\ rep' = [rep EXCEPT ![n].hist = grown]
     /\ lineage' = [lineage EXCEPT ![e] = grown]

\* One more write (to a new key) fills the memtable: it holds the writes since
\* the last checkpoint.
MemtableFills(h) ==
  \E i \in 0..Len(h) :
    /\ i = 0 \/ h[i][2] = "checkpoint"
    /\ \A j \in (i + 1)..Len(h) : h[j][2] = "write"
    /\ Len(h) - i + 1 >= FlushSize

\* A set or delete the leader acknowledges, and the checkpoint that follows
\* it when the memtable is full.
Write(n) ==
  /\ rep[n].role = "leader" /\ ~rep[n].sealed
  /\ Log(n, IF MemtableFills(rep[n].hist) THEN <<"write", "checkpoint">> ELSE <<"write">>)
  /\ UNCHANGED <<etcd, inc, joined, pending, view, call, round, handed, spent>>

----------------------------------------------------------------------------
(* Replication.  A request refused with 404 or 409, or lost on its way,    *)
(* changes nothing: the loop tries again.                                  *)

CanAsk(n, m) ==
  /\ call[n].stage = "none" /\ rep[n].role = "follower"
  /\ m = view[n].part.leader /\ m # NoNode /\ m # n
  /\ rep[m].role = "leader" /\ rep[m].epoch = rep[n].epoch

\* The loop of n asks m for the log after its position; the handler of m has
\* passed its checks, or refuses with 410.
AskLog(n, m) ==
  /\ CanAsk(n, m) /\ rep[n].synced
  /\ call' = [call EXCEPT ![n] =
       [stage |-> IF CanServe(rep[m], rep[n].dataEpoch, Seq0(rep[n])) THEN "checked" ELSE "gone",
        to |-> m, epoch |-> rep[n].epoch, after |-> Seq0(rep[n]), data |-> <<>>]]
  /\ UNCHANGED <<etcd, inc, joined, pending, view, rep, round, ghost, spent>>

\* The read of handleReplicate, first or after the wait.  With nothing to
\* answer the handler waits, and then checks its role again.
ServeLog(n) ==
  LET c      == call[n]
      r      == rep[c.to]
      leads  == r.role = "leader" /\ r.epoch = c.epoch
      end    == IF Seq0(r) - c.after > Batch THEN c.after + Batch ELSE Seq0(r)
  IN /\ c.stage = "checked"
     /\ PromptServe => leads
     /\ \/ /\ MayBeTruncated(r, c.after)
           /\ call' = [call EXCEPT ![n].stage = "gone"]
        \/ /\ ~MustBeTruncated(r, c.after) /\ (leads \/ c.after < Seq0(r))
           /\ call' = [call EXCEPT ![n].stage = "entries",
                                   ![n].data = SubSeq(r.hist, c.after + 1, end)]
     /\ UNCHANGED <<etcd, inc, joined, pending, view, rep, round, ghost, spent>>

\* The loop of n asks for a snapshot: m logs a checkpoint, even when sealed,
\* and answers with everything before it.
AskSnapshot(n, m) ==
  /\ CanAsk(n, m) /\ ~rep[n].synced
  /\ Log(m, <<"checkpoint">>)
  /\ call' = [call EXCEPT ![n] = [stage |-> "snapshot", to |-> m, epoch |-> rep[m].epoch,
                                  after |-> 0, data |-> rep'[m].hist]]
  /\ UNCHANGED <<etcd, inc, joined, pending, view, round, handed, spent>>

\* ApplyLogEntries.
ApplyLog(n) ==
  /\ call[n].stage = "entries"
  /\ rep' = [rep EXCEPT ![n].hist = @ \o call[n].data, ![n].dataEpoch = call[n].epoch]
  /\ call' = [call EXCEPT ![n] = NoCall]
  /\ UNCHANGED <<etcd, inc, joined, pending, view, round, ghost, spent>>

LoadSnapshot(n) ==
  /\ call[n].stage = "snapshot"
  /\ rep' = [rep EXCEPT ![n].hist = call[n].data, ![n].origin = Len(call[n].data),
                        ![n].dataEpoch = call[n].epoch, ![n].synced = TRUE]
  /\ call' = [call EXCEPT ![n] = NoCall]
  /\ UNCHANGED <<etcd, inc, joined, pending, view, round, ghost, spent>>

\* A 410 makes the follower start over.
StartOver(n) ==
  /\ call[n].stage = "gone"
  /\ rep' = [rep EXCEPT ![n] = resetLocked(@)]
  /\ call' = [call EXCEPT ![n] = NoCall]
  /\ UNCHANGED <<etcd, inc, joined, pending, view, round, ghost, spent>>

\* The answer is lost, or the handler refuses after all.
CallFails(n) ==
  /\ call[n].stage # "none"
  /\ call' = [call EXCEPT ![n] = NoCall]
  /\ UNCHANGED <<etcd, inc, joined, pending, view, rep, round, ghost, spent>>

----------------------------------------------------------------------------
(* Reconciling with the layout.                                            *)

Desired(n, l) == l.members[n] = inc[n] /\ n \in Holders(l.part)

Reconciled(n, l) ==
  LET r == rep[n]
      p == l.part
      led == CASE r.role = "none" -> LeadFresh(NewPartition, p.epoch)
               [] r.role = "leader" /\ r.epoch = p.epoch -> r
               [] OTHER -> Promote(r, p.epoch)
  IN CASE ~Desired(n, l) -> NoReplica
       [] Desired(n, l) /\ p.leader = n -> [led EXCEPT !.sealed = (p.handoffTo # NoNode)]
       [] OTHER -> Follow(IF r.role = "none" THEN NewPartition ELSE r, p.epoch)

\* n's replica becomes r.  Its own loop is stopped unless it goes on following.
\* A handler that still holds a dropped replica finds it as it was when it was
\* dropped, so its read is one that came before.
SetReplica(n, r) ==
  /\ rep' = [rep EXCEPT ![n] = r]
  /\ call' = [m \in Node |->
       CASE m = n /\ r.role # "follower" -> NoCall
         [] m # n /\ r.role = "none" /\ call[m].to = n /\ call[m].stage = "checked" -> NoCall
         [] OTHER -> call[m]]
  /\ lineage' = IF r.role = "leader" THEN [lineage EXCEPT ![r.epoch] = r.hist] ELSE lineage

\* The watch applies its i-th undelivered layout and skips the ones before.
ApplyLayout(n, i) ==
  /\ i \in 1..Len(pending[n])
  /\ view' = [view EXCEPT ![n] = pending[n][i]]
  /\ pending' = [pending EXCEPT ![n] = SubSeq(@, i + 1, Len(@))]
  /\ SetReplica(n, Reconciled(n, pending[n][i]))
  /\ UNCHANGED <<etcd, inc, joined, round, handed, spent>>

----------------------------------------------------------------------------
(* Membership.                                                             *)

\* The lease of n expires in etcd: its process is gone, or stalled and does not
\* know, which is a fault of its own.
LeaseExpires(n) ==
  /\ lease[n] # 0
  /\ faults' = IF lease[n] = inc[n] THEN faults + 1 ELSE faults
  /\ faults' <= MaxFaults
  /\ lease' = [lease EXCEPT ![n] = 0]
  /\ UNCHANGED <<layout, drained, inc, joined, pending, view, rep, call, round, ghost, requests>>

\* It finds out, drops everything and continues as a new incarnation.
LeaseLost(n) ==
  /\ joined[n] /\ lease[n] # inc[n]
  /\ inc' = [inc EXCEPT ![n] = @ + 1] /\ joined' = [joined EXCEPT ![n] = FALSE]
  /\ SetReplica(n, NoReplica)
  /\ UNCHANGED <<etcd, pending, view, round, handed, spent>>

\* The process dies and is started again with nothing in memory.
Crash(n) ==
  /\ faults < MaxFaults /\ faults' = faults + 1
  /\ inc' = [inc EXCEPT ![n] = @ + 1] /\ joined' = [joined EXCEPT ![n] = FALSE]
  /\ SetReplica(n, NoReplica)
  /\ view' = [view EXCEPT ![n] = NoLayout] /\ pending' = [pending EXCEPT ![n] = <<layout>>]
  /\ UNCHANGED <<etcd, round, handed, requests>>

Register(n) ==
  /\ ~joined[n]
  /\ joined' = [joined EXCEPT ![n] = TRUE]
  /\ lease' = [lease EXCEPT ![n] = inc[n]]
  /\ UNCHANGED <<layout, drained, inc, pending, view, rep, call, round, ghost, spent>>

----------------------------------------------------------------------------
(* The controller.                                                         *)

BeginRound ==
  /\ ~round.open
  /\ round' = [NoRound EXCEPT !.open = TRUE, !.nodes = lease, !.drained = drained]
  /\ UNCHANGED <<etcd, inc, joined, pending, view, rep, call, ghost, spent>>

\* n answers the poll; an answer of another incarnation is discarded.
PollStatus(n) ==
  /\ round.open /\ round.nodes[n] = inc[n] /\ ~round.status[n].ok /\ rep[n].role # "none"
  /\ round' = [round EXCEPT !.status[n] = Status(n)]
  /\ UNCHANGED <<etcd, inc, joined, pending, view, rep, call, ghost, spent>>

\* The compare-and-swap stores l, and every watch will see it.
PutLayout(l) ==
  /\ l.version <= MaxVersion /\ l.part.epoch <= MaxEpoch
  /\ layout' = l
  /\ pending' = [n \in Node |-> Append(pending[n], l)]

NextVersion == [layout EXCEPT !.version = @ + 1]

\* Nodes that have not answered by now have timed out.  A plan that changes
\* nothing is not written.
FinishRound ==
  /\ round.open /\ round' = NoRound
  /\ \E late \in (IF layout.part.handoffTo = NoNode THEN {FALSE} ELSE BOOLEAN) :
       LET in == [nodes |-> round.nodes, drained |-> round.drained,
                  status |-> round.status, late |-> late]
       IN \E l \in plan(NextVersion, in) :
            \/ /\ l = NextVersion
               /\ UNCHANGED <<layout, pending, handed>>
            \/ /\ l # NextVersion
               /\ PutLayout(l)
               /\ handed' = IF /\ l.part.epoch > layout.part.epoch
                               /\ membership(layout, in).part.leader # NoNode
                              THEN handed \cup {l.part.epoch} ELSE handed
  /\ UNCHANGED <<lease, drained, inc, joined, view, rep, call, lineage, spent>>

\* The controller dies or loses its office in the middle of a round.
AbandonRound ==
  /\ round.open /\ round' = NoRound
  /\ UNCHANGED <<etcd, inc, joined, pending, view, rep, call, ghost, spent>>

Request == requests < MaxRequests /\ requests' = requests + 1 /\ UNCHANGED faults

SetDrained(n) ==
  /\ Request
  /\ drained' = IF n \in drained THEN drained \ {n} ELSE drained \cup {n}
  /\ UNCHANGED <<layout, lease, inc, joined, pending, view, rep, call, round, ghost>>

TransferLeader(n) ==
  /\ Request
  /\ layout.part.handoffTo = NoNode /\ n \in layout.part.followers
  /\ PutLayout([NextVersion EXCEPT !.part = startHandoff(@, n, layout.version + 1)])
  /\ UNCHANGED <<lease, drained, inc, joined, view, rep, call, round, ghost>>

----------------------------------------------------------------------------
ReplicaStep(n) ==
  \/ Write(n)
  \/ \E m \in Node : AskLog(n, m) \/ AskSnapshot(n, m)
  \/ ServeLog(n) \/ ApplyLog(n) \/ LoadSnapshot(n) \/ StartOver(n) \/ CallFails(n)
  \/ \E i \in 1..Len(pending[n]) : ApplyLayout(n, i)

MemberStep(n) == LeaseExpires(n) \/ LeaseLost(n) \/ Crash(n) \/ Register(n)

AdminStep(n) == SetDrained(n) \/ TransferLeader(n)

Next ==
  \/ \E n \in Node : ReplicaStep(n) \/ MemberStep(n) \/ PollStatus(n) \/ AdminStep(n)
  \/ BeginRound \/ FinishRound \/ AbandonRound

Spec == Init /\ [][Next]_vars

\* Processes and watches keep running, and a request ends in one way or another.
NodesRun ==
  \A n \in Node :
    /\ WF_vars(ApplyLayout(n, Len(pending[n])))
    /\ WF_vars(LeaseLost(n)) /\ WF_vars(Register(n))
    /\ WF_vars(\E m \in Node : AskLog(n, m) \/ AskSnapshot(n, m))
    /\ WF_vars(ServeLog(n) \/ ApplyLog(n) \/ LoadSnapshot(n) \/ StartOver(n) \/ CallFails(n))

\* Every node that could has answered the poll.
AllPolled ==
  round.open /\ \A n \in Node : round.nodes[n] = inc[n] /\ rep[n].role # "none" => round.status[n].ok

\* The layouts that a round may write with the answers it has.
Plans ==
  UNION {plan(NextVersion, [nodes |-> round.nodes, drained |-> round.drained,
                            status |-> round.status, late |-> late]) : late \in BOOLEAN}

\* The control loop ticks, polls, and ends its rounds; a change that it would
\* make round after round is made.  (The last is strong fairness of FinishRound,
\* written without ENABLED, which TLC evaluates slowly here.)
RoundsRun ==
  /\ WF_vars(BeginRound) /\ []<>~round.open
  /\ \A n \in Node : WF_vars(PollStatus(n))
  /\ []<>(AllPolled /\ NextVersion \notin Plans /\ layout.version < MaxVersion)
       => []<><<round.open /\ ~round'.open /\ layout' # layout>>_vars

\* A request of n does its work, finds nothing new, or meets a node that has
\* stopped leading.
CallWorks(n) ==
  call[n].stage # "none" /\ call'[n].stage = "none" =>
    \/ rep'[n] # rep[n]
    \/ call[n].stage = "entries" /\ call[n].data = <<>>
    \/ call[n].stage = "checked" /\ (rep[call[n].to].role # "leader" \/ rep[call[n].to].epoch # call[n].epoch)

\* From some time on requests are no longer lost and polls are answered in time.
CalmAtLast ==
  <>[][(\A n \in Node : CallWorks(n)) /\ (round.open /\ ~round'.open => AllPolled)]_vars

FairSpec == Spec /\ NodesRun /\ RoundsRun /\ CalmAtLast

----------------------------------------------------------------------------
(* Properties.                                                             *)

Replica == [role : {"none", "follower", "leader"}, epoch : 0..MaxEpoch,
            dataEpoch : 0..MaxEpoch, prevEpoch : -1..MaxEpoch, promotedSeq : 0..MaxSeq,
            synced : BOOLEAN, sealed : BOOLEAN,
            hist : Seq(Epoch \X {"write", "checkpoint"}), origin : 0..MaxSeq]

\* The values of the fields of a replica and of the processes around it.
TypeOK ==
  /\ rep \in [Node -> Replica]
  /\ call \in [Node -> [stage : {"none", "checked", "entries", "snapshot", "gone"},
                        to : Node \cup {NoNode}, epoch : 0..MaxEpoch, after : 0..MaxSeq,
                        data : Seq(Epoch \X {"write", "checkpoint"})]]
  /\ \A n \in Node : inc[n] \in Nat \ {0} /\ lease[n] \in 0..inc[n]
  /\ layout.version \in 2..MaxVersion /\ layout.part.epoch \in Epoch
  /\ layout.part.leader \notin layout.part.followers \cup layout.part.joining
  /\ layout.part.followers \cap layout.part.joining = {}

\* Two nodes never lead the partition in the same epoch, however late they
\* apply layouts and whatever crashes and failovers happen; epochs therefore
\* identify histories.
OneLeaderPerEpoch ==
  \A m, n \in Node : rep[m].role = "leader" /\ rep[n].role = "leader" /\ m # n
                       => rep[m].epoch # rep[n].epoch

\* "The leader accepted our position, so our data is a prefix of its
\* history" (ApplyLogEntries): a synced replica's data is a prefix of what the
\* leader of its data epoch logged.
DataIsPrefix ==
  \A n \in Node : rep[n].synced => IsPrefix(rep[n].hist, lineage[rep[n].dataEpoch])

Writes(h) == SelectSeq(h, LAMBDA e : e[2] = "write")

\* A completed handoff loses no acknowledged write: whoever leads the epoch it
\* started holds everything the previous leader acknowledged ("so no
\* acknowledged write is lost", README).
HandoffLosesNothing ==
  \A n \in Node : rep[n].role = "leader" /\ rep[n].epoch \in handed =>
    IsPrefix(Writes(lineage[rep[n].epoch - 1]), Writes(rep[n].hist))

\* Every copy the configuration asks for is there, in sync and complete, on
\* nodes that are not drained, and the partition takes writes.
Whole ==
  LET p == layout.part
      Has(n, role) == rep[n].role = role /\ rep[n].epoch = p.epoch
  IN /\ p.leader # NoNode /\ Has(p.leader, "leader") /\ ~rep[p.leader].sealed
     /\ p.joining = {} /\ p.evict = {} /\ p.handoffTo = NoNode
     /\ Holders(p) \cap drained = {}
     /\ Cardinality(Holders(p)) = desiredCopies(Node \ drained)
     /\ \A f \in p.followers :
          Has(f, "follower") /\ rep[f].synced /\ rep[f].hist = rep[p.leader].hist

\* A bound leaves no room for a snapshot or for another layout.
OutOfRoom == layout.version = MaxVersion \/ \E n \in Node : Seq0(rep[n]) >= MaxSeq

\* A partition gets its copies back: once faults and requests are over it ends
\* up with all of them and takes writes, whatever was interrupted.
Heals == <>[](Whole \/ OutOfRoom)

\* "The most up-to-date in-sync follower, else a synced joining replica"
\* (failover): a replica that reported it holds no usable data does not become
\* leader while another surviving copy reported that it does.
FailoverKeepsData ==
  [][\A m, n \in Node :
       /\ layout'.part.leader = n /\ layout'.part.epoch > layout.part.epoch
       /\ m \in Holders(layout.part) /\ layout'.members[m] = layout.members[m]
       /\ round.status[m].synced /\ m \notin round.drained
       => ~(round.status[n].ok /\ ~round.status[n].synced)]_layout

\* "A cluster survives losing up to RF - 1 copies of a partition" (README):
\* after fewer than RF faults, and with no node drained, nobody leads it from
\* nothing.
SurvivesFaults ==
  faults < RF /\ drained = {} => \A n \in Node : rep[n].role = "leader" => rep[n].hist # <<>>
============================================================================
