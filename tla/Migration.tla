----------------------------- MODULE Migration -----------------------------
(***************************************************************************)
(* Resharding seen by one key: its old partition (the source), its new one *)
(* (the target), and the controller that lets the target's leader pull the *)
(* key and then marks the target as done (internal/partition/partition.go  *)
(* Export and Import, internal/node/node.go target and pull,               *)
(* internal/controller/controller.go reshardStep).                         *)
(*                                                                         *)
(* A log holds the values the key was given; 0 stands for a delete and for *)
(* a key that is absent.  The other keys and the other sources of the same *)
(* pull appear as pulls that fail.  What replication does to the source is *)
(* the subject of module Replication: here a new leader of the source has  *)
(* the data of the one before, and the target's follower a prefix of its   *)
(* leader's log.  A leader whose lease expires is alive and knows nothing  *)
(* of it until it sees a later layout: it goes on taking writes, which are *)
(* lost unless its successor still replicates them.                        *)
(***************************************************************************)
EXTENDS Integers, FiniteSets, SequencesExt

CONSTANTS TargetNode,     \* the nodes that hold the target
          Pull, NoPull,   \* slots for pulls that run at the same time
          FreezeOutlasts, \* freezeTTL is longer than the freeze is needed
          FreshPoll,      \* no import between the poll of a round and its layout
          CaughtUpCrash,  \* a target that is done only loses a replicated leader
          MaxWrites,      \* bound: writes to the key
          MaxEvents       \* bound: handoffs, failovers, failed and abandoned pulls

ASSUME TargetAssumption == IsFiniteSet(TargetNode) /\ TargetNode # {}
ASSUME PullAssumption == NoPull \notin Pull
ASSUME MigrationSwitches ==
  FreezeOutlasts \in BOOLEAN /\ FreshPoll \in BOOLEAN /\ CaughtUpCrash \in BOOLEAN
ASSUME MigrationBounds == MaxWrites \in Nat /\ MaxEvents \in Nat

VARIABLES
  layouts, \* the layouts written so far; a version is a position in it
  old,     \* epoch -> the source's leader of that epoch
  new,     \* node -> its replica of the target
  checked, \* epochs whose leader has checked a write and not applied it yet
  poll,    \* what the controller's round knows of the target
  pull,    \* slot -> the pull that runs in it
  waiting, \* the pull whose answer the controller awaits
  truth,   \* ghost: the key's value after the last acknowledged write
  lapsedOld, lapsedNew, \* ghost: the epochs whose leader lost its lease
  writes, events \* how much of the bounds is used

lapsed == <<lapsedOld, lapsedNew>>
ghost  == <<truth, lapsed, writes>>
vars   == <<layouts, old, new, checked, poll, pull, waiting, truth, lapsedOld, lapsedNew, writes, events>>

OldEpoch == 1..(MaxEvents + 1)

Latest == Last(layouts)
ValueOf(log) == IF log = <<>> THEN 0 ELSE Last(log)

NoLeader == [role |-> "none", log |-> <<>>, frozen |-> FALSE, sealed |-> FALSE, view |-> 1]

NoPoll == [version |-> 0, seq |-> 0, follower |-> [m \in TargetNode |-> 0]]

Idle == [pc |-> "idle", node |-> 0, tEpoch |-> 0, sEpoch |-> 0, existing |-> FALSE,
         seen |-> FALSE, after |-> 0, ops |-> <<>>]

\* startResharding has created the target, empty, next to a source that holds
\* the key or does not, and every node has applied that layout.  Which node
\* leads the target makes no difference.
Init ==
  \E log \in {<<>>, <<1>>} : LET n == CHOOSE n \in TargetNode : TRUE IN
    /\ layouts = <<[oldEpoch |-> 1, oldHandoff |-> 0, newLeader |-> n, newEpoch |-> 1,
                    newHandoff |-> 0, done |-> FALSE]>>
    /\ old = [e \in OldEpoch |->
                IF e = 1 THEN [NoLeader EXCEPT !.role = "leader", !.log = log] ELSE NoLeader]
    /\ new = [m \in TargetNode |-> [role |-> IF m = n THEN "leader" ELSE "follower", epoch |-> 1,
                                    dataEpoch |-> IF m = n THEN 1 ELSE 0,
                                    log |-> <<>>, sealed |-> FALSE, view |-> 1]]
    /\ checked = {} /\ poll = NoPoll /\ pull = [p \in Pull |-> Idle] /\ waiting = NoPull
    /\ truth = [value |-> ValueOf(log), side |-> "old"] /\ lapsedOld = {} /\ lapsedNew = {}
    /\ writes = 1 /\ events = 0

Event == events < MaxEvents /\ events' = events + 1

PutLayout(l) == layouts' = Append(layouts, l)

----------------------------------------------------------------------------
(* Data requests.  A node decides with its own view of the layout whether  *)
(* the key belongs to the partition and whether it leads it; the partition *)
(* decides later, under its lock, whether it takes the write.  On the      *)
(* target the two may be one step: once a node saw that the target is done *)
(* the key stays there.                                                    *)

\* Layout.Owns: a done target owns its keys, and until then the source does.
OwnsOld(l) == ~l.done
OwnsNew(l) == l.done

TargetOld(e) ==
  /\ old[e].role = "leader"
  /\ OwnsOld(layouts[old[e].view]) /\ layouts[old[e].view].oldEpoch = e

TargetNew(n) ==
  LET l == layouts[new[n].view] IN OwnsNew(l) /\ l.newLeader = n

Check(e) ==
  /\ TargetOld(e) /\ writes < MaxWrites
  /\ e \notin checked /\ checked' = checked \cup {e}
  /\ UNCHANGED <<layouts, old, new, poll, pull, waiting, ghost, events>>

TakesOld(e) == old[e].role = "leader" /\ ~old[e].sealed /\ ~old[e].frozen
TakesNew(n) == new[n].role = "leader" /\ ~new[n].sealed

\* What a leader without a lease acknowledges does not count.
Acknowledge(v, side, counts) ==
  /\ writes < MaxWrites /\ writes' = writes + 1
  /\ truth' = IF counts THEN [value |-> v, side |-> side] ELSE truth
  /\ UNCHANGED <<layouts, poll, pull, waiting, lapsed, events>>

\* Partition.write: a set to a new value or a delete.
WriteOld(e) ==
  /\ e \in checked /\ checked' = checked \ {e}
  /\ TakesOld(e)
  /\ \E v \in {0, writes + 1} :
       Acknowledge(v, "old", e \notin lapsedOld) /\ old' = [old EXCEPT ![e].log = Append(@, v)]
  /\ UNCHANGED new

WriteNew(n) ==
  /\ TargetNew(n) /\ TakesNew(n)
  /\ \E v \in {0, writes + 1} :
       Acknowledge(v, "new", new[n].epoch \notin lapsedNew) /\ new' = [new EXCEPT ![n].log = Append(@, v)]
  /\ UNCHANGED <<old, checked>>

\* The partition refuses, or the client has gone.
Refuse(e) ==
  /\ e \in checked /\ checked' = checked \ {e}
  /\ UNCHANGED <<layouts, old, new, poll, pull, waiting, ghost, events>>

----------------------------------------------------------------------------
(* Nodes reconcile with a layout they have not applied yet; its            *)
(* predecessors are skipped.                                               *)

\* A leader of the source that is none any more throws its data away, as it does
\* when keepMembership finds that the lease is gone.
ApplyOld(e, v) ==
  LET l == layouts[v]
  IN /\ old[e].role \in {"follower", "leader"} /\ v > old[e].view
     /\ old' = [old EXCEPT ![e] =
          IF l.oldEpoch > e THEN NoLeader
          ELSE [@ EXCEPT !.view = v, !.role = "leader", !.sealed = (l.oldHandoff # 0)]]
     /\ UNCHANGED <<layouts, new, checked, poll, pull, waiting, ghost, events>>

ApplyNew(n, v) ==
  LET l == layouts[v]
  IN /\ v > new[n].view
     /\ new' = [new EXCEPT ![n] =
          IF l.newLeader = n
            THEN [@ EXCEPT !.view = v, !.role = "leader", !.epoch = l.newEpoch,
                           !.dataEpoch = l.newEpoch, !.sealed = (l.newHandoff # 0)]
            ELSE [view |-> v, role |-> "follower", epoch |-> l.newEpoch, sealed |-> FALSE,
                  dataEpoch |-> IF new[n].role = "leader" THEN 0 ELSE new[n].dataEpoch,
                  log |-> IF new[n].role = "leader" THEN <<>> ELSE new[n].log]]
     /\ UNCHANGED <<layouts, old, checked, poll, pull, waiting, ghost, events>>

\* The key's value follows what a successor gets from a leader without a lease.
Follow(follows, log) == truth' = IF follows THEN [truth EXCEPT !.value = ValueOf(log)] ELSE truth

\* The follower m of the target catches up with its leader.
Replicate(m) ==
  LET n == layouts[new[m].view].newLeader
  IN /\ new[m].role = "follower" /\ new[n].role = "leader" /\ new[n].epoch = new[m].epoch
     /\ new[m].log # new[n].log \/ new[m].dataEpoch # new[n].epoch
     /\ new' = [new EXCEPT ![m].log = new[n].log, ![m].dataEpoch = new[n].epoch]
     /\ Follow(Latest.done /\ m = Latest.newLeader /\ new[m].epoch \in lapsedNew, new[n].log)
     /\ UNCHANGED <<layouts, old, checked, poll, pull, waiting, lapsed, writes, events>>

\* The source's leader-to-be follows the leader without a lease until it learns of
\* its promotion; after a handoff it has everything.
FollowOld(e) ==
  /\ e - 1 \in lapsedOld /\ old[e].role = "follower" /\ old[e - 1].role = "leader"
  /\ old[e].log # old[e - 1].log
  /\ old' = [old EXCEPT ![e].log = old[e - 1].log]
  /\ Follow(~Latest.done /\ e = Latest.oldEpoch, old[e - 1].log)
  /\ UNCHANGED <<layouts, new, checked, poll, pull, waiting, lapsed, writes, events>>

----------------------------------------------------------------------------
(* What else happens to the two partitions meanwhile.                      *)

StartHandoff ==
  /\ Event
  /\ \/ Latest.oldHandoff = 0 /\ PutLayout([Latest EXCEPT !.oldHandoff = Len(layouts) + 1])
     \/ Latest.newHandoff = 0 /\ PutLayout([Latest EXCEPT !.newHandoff = Len(layouts) + 1])
  /\ UNCHANGED <<old, new, checked, poll, pull, waiting, ghost>>

\* It takes longer than the planner waits.
CancelHandoff ==
  /\ \/ Latest.oldHandoff # 0 /\ PutLayout([Latest EXCEPT !.oldHandoff = 0])
     \/ Latest.newHandoff # 0 /\ PutLayout([Latest EXCEPT !.newHandoff = 0])
  /\ UNCHANGED <<old, new, checked, poll, pull, waiting, ghost, events>>

\* The source's next leader holds what the last one acknowledged.
LeadOld(l) ==
  /\ PutLayout([l EXCEPT !.oldEpoch = @ + 1, !.oldHandoff = 0])
  /\ old' = [old EXCEPT ![l.oldEpoch + 1] = [NoLeader EXCEPT !.role = "follower",
                                               !.log = old[l.oldEpoch].log, !.view = Len(layouts)]]

FinishOldHandoff ==
  /\ Latest.oldHandoff # 0
  /\ old[Latest.oldEpoch].sealed /\ old[Latest.oldEpoch].view >= Latest.oldHandoff
  /\ LeadOld(Latest)
  /\ UNCHANGED <<new, checked, poll, pull, waiting, ghost, events>>

\* The lease of the source's leader expires, and the planner does without it.
LapseOld ==
  /\ Event
  /\ LeadOld(Latest) /\ lapsedOld' = lapsedOld \cup {Latest.oldEpoch}
  /\ UNCHANGED <<new, checked, poll, pull, waiting, truth, lapsedNew, writes>>

\* Mutant: the status must be of a later layout than the one it is about.
SealedLater(n, version) == new[n].role = "leader" /\ new[n].sealed /\ new[n].view > version

\* The leader reports that it has sealed for the handoff of that version.
Sealed(n, version) == new[n].role = "leader" /\ new[n].sealed /\ new[n].view >= version

\* A round polls the target's leader, sealed for the handoff in progress, and
\* the other replicas.
PollNew ==
  LET n == Latest.newLeader
  IN /\ Latest.newHandoff # 0 /\ poll = NoPoll
     /\ Sealed(n, Latest.newHandoff)
     /\ poll' = [version |-> Latest.newHandoff, seq |-> Len(new[n].log),
                 follower |-> [m \in TargetNode |-> IF new[m].dataEpoch = Latest.newEpoch
                                                      THEN Len(new[m].log) ELSE -1]]
     /\ UNCHANGED <<layouts, old, new, checked, pull, waiting, ghost, events>>

LeadNew(l, m) ==
  PutLayout([l EXCEPT !.newLeader = m, !.newEpoch = @ + 1, !.newHandoff = 0])

\* The same round plans with what it polled, on the layout as it is by now.
FinishNewHandoff ==
  LET n == Latest.newLeader
  IN /\ poll # NoPoll /\ poll' = NoPoll
     /\ \/ /\ poll.version = Latest.newHandoff
           /\ FreshPoll => Len(new[n].log) = poll.seq
           /\ \E m \in TargetNode \ {n} : poll.follower[m] >= poll.seq /\ LeadNew(Latest, m)
        \/ /\ \/ poll.version # Latest.newHandoff
              \/ \A m \in TargetNode \ {n} : poll.follower[m] < poll.seq
              \/ FreshPoll /\ Len(new[n].log) # poll.seq
           /\ UNCHANGED layouts
     /\ UNCHANGED <<old, new, checked, pull, waiting, ghost, events>>

\* m has seen a layout since it lost a lease, so that it is a member again.
Registered(m) ==
  \A i \in 1..Len(layouts) :
    layouts[i].newLeader = m /\ layouts[i].newEpoch \in lapsedNew => new[m].view > i

\* The lease of the target's leader expires; another replica takes over with the
\* part of the log it has.  The pulls of the old leader go on until it notices.
LapseNew ==
  LET n == Latest.newLeader
  IN /\ Event
     /\ \E m \in TargetNode \ {n} :
          /\ Registered(m)
          /\ Latest.done /\ CaughtUpCrash =>
               new[m].epoch = Latest.newEpoch /\ new[m].log = new[n].log
          /\ LeadNew(Latest, m)
     /\ lapsedNew' = lapsedNew \cup {Latest.newEpoch}
     /\ UNCHANGED <<old, new, checked, poll, pull, waiting, truth, lapsedOld, writes>>

----------------------------------------------------------------------------
(* A pull.  It runs on the target's leader, and every export it asks for   *)
(* must come from the source's leader of the epoch the controller named.   *)

\* reshardStep asks for a pull when both partitions are writable.
StartPull(p) ==
  /\ waiting = NoPull /\ pull[p].pc = "idle" /\ waiting' = p
  /\ ~Latest.done /\ Latest.oldHandoff = 0 /\ Latest.newHandoff = 0
  /\ pull' = [pull EXCEPT ![p] = [Idle EXCEPT !.pc = "sent", !.node = Latest.newLeader,
                                   !.tEpoch = Latest.newEpoch, !.sEpoch = Latest.oldEpoch]]
  /\ UNCHANGED <<layouts, old, new, checked, poll, ghost, events>>

Source(p) == old[pull[p].sEpoch]
Into(p) == new[pull[p].node]

\* handleMigratePull checks the epoch, and remembers what an earlier attempt
\* left behind.
ReceivePull(p) ==
  /\ pull[p].pc = "sent" /\ Into(p).role = "leader" /\ Into(p).epoch = pull[p].tEpoch
  /\ pull' = [pull EXCEPT ![p].pc = "snapshot", ![p].existing = (ValueOf(Into(p).log) # 0)]
  /\ UNCHANGED <<layouts, old, new, checked, poll, waiting, ghost, events>>

FetchSnapshot(p) ==
  LET v == ValueOf(Source(p).log)
  IN /\ pull[p].pc = "snapshot" /\ Source(p).role = "leader"
     /\ pull' = [pull EXCEPT ![p].pc = "copy", ![p].seen = (v # 0),
                             ![p].after = Len(Source(p).log),
                             ![p].ops = IF v # 0 THEN <<v>> ELSE <<>>]
     /\ UNCHANGED <<layouts, old, new, checked, poll, waiting, ghost, events>>

\* The leader of the target logs ops, whatever its epoch and even if sealed.
Import(p, ops, next) ==
  /\ Into(p).role = "leader"
  /\ new' = [new EXCEPT ![pull[p].node].log = @ \o ops]
  /\ pull' = [pull EXCEPT ![p].pc = next, ![p].ops = <<>>,
                          ![p].existing = (@ /\ next = "stale")]
  /\ UNCHANGED <<layouts, old, checked, poll, waiting, ghost, events>>

ImportSnapshot(p) == pull[p].pc = "copy" /\ Import(p, pull[p].ops, "stale")

\* Mutant: leftovers stay.
KeepStale(p) == pull[p].pc = "stale" /\ Import(p, <<>>, "freeze")

\* What only an earlier attempt had is deleted.
DeleteStale(p) ==
  /\ pull[p].pc = "stale"
  /\ Import(p, IF pull[p].existing /\ ~pull[p].seen THEN <<0>> ELSE <<>>, "freeze")

\* Export with freeze: the key takes no more writes, and the log since the
\* snapshot is the answer unless it has been truncated.
FreezeSource(p) ==
  /\ pull[p].pc = "freeze" /\ Source(p).role = "leader"
  /\ old' = [old EXCEPT ![pull[p].sEpoch].frozen = TRUE]
  /\ \/ pull' = [pull EXCEPT ![p].pc = "replay",
             ![p].ops = SubSeq(Source(p).log, pull[p].after + 1, Len(Source(p).log))]
     \/ pull' = [pull EXCEPT ![p].pc = "fallback"]
  /\ UNCHANGED <<layouts, new, checked, poll, waiting, ghost, events>>

\* The snapshot taken after the freeze; a key it lacks is deleted.
FetchFrozen(p) ==
  LET v == ValueOf(Source(p).log)
  IN /\ pull[p].pc = "fallback" /\ Source(p).role = "leader"
     /\ pull' = [pull EXCEPT ![p].pc = "replay",
                             ![p].ops = IF v # 0 \/ pull[p].seen THEN <<v>> ELSE <<>>]
     /\ UNCHANGED <<layouts, old, new, checked, poll, waiting, ghost, events>>

ImportLog(p) == pull[p].pc = "replay" /\ Import(p, pull[p].ops, "answer")

\* A pull that meets a partition without the role it needs gives up.
GiveUp(p) ==
  /\ CASE pull[p].pc = "sent" -> Into(p).role # "leader" \/ Into(p).epoch # pull[p].tEpoch
       [] pull[p].pc \in {"copy", "stale", "replay"} -> Into(p).role # "leader"
       [] pull[p].pc \in {"snapshot", "freeze", "fallback"} -> Source(p).role # "leader"
       [] pull[p].pc = "answer" -> waiting # p
       [] OTHER -> FALSE
  /\ pull' = [pull EXCEPT ![p] = Idle]
  /\ waiting' = IF waiting = p THEN NoPull ELSE waiting
  /\ UNCHANGED <<layouts, old, new, checked, poll, ghost, events>>

\* Another source fails, or a message of the pull is lost.
FailPull(p) ==
  /\ Event /\ pull[p].pc # "idle"
  /\ pull' = [pull EXCEPT ![p] = Idle]
  /\ waiting' = IF waiting = p THEN NoPull ELSE waiting
  /\ UNCHANGED <<layouts, old, new, checked, poll, ghost>>

\* The controller times out or loses its office; the pull may go on.
AbandonPull ==
  /\ Event /\ waiting # NoPull
  /\ waiting' = NoPull
  /\ UNCHANGED <<layouts, old, new, checked, poll, pull, ghost>>

\* Mutant: the source may have changed its leader during the pull.
SameTarget(p) == Latest.newLeader = pull[p].node /\ Latest.newEpoch = pull[p].tEpoch

\* Neither partition changed its leader during the pull.
SameLeaders(p) ==
  /\ Latest.newLeader = pull[p].node /\ Latest.newEpoch = pull[p].tEpoch
  /\ Latest.oldEpoch = pull[p].sEpoch

\* reshardStep marks the target as done, or tries again later.
MarkDone(p) ==
  /\ waiting = p /\ pull[p].pc = "answer"
  /\ IF SameLeaders(p) THEN PutLayout([Latest EXCEPT !.done = TRUE]) ELSE UNCHANGED layouts
  /\ waiting' = NoPull /\ pull' = [pull EXCEPT ![p] = Idle]
  /\ UNCHANGED <<old, new, checked, poll, ghost, events>>

\* The freeze of the source's leader of epoch e still protects a migration: the
\* controller waits for the end of a pull that relies on it, or the node has
\* yet to see that the target is done.
FreezeNeeded(e) ==
  \/ /\ waiting # NoPull /\ pull[waiting].sEpoch = e
     /\ pull[waiting].pc \in {"fallback", "replay", "answer"}
  \/ Latest.done /\ (~layouts[old[e].view].done \/ e \in checked)

\* frozenLocked drops a freeze whose time has passed.
FreezeExpires(e) ==
  /\ old[e].frozen /\ (FreezeOutlasts => ~FreezeNeeded(e))
  /\ old' = [old EXCEPT ![e].frozen = FALSE]
  /\ UNCHANGED <<layouts, new, checked, poll, pull, waiting, ghost, events>>

----------------------------------------------------------------------------
PullStep(p) ==
  \/ ReceivePull(p) \/ FetchSnapshot(p) \/ ImportSnapshot(p) \/ DeleteStale(p)
  \/ FreezeSource(p) \/ FetchFrozen(p) \/ ImportLog(p) \/ GiveUp(p) \/ MarkDone(p)

Apply ==
  \E v \in 1..Len(layouts) :
    (\E e \in OldEpoch : ApplyOld(e, v)) \/ (\E n \in TargetNode : ApplyNew(n, v))

Next ==
  \/ Apply
  \/ \E e \in OldEpoch : Check(e) \/ WriteOld(e) \/ Refuse(e) \/ FreezeExpires(e) \/ FollowOld(e)
  \/ \E n \in TargetNode : WriteNew(n) \/ Replicate(n)
  \/ StartHandoff \/ CancelHandoff \/ FinishOldHandoff \/ PollNew \/ FinishNewHandoff
  \/ LapseOld \/ LapseNew \/ AbandonPull
  \/ \E p \in Pull : StartPull(p) \/ PullStep(p) \/ FailPull(p)

Spec == Init /\ [][Next]_vars

\* The loops of the nodes and of the controller keep running: watches deliver
\* the last layout, followers replicate, rounds follow each other, and a pull
\* is asked for again until it succeeds.
Fairness ==
  /\ \A e \in OldEpoch : WF_vars(ApplyOld(e, Len(layouts)))
  /\ \A n \in TargetNode : WF_vars(ApplyNew(n, Len(layouts))) /\ WF_vars(Replicate(n))
  /\ WF_vars(FinishOldHandoff) /\ WF_vars(PollNew) /\ WF_vars(FinishNewHandoff)
  /\ \A p \in Pull : WF_vars(StartPull(p)) /\ WF_vars(PullStep(p))

FairSpec == Spec /\ Fairness

----------------------------------------------------------------------------
(* Properties.                                                             *)

\* "Graceful handoffs and resharding lose nothing" (README): once the target is
\* done its leader has the value the key was last given, whichever partition
\* acknowledged it, and keeps it.  What a leader without a lease acknowledges is
\* lost in any failover, unless its successor gets it.
MigrationLosesNothing ==
  Latest.done => ValueOf(new[Latest.newLeader].log) = truth.value

\* The same of a key that has not been written since: what was replicated in
\* the old generation survives.
OldDataSurvives ==
  Latest.done /\ truth.side = "old" => ValueOf(new[Latest.newLeader].log) = truth.value

AcceptsOld(e) == TakesOld(e) /\ (TargetOld(e) \/ e \in checked)
AcceptsNew == \E n \in TargetNode : TakesNew(n) /\ TargetNew(n)

\* The source and the target never take writes for the key at the same time,
\* however late the nodes learn that the target is done and whoever leads them,
\* unless a leader of the source has lost its lease and not noticed yet.
NoTwoWriters == AcceptsNew => \A e \in OldEpoch : AcceptsOld(e) => e \in lapsedOld

\* The migration ends, however often the leaders change or a pull fails.
MigrationCompletes == <>[](Latest.done)
============================================================================
