-------------------------------- MODULE WAL --------------------------------
(***************************************************************************)
(* A partition's in-memory write-ahead log (internal/wal/wal.go) together  *)
(* with the long polls that read it (the part of handleReplicate in        *)
(* internal/node/node.go that touches the log).                            *)
(*                                                                         *)
(* Every method of the Go type runs under its mutex, so each is one        *)
(* action; a long poll takes the mutex once to fetch the channel, once for *)
(* its first read and once for its second, so it is four.                  *)
(***************************************************************************)
EXTENDS Integers, Sequences

CONSTANTS Op,          \* the set and delete operations that may be logged
          CheckpointOp, \* the operation that marks a frozen memtable
          Retain,      \* entries kept for replicas that fall behind
          Batch,       \* entries per answer (replicationBatch), 0 = all
          Reader,      \* long polls served by the leader
          MaxSeq       \* bound on the sequence numbers explored

ASSUME RetainAssumption == Retain \in Nat \ {0}
ASSUME BatchAssumption == Batch \in Nat
ASSUME MaxSeqAssumption == MaxSeq \in Nat
ASSUME OpAssumption == CheckpointOp \notin Op

VARIABLES logs,           \* the retained entries
          base,           \* sequence number just before logs[1]
          currentSeq,     \* sequence number of the newest entry
          lastCheckpoint, \* sequence number of the newest checkpoint
          poll,           \* the long polls
          origin,         \* ghost: where the last Reset started numbering
          hist            \* ghost: every entry logged since that Reset

log  == <<logs, base, currentSeq, lastCheckpoint, origin, hist>>
vars == <<logs, base, currentSeq, lastCheckpoint, origin, hist, poll>>

Entry == [seq : Nat, op : Op \cup {CheckpointOp}]

Idle == [pc |-> "idle", after |-> 0, closed |-> FALSE, ok |-> TRUE, entries |-> <<>>]

----------------------------------------------------------------------------
(* The log.                                                                *)

Init ==
  /\ logs = <<>>
  /\ base = 0 /\ currentSeq = 0 /\ lastCheckpoint = 0
  /\ origin = 0 /\ hist = <<>>
  /\ poll = [r \in Reader |-> Idle]

\* close(w.changed): everybody who holds the channel is woken.
CloseChanged == poll' = [r \in Reader |-> [poll[r] EXCEPT !.closed = TRUE]]

\* Mutant: keeps half of what the limit promises.
DropTooMuch(l) == IF Len(l) > Retain + (Retain \div 2) THEN Len(l) - (Retain \div 2) ELSE 0

\* How many of the oldest entries go once the log l has grown too long.
Drop(l) == IF Len(l) > Retain + (Retain \div 2) THEN Len(l) - Retain ELSE 0

\* Mutant: base is the first kept entry instead of the last dropped one.
appendLockedBaseOff(e) ==
  LET grown == Append(logs, e)
      drop  == Drop(grown)
  IN /\ logs' = SubSeq(grown, drop + 1, Len(grown))
     /\ base' = IF drop > 0 THEN grown[drop + 1].seq ELSE base
     /\ currentSeq' = e.seq
     /\ lastCheckpoint' = IF e.op = CheckpointOp THEN e.seq ELSE lastCheckpoint
     /\ hist' = Append(hist, e) /\ UNCHANGED origin
     /\ CloseChanged

\* Mutant: the channel is not closed.
appendLockedSilent(e) ==
  LET grown == Append(logs, e)
      drop  == Drop(grown)
  IN /\ logs' = SubSeq(grown, drop + 1, Len(grown))
     /\ base' = IF drop > 0 THEN grown[drop].seq ELSE base
     /\ currentSeq' = e.seq
     /\ lastCheckpoint' = IF e.op = CheckpointOp THEN e.seq ELSE lastCheckpoint
     /\ hist' = Append(hist, e) /\ UNCHANGED origin
     /\ UNCHANGED poll

appendLocked(e) ==
  LET grown == Append(logs, e)
      drop  == Drop(grown)
  IN /\ logs' = SubSeq(grown, drop + 1, Len(grown))
     /\ base' = IF drop > 0 THEN grown[drop].seq ELSE base
     /\ currentSeq' = e.seq
     /\ lastCheckpoint' = IF e.op = CheckpointOp THEN e.seq ELSE lastCheckpoint
     /\ hist' = Append(hist, e) /\ UNCHANGED origin
     /\ CloseChanged

\* Append and Checkpoint: the leader numbers the entry itself.
AppendOp(op) ==
  /\ currentSeq < MaxSeq
  /\ appendLocked([seq |-> currentSeq + 1, op |-> op])

\* Record: a follower logs the leader's entry, and refuses a gap or a repeat.
Record(e) ==
  /\ e.seq <= MaxSeq
  /\ e.seq = currentSeq + 1
  /\ appendLocked(e)

\* Mutant: base names the first sequence number to come, less two.
ResetBaseOff(seq) ==
  /\ logs' = <<>>
  /\ base' = seq - 1 /\ currentSeq' = seq /\ lastCheckpoint' = seq
  /\ origin' = seq /\ hist' = <<>>
  /\ CloseChanged

\* Mutant: the channel is not closed.
ResetSilent(seq) ==
  /\ logs' = <<>>
  /\ base' = seq /\ currentSeq' = seq /\ lastCheckpoint' = seq
  /\ origin' = seq /\ hist' = <<>>
  /\ UNCHANGED poll

\* Reset: a snapshot that ends at seq was loaded, or the replica was emptied.
Reset(seq) ==
  /\ logs' = <<>>
  /\ base' = seq /\ currentSeq' = seq /\ lastCheckpoint' = seq
  /\ origin' = seq /\ hist' = <<>>
  /\ CloseChanged

\* Mutant: the limit is taken as an end position.
AfterLimitOff(seq, max) ==
  LET start == seq - base
      end   == IF max > 0 /\ Len(logs) - start > max THEN max ELSE Len(logs)
  IN [ok      |-> seq >= base,
      entries |-> IF seq >= base /\ seq < currentSeq
                    THEN SubSeq(logs, start + 1, end) ELSE <<>>]

\* Mutant: truncated entries are passed over in silence.
AfterSkipsTruncated(seq, max) ==
  LET start == IF seq < base THEN 0 ELSE seq - base
      end   == IF max > 0 /\ Len(logs) - start > max THEN start + max ELSE Len(logs)
  IN [ok      |-> TRUE,
      entries |-> IF seq < currentSeq THEN SubSeq(logs, start + 1, end) ELSE <<>>]

\* Up to max entries (0 = all) that follow seq; not ok when some are gone.
After(seq, max) ==
  LET start == seq - base
      end   == IF max > 0 /\ Len(logs) - start > max THEN start + max ELSE Len(logs)
  IN [ok      |-> seq >= base,
      entries |-> IF seq >= base /\ seq < currentSeq
                    THEN SubSeq(logs, start + 1, end) ELSE <<>>]

----------------------------------------------------------------------------
(* The long polls.                                                         *)

\* Changed() is taken before the first read.
TakeChannel(r, after) ==
  /\ poll[r].pc = "idle"
  /\ poll' = [poll EXCEPT ![r] = [Idle EXCEPT !.pc = "read", !.after = after]]
  /\ UNCHANGED log

Answer(r, pc, a) ==
  poll' = [poll EXCEPT ![r].pc = pc, ![r].ok = a.ok, ![r].entries = a.entries]

FirstRead(r) ==
  LET a == After(poll[r].after, Batch)
  IN /\ poll[r].pc = "read"
     /\ Answer(r, IF a.ok /\ a.entries = <<>> THEN "wait" ELSE "done", a)
     /\ UNCHANGED log

\* The select: the channel was closed, or the timer fired.
WakeUp(r) ==
  /\ poll[r].pc = "wait" /\ poll[r].closed
  /\ poll' = [poll EXCEPT ![r].pc = "reread"]
  /\ UNCHANGED log

WaitExpires(r) ==
  /\ poll[r].pc = "wait"
  /\ poll' = [poll EXCEPT ![r].pc = "reread"]
  /\ UNCHANGED log

SecondRead(r) ==
  /\ poll[r].pc = "reread"
  /\ Answer(r, "done", After(poll[r].after, Batch))
  /\ UNCHANGED log

\* The answer is sent, or the client hung up while the poll was waiting.
Finish(r) ==
  /\ poll[r].pc \in {"wait", "done"}
  /\ poll' = [poll EXCEPT ![r] = Idle]
  /\ UNCHANGED log

----------------------------------------------------------------------------
PollStep(r) ==
  \/ \E after \in 0..MaxSeq : TakeChannel(r, after)
  \/ FirstRead(r) \/ WakeUp(r) \/ WaitExpires(r) \/ SecondRead(r) \/ Finish(r)

LogStep ==
  \/ \E op \in Op \cup {CheckpointOp} : AppendOp(op)
  \/ \E e \in [seq : 1..MaxSeq, op : Op \cup {CheckpointOp}] : Record(e)
  \/ \E seq \in 0..MaxSeq : Reset(seq)

Next == LogStep \/ \E r \in Reader : PollStep(r)

\* A woken handler is scheduled again by the Go runtime; nothing else must happen.
Fairness == \A r \in Reader : WF_vars(WakeUp(r)) /\ WF_vars(SecondRead(r))

Spec == Init /\ [][Next]_vars /\ Fairness

----------------------------------------------------------------------------
(* Properties.                                                             *)

\* The values the Go fields and the handlers' locals can hold.
TypeOK ==
  /\ logs \in Seq(Entry) /\ hist \in Seq(Entry)
  /\ base \in Nat /\ currentSeq \in Nat /\ lastCheckpoint \in Nat /\ origin \in Nat
  /\ poll \in [Reader -> [pc : {"idle", "read", "wait", "reread", "done"},
                          after : Nat, closed : BOOLEAN, ok : BOOLEAN,
                          entries : Seq(Entry)]]

\* The history is numbered from origin + 1 up to currentSeq without a gap.
Numbered ==
  /\ currentSeq = origin + Len(hist)
  /\ \A i \in 1..Len(hist) : hist[i].seq = origin + i

\* Truncation keeps a contiguous tail: logs[i] is entry base + i of the
\* history (the comment on the field logs in the Go struct).
LogIsTail ==
  /\ base >= origin
  /\ base + Len(logs) = currentSeq
  /\ \A i \in 1..Len(logs) : logs[i] = hist[base - origin + i]

\* What After returns, for every position and limit, is exactly what the
\* history holds after that position: nothing skipped, nothing repeated,
\* nothing beyond the limit, and everything up to it.
AfterIsExact ==
  \A seq \in 0..MaxSeq, max \in 0..MaxSeq :
    LET a == After(seq, max)
        n == Len(a.entries)
    IN a.ok => /\ \A i \in 1..n : a.entries[i] = hist[seq - origin + i]
               /\ seq + n <= currentSeq \/ n = 0
               /\ max > 0 => n <= max
               /\ seq + n < currentSeq => n = max /\ max > 0

\* A replica that trails by at most Retain entries is never sent to a
\* snapshot, and the log never outgrows one and a half times Retain.
RetentionWindow ==
  /\ \A seq \in origin..currentSeq : currentSeq - seq <= Retain => After(seq, Batch).ok
  /\ Len(logs) <= Retain + (Retain \div 2)

\* No lost wake-up: while a poll sleeps on an open channel the log holds
\* nothing it has not been given, because the channel is taken before the read.
NoLostWakeup ==
  \A r \in Reader :
    poll[r].pc = "wait" /\ ~poll[r].closed =>
      After(poll[r].after, Batch).ok /\ After(poll[r].after, Batch).entries = <<>>

\* Whatever appends, truncations and resets overlap a poll, the entries it is
\* answered with continue the follower's position without a gap, so Record
\* accepts every one of them.
AnswerContinues ==
  \A r \in Reader : \A i \in 1..Len(poll[r].entries) :
    poll[r].entries[i].seq = poll[r].after + i

\* A poll that sleeps while the log moves past its position is answered
\* although its timer never fires.
WaiterIsWoken ==
  \A r \in Reader :
    (poll[r].pc = "wait" /\ currentSeq > poll[r].after) ~> (poll[r].pc # "wait")
============================================================================
