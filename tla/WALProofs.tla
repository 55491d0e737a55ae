----------------------------- MODULE WALProofs -----------------------------
(***************************************************************************)
(* Proofs about the write-ahead log, for every Retain, Batch, MaxSeq, set  *)
(* of operations and set of long polls.                                    *)
(***************************************************************************)
EXTENDS WAL, SequenceTheorems, TLAPS

\* Truncation never cuts below Retain entries; what RetentionWindow rests on.
WindowFull ==
  /\ Len(logs) <= Retain + (Retain \div 2)
  /\ base > origin => Len(logs) >= Retain

\* NoLostWakeup in terms of the log's end.
NothingNew ==
  \A r \in Reader : poll[r].pc = "wait" /\ ~poll[r].closed => currentSeq <= poll[r].after

\* The inductive invariant of the log itself, and of the log with its polls.
LogInv == TypeOK /\ Numbered /\ LogIsTail /\ WindowFull
Inv    == LogInv /\ NothingNew /\ AnswerContinues

----------------------------------------------------------------------------
(* The operators.                                                          *)

\* Drop returns how many entries to cut: none, or all but Retain of them,
\* and then at least one (appendLocked's truncation test).
LEMMA DropBounds ==
  ASSUME NEW l, Len(l) \in Nat
  PROVE  /\ Drop(l) \in 0..Len(l)
         /\ Drop(l) = 0 => Len(l) <= Retain + (Retain \div 2)
         /\ Drop(l) > 0 => Len(l) - Drop(l) = Retain
  BY RetainAssumption DEF Drop

\* After's answer when it has one: the entries of logs from position
\* seq - base + 1 on, as many as the limit allows.
LEMMA AfterEntries ==
  ASSUME LogInv, NEW seq \in Nat, NEW max \in Nat
  PROVE  LET a == After(seq, max)
             n == Len(a.entries)
         IN /\ a.ok <=> seq >= base
            /\ a.entries \in Seq(Entry)
            /\ \A i \in 1..n : /\ a.ok
                               /\ seq - base + i \in 1..Len(logs)
                               /\ a.entries[i] = logs[seq - base + i]
            /\ (a.ok /\ seq < currentSeq) =>
                 n = IF max > 0 /\ currentSeq - seq > max THEN max ELSE currentSeq - seq
            /\ (~a.ok \/ seq >= currentSeq) => n = 0
  <1> DEFINE start == seq - base
             end  == IF max > 0 /\ Len(logs) - start > max THEN start + max ELSE Len(logs)
  <1>1. /\ base \in Nat /\ currentSeq \in Nat /\ logs \in Seq(Entry) /\ Len(logs) \in Nat
        /\ base + Len(logs) = currentSeq
    BY DEF LogInv, TypeOK, LogIsTail
  <1>2. CASE seq >= base /\ seq < currentSeq
    <2>1. start \in Nat /\ end \in Nat /\ start < end /\ end <= Len(logs)
      BY <1>1, <1>2
    <2>2. \A i \in (start + 1)..end : logs[i] \in Entry
      BY <1>1, <2>1
    <2>3. /\ SubSeq(logs, start + 1, end) \in Seq(Entry)
          /\ Len(SubSeq(logs, start + 1, end)) = end - start
          /\ \A i \in 1..(end - start) : SubSeq(logs, start + 1, end)[i] = logs[start + i]
      <3> HIDE DEF start, end
      <3> QED BY <2>1, <2>2, SubSeqProperties
    <2>4. After(seq, max).entries = SubSeq(logs, start + 1, end) /\ After(seq, max).ok
      BY <1>2 DEF After
    <2>5. Len(After(seq, max).entries) = end - start
      BY <2>3, <2>4
    <2> QED BY <1>1, <1>2, <2>1, <2>3, <2>4, <2>5
  <1>3. CASE ~(seq >= base /\ seq < currentSeq)
    <2>1. After(seq, max).entries = <<>> /\ (After(seq, max).ok <=> seq >= base)
      BY <1>3 DEF After
    <2>2. Len(After(seq, max).entries) = 0 /\ After(seq, max).entries \in Seq(Entry)
      BY <2>1
    <2> QED BY <1>1, <1>3, <2>1, <2>2
  <1> QED BY <1>2, <1>3

\* Logging an entry that carries the next number keeps the log a gapless
\* tail of its history, whether or not it is truncated.
LEMMA AppendKeepsLogInv ==
  ASSUME LogInv, NEW e \in Entry, e.seq = currentSeq + 1, appendLocked(e)
  PROVE  LogInv'
  <1> DEFINE grown == Append(logs, e)
             drop  == Drop(grown)
  <1>1. /\ logs \in Seq(Entry) /\ hist \in Seq(Entry) /\ base \in Nat /\ currentSeq \in Nat
        /\ origin \in Nat /\ lastCheckpoint \in Nat /\ Len(logs) \in Nat /\ Len(hist) \in Nat
        /\ e.seq \in Nat
    BY DEF LogInv, TypeOK, Entry
  <1>2. /\ grown \in Seq(Entry) /\ Len(grown) = Len(logs) + 1
        /\ \A i \in 1..Len(logs) : grown[i] = logs[i]
        /\ grown[Len(logs) + 1] = e
    BY <1>1
  <1>3. /\ hist' \in Seq(Entry) /\ Len(hist') = Len(hist) + 1
        /\ \A i \in 1..Len(hist) : hist'[i] = hist[i]
        /\ hist'[Len(hist) + 1] = e
        /\ origin' = origin /\ currentSeq' = currentSeq + 1
    BY <1>1 DEF appendLocked
  <1>4. /\ drop \in 0..Len(grown)
        /\ drop = 0 => Len(grown) <= Retain + (Retain \div 2)
        /\ drop > 0 => Len(grown) - drop = Retain
    <2> HIDE DEF grown
    <2> QED BY <1>1, <1>2, DropBounds
  <1>5. Numbered'
    <2>1. currentSeq = origin + Len(hist) /\ \A i \in 1..Len(hist) : hist[i].seq = origin + i
      BY DEF LogInv, Numbered
    <2>2. ASSUME NEW i \in 1..Len(hist') PROVE hist'[i].seq = origin' + i
      <3>1. CASE i = Len(hist) + 1
        BY <1>1, <1>3, <2>1, <3>1
      <3>2. CASE i # Len(hist) + 1
        <4>1. i \in 1..Len(hist)
          BY <1>1, <1>3, <3>2
        <4>2. hist'[i] = hist[i] /\ hist[i].seq = origin + i
          BY <1>3, <2>1, <4>1
        <4> QED BY <1>3, <4>2
      <3> QED BY <3>1, <3>2
    <2> QED BY <1>1, <1>3, <2>1, <2>2 DEF Numbered
  <1>6. \A i \in 1..Len(grown) : /\ base - origin + i \in 1..Len(hist')
                                 /\ grown[i] = hist'[base - origin + i]
    <2> TAKE i \in 1..Len(grown)
    <2>1. base >= origin /\ base + Len(logs) = currentSeq /\ currentSeq = origin + Len(hist)
      BY DEF LogInv, LogIsTail, Numbered
    <2>2. CASE i = Len(grown)
      BY <1>1, <1>2, <1>3, <2>1, <2>2
    <2>3. CASE i # Len(grown)
      <3>1. i \in 1..Len(logs) /\ base - origin + i \in 1..Len(hist)
        BY <1>1, <1>2, <2>1, <2>3
      <3>2. logs[i] = hist[base - origin + i]
        BY <3>1 DEF LogInv, LogIsTail
      <3>3. grown[i] = logs[i] /\ hist'[base - origin + i] = hist[base - origin + i]
        BY <1>2, <1>3, <3>1
      <3> QED BY <1>1, <1>3, <3>1, <3>2, <3>3
    <2> QED BY <2>2, <2>3
  <1>7. /\ logs' \in Seq(Entry)
        /\ Len(logs') = Len(grown) - drop
        /\ \A i \in 1..Len(logs') : logs'[i] = grown[drop + i]
    <2>1. logs' = SubSeq(grown, drop + 1, Len(grown))
      BY DEF appendLocked
    <2>2. \A i \in (drop + 1)..Len(grown) : grown[i] \in Entry
      BY <1>1, <1>2, <1>4
    <2> HIDE DEF grown, drop
    <2> QED BY <1>1, <1>2, <1>4, <2>1, <2>2, SubSeqProperties
  <1>8. base' = base + drop
    <2>1. base' = IF drop > 0 THEN grown[drop].seq ELSE base
      BY DEF appendLocked
    <2>2. CASE drop > 0
      <3>1. grown[drop] = hist'[base - origin + drop] /\ base - origin + drop \in 1..Len(hist')
        BY <1>4, <1>6, <2>2
      <3>2. grown[drop].seq = origin' + (base - origin + drop)
        BY <1>5, <3>1 DEF Numbered
      <3> HIDE DEF grown, drop
      <3> QED BY <1>1, <1>3, <1>4, <2>1, <2>2, <3>2
    <2> QED BY <1>1, <1>4, <2>1, <2>2
  <1>9. LogIsTail'
    <2>1. base >= origin /\ base + Len(logs) = currentSeq
      BY DEF LogInv, LogIsTail
    <2>2. base' >= origin' /\ base' + Len(logs') = currentSeq'
      BY <1>1, <1>2, <1>3, <1>4, <1>7, <1>8, <2>1
    <2>3. ASSUME NEW i \in 1..Len(logs') PROVE logs'[i] = hist'[base' - origin' + i]
      <3>1. drop + i \in 1..Len(grown)
        BY <1>2, <1>4, <1>7
      <3>2. logs'[i] = grown[drop + i] /\ grown[drop + i] = hist'[base - origin + (drop + i)]
        BY <1>6, <1>7, <3>1
      <3>3. base - origin + (drop + i) = base' - origin' + i
        BY <1>1, <1>3, <1>4, <1>8
      <3> QED BY <3>2, <3>3
    <2> QED BY <2>2, <2>3 DEF LogIsTail
  <1>10. WindowFull'
    <2>1. /\ base >= origin /\ base > origin => Len(logs) >= Retain
          /\ Retain \in Nat /\ Retain \div 2 \in Nat
      BY RetainAssumption DEF LogInv, WindowFull, LogIsTail
    <2> HIDE DEF grown, drop
    <2>2. Len(logs') <= Retain + (Retain \div 2)
      BY <1>1, <1>2, <1>4, <1>7, <2>1
    <2>3. base' > origin' => Len(logs') >= Retain
      BY <1>1, <1>2, <1>3, <1>4, <1>7, <1>8, <2>1
    <2> QED BY <2>2, <2>3 DEF WindowFull
  <1>11. TypeOK'
    <2>1. base' \in Nat /\ currentSeq' \in Nat /\ lastCheckpoint' \in Nat /\ origin' \in Nat
      <3>1. lastCheckpoint' = e.seq \/ lastCheckpoint' = lastCheckpoint
        BY DEF appendLocked
      <3> HIDE DEF grown, drop
      <3> QED BY <1>1, <1>3, <1>4, <1>8, <3>1
    <2>2. poll' \in [Reader -> [pc : {"idle", "read", "wait", "reread", "done"},
                                after : Nat, closed : BOOLEAN, ok : BOOLEAN,
                                entries : Seq(Entry)]]
      BY DEF appendLocked, CloseChanged, LogInv, TypeOK
    <2> QED BY <1>3, <1>7, <2>1, <2>2 DEF TypeOK
  <1> QED BY <1>5, <1>9, <1>10, <1>11 DEF LogInv

\* A reset starts an empty history at seq.
LEMMA ResetKeepsLogInv ==
  ASSUME LogInv, NEW seq \in Nat, Reset(seq)
  PROVE  LogInv'
  <1>1. /\ logs' = <<>> /\ hist' = <<>> /\ Len(logs') = 0 /\ Len(hist') = 0
        /\ base' = seq /\ currentSeq' = seq /\ lastCheckpoint' = seq /\ origin' = seq
    BY DEF Reset
  <1>2. TypeOK'
    <2>1. poll' \in [Reader -> [pc : {"idle", "read", "wait", "reread", "done"}, after : Nat,
                                closed : BOOLEAN, ok : BOOLEAN, entries : Seq(Entry)]]
      BY DEF Reset, CloseChanged, LogInv, TypeOK
    <2> QED BY <1>1, <2>1 DEF TypeOK
  <1> QED BY <1>1, <1>2, RetainAssumption DEF LogInv, Numbered, LogIsTail, WindowFull

\* Every step that changes the log closes the channel, and leaves the polls'
\* positions and answers alone.
LEMMA LogStepIsSignalled ==
  ASSUME LogInv, LogStep
  PROVE  /\ LogInv'
         /\ \A r \in Reader : /\ poll'[r].closed
                              /\ poll'[r].after = poll[r].after
                              /\ poll'[r].entries = poll[r].entries
  <1>1. ASSUME NEW e \in Entry, e.seq = currentSeq + 1, appendLocked(e)
        PROVE  LogInv' /\ CloseChanged
    BY <1>1, AppendKeepsLogInv DEF appendLocked
  <1>2. LogInv' /\ CloseChanged
    <2>1. ASSUME NEW op \in Op \cup {CheckpointOp}, AppendOp(op)
          PROVE  LogInv' /\ CloseChanged
      <3> DEFINE e == [seq |-> currentSeq + 1, op |-> op]
      <3>1. e \in Entry /\ e.seq = currentSeq + 1
        BY DEF Entry, LogInv, TypeOK
      <3>2. appendLocked(e)
        BY <2>1 DEF AppendOp
      <3> HIDE DEF e
      <3> QED BY <1>1, <3>1, <3>2
    <2>2. ASSUME NEW e \in [seq : 1..MaxSeq, op : Op \cup {CheckpointOp}], Record(e)
          PROVE  LogInv' /\ CloseChanged
      <3>1. e \in Entry
        BY MaxSeqAssumption DEF Entry
      <3> QED BY <1>1, <2>2, <3>1 DEF Record
    <2>3. ASSUME NEW seq \in 0..MaxSeq, Reset(seq)
          PROVE  LogInv' /\ CloseChanged
      <3>1. seq \in Nat
        BY MaxSeqAssumption
      <3> QED BY <2>3, <3>1, ResetKeepsLogInv DEF Reset
    <2> QED BY <2>1, <2>2, <2>3 DEF LogStep
  <1>3. \A r \in Reader : /\ poll'[r].closed
                          /\ poll'[r].after = poll[r].after
                          /\ poll'[r].entries = poll[r].entries
    BY <1>2 DEF CloseChanged, LogInv, TypeOK
  <1> QED BY <1>2, <1>3

\* The entries After returns are numbered from seq + 1 on.
LEMMA AfterContinues ==
  ASSUME LogInv, NEW seq \in Nat, NEW max \in Nat
  PROVE  \A i \in 1..Len(After(seq, max).entries) :
           After(seq, max).entries[i].seq = seq + i
  <1> TAKE i \in 1..Len(After(seq, max).entries)
  <1>1. /\ base \in Nat /\ origin \in Nat /\ Len(logs) \in Nat /\ Len(hist) \in Nat
        /\ base >= origin /\ base + Len(logs) = currentSeq /\ currentSeq = origin + Len(hist)
        /\ After(seq, max).entries \in Seq(Entry)
    <2>1. /\ base \in Nat /\ origin \in Nat /\ Len(logs) \in Nat /\ Len(hist) \in Nat
          /\ base >= origin /\ base + Len(logs) = currentSeq /\ currentSeq = origin + Len(hist)
      BY DEF LogInv, TypeOK, LogIsTail, Numbered
    <2> QED BY <2>1, AfterEntries
  <1>2. /\ seq - base + i \in 1..Len(logs)
        /\ After(seq, max).entries[i] = logs[seq - base + i]
    BY AfterEntries
  <1>3. logs[seq - base + i] = hist[base - origin + (seq - base + i)]
    BY <1>2 DEF LogInv, LogIsTail
  <1>4. base - origin + (seq - base + i) \in 1..Len(hist)
    BY <1>1, <1>2
  <1>5. hist[base - origin + (seq - base + i)].seq = origin + (base - origin + (seq - base + i))
    BY <1>4 DEF LogInv, Numbered
  <1> QED BY <1>1, <1>2, <1>3, <1>5

PollRecord == [pc : {"idle", "read", "wait", "reread", "done"}, after : Nat,
               closed : BOOLEAN, ok : BOOLEAN, entries : Seq(Entry)]

\* What storing an answer changes.
LEMMA AnswerStored ==
  ASSUME poll \in [Reader -> PollRecord], NEW r \in Reader, NEW a,
         NEW pc \in {"wait", "done"}, a.ok \in BOOLEAN, a.entries \in Seq(Entry),
         Answer(r, pc, a)
  PROVE  /\ poll' \in [Reader -> PollRecord]
         /\ poll'[r].pc = pc /\ poll'[r].after = poll[r].after
         /\ poll'[r].entries = a.entries
  <1>1. poll[r] \in PollRecord
    OBVIOUS
  <1>2. poll' = [poll EXCEPT ![r] = [poll[r] EXCEPT !.pc = pc, !.ok = a.ok, !.entries = a.entries]]
    BY DEF Answer
  <1>3. [poll[r] EXCEPT !.pc = pc, !.ok = a.ok, !.entries = a.entries] \in PollRecord
    BY <1>1 DEF PollRecord
  <1> QED BY <1>1, <1>2, <1>3 DEF PollRecord

\* A poll's own step leaves the log alone; what it stores is Idle, its own
\* earlier answer, or what After returns now.
LEMMA PollStepKeepsInv ==
  ASSUME Inv, NEW r \in Reader, PollStep(r)
  PROVE  Inv'
  <1> DEFINE a == After(poll[r].after, Batch)
  <1>1. UNCHANGED log
    BY DEF PollStep, TakeChannel, FirstRead, WakeUp, WaitExpires, SecondRead, Finish
  <1>2. \A s \in Nat, m \in Nat : After(s, m)' = After(s, m)
    BY <1>1 DEF After, log
  <1>3. /\ a.entries \in Seq(Entry) /\ a.ok \in BOOLEAN
        /\ \A i \in 1..Len(a.entries) : a.entries[i].seq = poll[r].after + i
        /\ poll[r].after \in Nat
    <2>1. poll[r].after \in Nat
      BY DEF Inv, LogInv, TypeOK
    <2>2. a.ok \in BOOLEAN
      BY DEF After
    <2> QED BY <2>1, <2>2, AfterEntries, AfterContinues, BatchAssumption DEF Inv
  <1> HIDE DEF a
  <1>4. /\ TypeOK
        /\ poll \in [Reader -> PollRecord]
    BY DEF Inv, LogInv, TypeOK, PollRecord
  <1>5. \A q \in Reader : q # r => poll'[q] = poll[q]
    BY <1>4 DEF PollStep, TakeChannel, FirstRead, WakeUp, WaitExpires, SecondRead, Finish, Answer
  <1> DEFINE Stored ==
        /\ poll' \in [Reader -> PollRecord]
        /\ \/ poll'[r].entries = <<>>
           \/ poll'[r].entries = a.entries /\ poll'[r].after = poll[r].after
           \/ poll'[r].entries = poll[r].entries /\ poll'[r].after = poll[r].after
        /\ poll'[r].pc = "wait" =>
             poll'[r].after = poll[r].after /\ a.ok /\ a.entries = <<>>
  <1>6. Stored
    <2>1. ASSUME NEW after \in 0..MaxSeq, TakeChannel(r, after)
          PROVE  Stored
      <3> DEFINE new == [Idle EXCEPT !.pc = "read", !.after = after]
      <3>1. <<>> \in Seq(Entry) /\ after \in Nat
        BY MaxSeqAssumption
      <3>2. new \in PollRecord /\ new.entries = <<>> /\ new.pc = "read"
        BY <3>1 DEF PollRecord, Idle
      <3>3. poll' = [poll EXCEPT ![r] = new]
        BY <2>1 DEF TakeChannel
      <3> HIDE DEF new
      <3> QED BY <1>4, <3>2, <3>3
    <2>2. CASE FirstRead(r)
      <3>1. PICK pc \in {"wait", "done"} : /\ Answer(r, pc, a)
                                           /\ pc = "wait" => a.ok /\ a.entries = <<>>
        BY <2>2 DEF FirstRead, a
      <3> QED BY <1>3, <1>4, <3>1, AnswerStored
    <2>3. CASE WakeUp(r) \/ WaitExpires(r)
      BY <1>4, <2>3 DEF WakeUp, WaitExpires, PollRecord
    <2>4. CASE SecondRead(r)
      <3>1. Answer(r, "done", a)
        BY <2>4 DEF SecondRead, a
      <3> QED BY <1>3, <1>4, <3>1, AnswerStored
    <2>5. CASE Finish(r)
      <3>1. Idle \in PollRecord /\ Idle.entries = <<>> /\ Idle.pc = "idle"
        BY DEF PollRecord, Idle
      <3> QED BY <1>4, <2>5, <3>1 DEF Finish
    <2> QED BY <2>1, <2>2, <2>3, <2>4, <2>5 DEF PollStep
  <1>7. LogInv'
    <2>1. TypeOK'
      BY <1>1, <1>4, <1>6 DEF TypeOK, log, PollRecord
    <2>2. (Numbered /\ LogIsTail /\ WindowFull)'
      BY <1>1 DEF Inv, LogInv, Numbered, LogIsTail, WindowFull, log
    <2> QED BY <2>1, <2>2 DEF LogInv
  <1>8. NothingNew'
    <2> SUFFICES ASSUME NEW q \in Reader, poll'[q].pc = "wait", ~poll'[q].closed
                 PROVE  currentSeq' <= poll'[q].after
      BY DEF NothingNew
    <2>1. currentSeq' = currentSeq
      BY <1>1 DEF log
    <2>2. CASE q # r
      BY <1>5, <2>1, <2>2 DEF Inv, NothingNew
    <2>3. CASE q = r
      <3>1. a.ok /\ a.entries = <<>> /\ poll'[r].after = poll[r].after
        BY <1>6, <2>3
      <3>2. Len(a.entries) = 0
        BY <3>1
      <3>3. ~(poll[r].after < currentSeq)
        <4>1. a.ok /\ poll[r].after < currentSeq => Len(a.entries) =
                IF Batch > 0 /\ currentSeq - poll[r].after > Batch
                  THEN Batch ELSE currentSeq - poll[r].after
          BY <1>3, AfterEntries, BatchAssumption DEF Inv, a
        <4>2. currentSeq \in Nat
          BY DEF Inv, LogInv, TypeOK
        <4> QED BY <1>3, <3>1, <3>2, <4>1, <4>2, BatchAssumption
      <3> QED BY <1>3, <2>1, <2>3, <3>1, <3>3 DEF Inv, LogInv, TypeOK
    <2> QED BY <2>2, <2>3
  <1>9. AnswerContinues'
    <2> SUFFICES ASSUME NEW q \in Reader, NEW i \in 1..Len(poll'[q].entries)
                 PROVE  poll'[q].entries[i].seq = poll'[q].after + i
      BY DEF AnswerContinues
    <2>1. CASE q # r
      BY <1>5, <2>1 DEF Inv, AnswerContinues
    <2>2. CASE q = r
      <3>1. CASE poll'[r].entries = <<>>
        <4>1. Len(poll'[q].entries) = 0
          BY <2>2, <3>1
        <4> QED BY <4>1
      <3>2. CASE poll'[r].entries = a.entries /\ poll'[r].after = poll[r].after
        BY <1>3, <2>2, <3>2
      <3>3. CASE poll'[r].entries = poll[r].entries /\ poll'[r].after = poll[r].after
        BY <2>2, <3>3 DEF Inv, AnswerContinues
      <3> QED BY <1>6, <3>1, <3>2, <3>3
    <2> QED BY <2>1, <2>2
  <1> QED BY <1>7, <1>8, <1>9 DEF Inv

----------------------------------------------------------------------------
(* The theorems.                                                           *)

\* Inv is an invariant of the log and its polls.
THEOREM Invariance == Spec => []Inv
  <1>1. Init => Inv
    <2> SUFFICES ASSUME Init PROVE Inv
      OBVIOUS
    <2>1. Len(<<>>) = 0 /\ <<>> \in Seq(Entry)
      OBVIOUS
    <2>2. LogInv
      BY <2>1, RetainAssumption DEF Init, Idle, LogInv, TypeOK, Numbered, LogIsTail, WindowFull
    <2>3. NothingNew /\ AnswerContinues
      BY <2>1 DEF Init, Idle, NothingNew, AnswerContinues
    <2> QED BY <2>2, <2>3 DEF Inv
  <1>2. Inv /\ [Next]_vars => Inv'
    <2> SUFFICES ASSUME Inv, [Next]_vars PROVE Inv'
      OBVIOUS
    <2>1. CASE LogStep
      <3>1. /\ LogInv'
            /\ \A r \in Reader : /\ poll'[r].closed
                                 /\ poll'[r].after = poll[r].after
                                 /\ poll'[r].entries = poll[r].entries
        BY <2>1, LogStepIsSignalled DEF Inv
      <3> QED BY <3>1 DEF Inv, NothingNew, AnswerContinues
    <2>2. CASE \E r \in Reader : PollStep(r)
      BY <2>2, PollStepKeepsInv
    <2>3. CASE UNCHANGED vars
      BY <2>3 DEF vars, Inv, LogInv, TypeOK, Numbered, LogIsTail, WindowFull, NothingNew, AnswerContinues
    <2> QED BY <2>1, <2>2, <2>3 DEF Next
  <1> QED BY <1>1, <1>2, PTL DEF Spec

\* Type correctness of the log and of the handlers that poll it.
THEOREM TypeCorrect == Spec => []TypeOK
  <1>1. Inv => TypeOK
    BY DEF Inv, LogInv
  <1> QED BY <1>1, Invariance, PTL

\* The retained log is a gapless tail of the history (field logs of WAL).
THEOREM TailCorrect == Spec => []LogIsTail
  <1>1. Inv => LogIsTail
    BY DEF Inv, LogInv
  <1> QED BY <1>1, Invariance, PTL

\* After answers with exactly the entries that follow, or says it cannot.
THEOREM AfterCorrect == Spec => []AfterIsExact
  <1>1. Inv => AfterIsExact
    <2> SUFFICES ASSUME Inv, NEW seq \in 0..MaxSeq, NEW max \in 0..MaxSeq, After(seq, max).ok
                 PROVE  LET a == After(seq, max)
                            n == Len(a.entries)
                        IN /\ \A i \in 1..n : a.entries[i] = hist[seq - origin + i]
                           /\ seq + n <= currentSeq \/ n = 0
                           /\ max > 0 => n <= max
                           /\ seq + n < currentSeq => n = max /\ max > 0
      BY DEF AfterIsExact
    <2>1. LogInv /\ seq \in Nat /\ max \in Nat
      BY MaxSeqAssumption DEF Inv
    <2>2. base \in Nat /\ origin \in Nat /\ currentSeq \in Nat /\ Len(logs) \in Nat
      BY <2>1 DEF LogInv, TypeOK
    <2>3. \A i \in 1..Len(After(seq, max).entries) :
            After(seq, max).entries[i] = hist[seq - origin + i]
      <3> TAKE i \in 1..Len(After(seq, max).entries)
      <3>0. Len(After(seq, max).entries) \in Nat
        BY <2>1, AfterEntries
      <3>1. /\ seq - base + i \in 1..Len(logs)
            /\ After(seq, max).entries[i] = logs[seq - base + i]
        BY <2>1, AfterEntries
      <3>2. logs[seq - base + i] = hist[base - origin + (seq - base + i)]
        BY <2>1, <3>1 DEF LogInv, LogIsTail
      <3>3. base - origin + (seq - base + i) = seq - origin + i
        BY <2>1, <2>2, <3>0
      <3> QED BY <3>1, <3>2, <3>3
    <2>4. /\ seq < currentSeq => Len(After(seq, max).entries) =
               IF max > 0 /\ currentSeq - seq > max THEN max ELSE currentSeq - seq
          /\ seq >= currentSeq => Len(After(seq, max).entries) = 0
      BY <2>1, AfterEntries
    <2> QED BY <2>1, <2>2, <2>3, <2>4
  <1> QED BY <1>1, Invariance, PTL

\* A replica within Retain entries of the end is always served from the log,
\* and the log stays within one and a half times Retain.
THEOREM RetentionCorrect == Spec => []RetentionWindow
  <1>1. Inv => RetentionWindow
    <2> SUFFICES ASSUME Inv PROVE RetentionWindow
      OBVIOUS
    <2>1. /\ base \in Nat /\ origin \in Nat /\ currentSeq \in Nat /\ Len(logs) \in Nat
          /\ base >= origin /\ base + Len(logs) = currentSeq
          /\ base > origin => Len(logs) >= Retain
          /\ Len(logs) <= Retain + (Retain \div 2)
      BY DEF Inv, LogInv, TypeOK, LogIsTail, WindowFull
    <2>2. ASSUME NEW seq \in origin..currentSeq, currentSeq - seq <= Retain
          PROVE  After(seq, Batch).ok
      <3>1. seq >= base
        BY <2>1, <2>2, RetainAssumption
      <3> QED BY <3>1 DEF After
    <2> QED BY <2>1, <2>2 DEF RetentionWindow
  <1> QED BY <1>1, Invariance, PTL

\* A sleeping poll with an open channel misses nothing (handleReplicate takes
\* the channel before it reads).
THEOREM WakeupCorrect == Spec => []NoLostWakeup
  <1>1. Inv => NoLostWakeup
    <2> SUFFICES ASSUME Inv, NEW r \in Reader, poll[r].pc = "wait", ~poll[r].closed
                 PROVE  After(poll[r].after, Batch).ok /\ After(poll[r].after, Batch).entries = <<>>
      BY DEF NoLostWakeup
    <2>1. /\ base \in Nat /\ currentSeq \in Nat /\ Len(logs) \in Nat /\ poll[r].after \in Nat
          /\ base + Len(logs) = currentSeq /\ currentSeq <= poll[r].after
      BY DEF Inv, LogInv, TypeOK, LogIsTail, NothingNew
    <2>2. poll[r].after >= base /\ ~(poll[r].after < currentSeq)
      BY <2>1
    <2> QED BY <2>2 DEF After
  <1> QED BY <1>1, Invariance, PTL

\* Every answer continues the follower's position without a gap.
THEOREM AnswerCorrect == Spec => []AnswerContinues
  <1>1. Inv => AnswerContinues
    BY DEF Inv
  <1> QED BY <1>1, Invariance, PTL
============================================================================
