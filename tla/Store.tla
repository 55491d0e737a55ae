------------------------------- MODULE Store -------------------------------
(***************************************************************************)
(* A replica's in-memory LSM store (internal/storage/lsm.go) as the        *)
(* partition drives it (appendLocked, applyLocked, Snapshot, LoadSnapshot  *)
(* and resetLocked of internal/partition/partition.go).                    *)
(*                                                                         *)
(* Partition.mu serialises the partition's operations, so each is one      *)
(* action.  A background compaction holds Store.mu only to read its input  *)
(* and to install its result, so it is two, with anything in between.      *)
(* A table is a map with tombstones; the WAL checkpoint a level is tagged  *)
(* with is never read and is left out.                                     *)
(***************************************************************************)
EXTENDS Integers, Sequences, FiniteSets

CONSTANTS Key, Value,
          Absent,     \* no entry for the key
          Tombstone,  \* entry{deleted: true}
          FlushSize,  \* entries in the memtable before it is frozen
          MaxLevels,  \* levels before a compaction is started
          MaxResets,  \* bound: loads and resets explored
          LevelBound, \* bound: levels explored
          SpawnBound  \* bound: compactions waiting to start

ASSUME KeyAssumption == IsFiniteSet(Key)
ASSUME SizeAssumption == FlushSize \in Nat \ {0} /\ MaxLevels \in Nat \ {0}
ASSUME BoundAssumption == MaxResets \in Nat /\ LevelBound \in Nat /\ SpawnBound \in Nat
ASSUME ValueAssumption == Absent \notin Value /\ Tombstone \notin Value /\ Absent # Tombstone

VARIABLES active,     \* the memtable
          levels,     \* the frozen tables, oldest first
          resets,     \* bumped by Load and Reset
          keys,       \* Partition.keys
          spawned,    \* compaction goroutines that have not run yet
          compaction, \* the one that holds compactMu, if any
          last        \* the operation applied last

vars == <<active, levels, resets, keys, spawned, compaction, last>>

Table == [Key -> Value \cup {Absent, Tombstone}]
Empty == [k \in Key |-> Absent]
Size(t) == Cardinality({k \in Key : t[k] # Absent})

NoCompaction == [running |-> FALSE, input |-> <<>>, resets |-> 0]

Init ==
  /\ active = Empty /\ levels = <<>> /\ resets = 0
  /\ keys = 0 /\ last = <<"reset">>
  /\ spawned = 0 /\ compaction = NoCompaction

----------------------------------------------------------------------------
(* Reading.                                                                *)

\* Mutant: the search starts at the oldest table.
NewestIsOldest(tables, k) ==
  CHOOSE i \in 1..Len(tables) :
    tables[i][k] # Absent /\ \A j \in 1..(i - 1) : tables[j][k] = Absent

\* The newest of the tables (oldest first) that has an entry for k.
Newest(tables, k) ==
  CHOOSE i \in 1..Len(tables) :
    tables[i][k] # Absent /\ \A j \in (i + 1)..Len(tables) : tables[j][k] = Absent

\* What the newest entry says; a tombstone hides every older value.
Lookup(tables, k) ==
  IF \A i \in 1..Len(tables) : tables[i][k] = Absent THEN Absent
  ELSE LET e == tables[Newest(tables, k)][k]
       IN IF e = Tombstone THEN Absent ELSE e

\* What compactLocked and Materialize make of levels: later tables win, tombstones go.
Merge(tables) == [k \in Key |-> Lookup(tables, k)]

\* One pass of the body of the loop they share.
MergeLevel(merged, l) ==
  [k \in Key |-> CASE l[k] = Absent    -> merged[k]
                   [] l[k] = Tombstone -> Absent
                   [] OTHER            -> l[k]]

\* The loop visits the levels oldest first.
MergeLoop(tables) ==
  LET merged[i \in 0..Len(tables)] ==
        IF i = 0 THEN Empty ELSE MergeLevel(merged[i - 1], tables[i])
  IN merged[Len(tables)]

Get(k) == Lookup(Append(levels, active), k)

Contents == [k \in Key |-> Get(k)]

----------------------------------------------------------------------------
(* Writing.                                                                *)

\* Flush: table, the memtable, is frozen unless it is empty.
Flush(table) ==
  /\ levels' = IF table = Empty THEN levels ELSE Append(levels, table)
  /\ active' = Empty
  /\ spawned' = IF Len(levels') > MaxLevels THEN spawned + 1 ELSE spawned
  /\ Len(levels') <= LevelBound /\ spawned' <= SpawnBound

\* The memtable after applyLocked of a set (e a value) or a delete (Tombstone).
Written(k, e) ==
  IF e = Tombstone /\ Get(k) = Absent THEN active ELSE [active EXCEPT ![k] = e]

\* Mutant: a delete is counted although the key had no value.
CountedBlindly(k, e) ==
  CASE e # Tombstone /\ Get(k) = Absent  -> keys + 1
    [] e = Tombstone                     -> keys - 1
    [] OTHER                             -> keys

Counted(k, e) ==
  CASE e # Tombstone /\ Get(k) = Absent  -> keys + 1
    [] e = Tombstone /\ Get(k) # Absent  -> keys - 1
    [] OTHER                             -> keys

Operation(k, e) == IF e = Tombstone THEN <<"delete", k>> ELSE <<"set", k, e>>

\* appendLocked on a leader: apply, then freeze a memtable that has grown enough.
LeaderApply(k, e) ==
  /\ last' = Operation(k, e)
  /\ keys' = Counted(k, e)
  /\ IF Size(Written(k, e)) >= FlushSize
       THEN Flush(Written(k, e))
       ELSE active' = Written(k, e) /\ UNCHANGED <<levels, spawned>>
  /\ UNCHANGED <<resets, compaction>>

\* applyLocked on a follower: its flushes come as checkpoint entries.
FollowerApply(k, e) ==
  /\ last' = Operation(k, e)
  /\ keys' = Counted(k, e)
  /\ active' = Written(k, e)
  /\ UNCHANGED <<levels, spawned, resets, compaction>>

\* A checkpoint entry on a follower, or Snapshot on a leader.
Checkpoint == Flush(active) /\ UNCHANGED <<keys, last, resets, compaction>>

\* LoadSnapshot: the data replaces everything.
LoadSnapshot(data) ==
  /\ resets < MaxResets
  /\ resets' = resets + 1
  /\ active' = Empty /\ levels' = <<data>>
  /\ keys' = Cardinality({k \in Key : data[k] # Absent})
  /\ last' = <<"load", data>>
  /\ UNCHANGED <<spawned, compaction>>

\* Mutant: a running compaction is not told.
resetLockedUnnoticed ==
  /\ resets < MaxResets
  /\ UNCHANGED resets
  /\ active' = Empty /\ levels' = <<>>
  /\ keys' = 0
  /\ last' = <<"reset">>
  /\ UNCHANGED <<spawned, compaction>>

resetLocked ==
  /\ resets < MaxResets
  /\ resets' = resets + 1
  /\ active' = Empty /\ levels' = <<>>
  /\ keys' = 0
  /\ last' = <<"reset">>
  /\ UNCHANGED <<spawned, compaction>>

----------------------------------------------------------------------------
(* Compaction.                                                             *)

\* The goroutine runs: TryLock fails, or there is nothing to merge, or it
\* takes the lock and reads its input.
CompactionRuns ==
  /\ spawned > 0
  /\ spawned' = spawned - 1
  /\ compaction' = IF compaction.running \/ Len(levels) < 2 THEN compaction
                   ELSE [running |-> TRUE, input |-> levels, resets |-> resets]
  /\ UNCHANGED <<active, levels, resets, keys, last>>

\* Mutant: levels frozen during the merge are thrown away.
CompactionInstallsAlone ==
  /\ compaction.running
  /\ levels' = IF resets # compaction.resets THEN levels ELSE <<Merge(compaction.input)>>
  /\ compaction' = NoCompaction
  /\ UNCHANGED <<active, resets, keys, spawned, last>>

\* The merged level replaces the input, unless the store was emptied since;
\* levels frozen during the merge stay on top.
CompactionInstalls ==
  /\ compaction.running
  /\ levels' = IF resets # compaction.resets THEN levels
               ELSE <<Merge(compaction.input)>>
                      \o SubSeq(levels, Len(compaction.input) + 1, Len(levels))
  /\ compaction' = NoCompaction
  /\ UNCHANGED <<active, resets, keys, spawned, last>>

----------------------------------------------------------------------------
Next ==
  \/ \E k \in Key, e \in Value \cup {Tombstone} : LeaderApply(k, e) \/ FollowerApply(k, e)
  \/ Checkpoint
  \/ \E data \in [Key -> Value \cup {Absent}] : LoadSnapshot(data)
  \/ resetLocked
  \/ CompactionRuns
  \/ CompactionInstalls

Spec == Init /\ [][Next]_vars

----------------------------------------------------------------------------
(* Properties.                                                             *)

\* The values the Go fields can hold.
TypeOK ==
  /\ active \in Table /\ levels \in Seq(Table)
  /\ resets \in Nat /\ keys \in Nat /\ spawned \in Nat
  /\ compaction \in [running : BOOLEAN, input : Seq(Table), resets : Nat]

\* While the store has not been emptied, what a running compaction merges is
\* still the bottom of the levels, so replacing that prefix loses nothing.
InputIsPrefix ==
  compaction.running /\ resets = compaction.resets =>
    /\ Len(compaction.input) <= Len(levels)
    /\ compaction.input = SubSeq(levels, 1, Len(compaction.input))

\* What Snapshot hands out (Materialize of the levels after the flush) is what
\* reads returned at that moment, and compactLocked's loop computes Merge.
SnapshotIsContents ==
  /\ MergeLoop(IF active = Empty THEN levels ELSE Append(levels, active)) = Contents
  /\ compaction.running => MergeLoop(compaction.input) = Merge(compaction.input)

\* The store, with its memtable, levels, tombstones and compactions, is a
\* plain map: no flush or compaction changes what any key reads, and the
\* partition's key count is the number of keys that have a value.
KV == INSTANCE KVStore WITH kv <- Contents
RefinesMap == KV!Spec
============================================================================
