---------------------------- MODULE StoreProofs ----------------------------
(***************************************************************************)
(* Proofs about module Store: flushes and compactions are not visible, and *)
(* the store implements the map of module KVStore.                         *)
(***************************************************************************)
EXTENDS Store, SequenceTheorems, FiniteSetTheorems, WellFoundedInduction, TLAPS

----------------------------------------------------------------------------
(* Least and greatest numbers.                                             *)

\* A set of natural numbers has a least element, and a bounded one a greatest.
LEMMA LeastNat ==
  ASSUME NEW T \in SUBSET Nat, T # {}
  PROVE  \E x \in T : \A y \in T : x <= y
<1>1. PICK x \in T : \A y \in T : ~(<<y, x>> \in OpToRel(<, Nat))
  BY NatLessThanWellFounded, WFMin, Zenon
<1>2. \A y \in T : ~(y < x)
  BY <1>1 DEF OpToRel
<1> QED
  BY <1>2

LEMMA GreatestNat ==
  ASSUME NEW T \in SUBSET Nat, T # {}, NEW n \in Nat, \A x \in T : x <= n
  PROVE  \E x \in T : \A y \in T : y <= x
<1> DEFINE D == {d \in Nat : n - d \in T}
<1>1. PICK x \in T : TRUE
  OBVIOUS
<1>2. n - x \in D
  <2>1. n - x \in Nat /\ n - (n - x) = x
    BY <1>1
  <2> QED
    BY <1>1, <2>1
<1>3. PICK d \in D : \A e \in D : d <= e
  BY <1>2, LeastNat
<1>4. ASSUME NEW y \in T PROVE y <= n - d
  <2>1. y \in Nat /\ y <= n
    OBVIOUS
  <2>2. n - y \in Nat /\ n - (n - y) = y
    BY <2>1
  <2>3. n - y \in D
    BY <2>2
  <2>4. d <= n - y /\ d \in Nat
    BY <1>3, <2>3
  <2> HIDE DEF D
  <2> QED
    BY <2>1, <2>4
<1> QED
  BY <1>3, <1>4

----------------------------------------------------------------------------
(* Reading.                                                                *)

IsNewest(tables, k, i) ==
  /\ i \in 1..Len(tables) /\ tables[i][k] # Absent
  /\ \A j \in (i + 1)..Len(tables) : tables[j][k] = Absent

\* What a reader makes of an entry.
Read(e) == IF e = Tombstone THEN Absent ELSE e

LEMMA NewestExists ==
  ASSUME NEW tables \in Seq(Table), NEW k \in Key,
         ~\A i \in 1..Len(tables) : tables[i][k] = Absent
  PROVE  \E i : IsNewest(tables, k, i)
<1> DEFINE T == {i \in 1..Len(tables) : tables[i][k] # Absent}
<1>1. Len(tables) \in Nat
  OBVIOUS
<1>2. T \in SUBSET Nat /\ T # {} /\ \A x \in T : x <= Len(tables)
  BY <1>1
<1>3. PICK i \in T : \A j \in T : j <= i
  <2> HIDE DEF T
  <2> QED
    BY <1>1, <1>2, GreatestNat
<1>4. \A j \in (i + 1)..Len(tables) : tables[j][k] = Absent
  <2> SUFFICES ASSUME NEW j \in (i + 1)..Len(tables), tables[j][k] # Absent PROVE FALSE
    OBVIOUS
  <2>1. i \in Nat /\ j \in 1..Len(tables) /\ j > i
    BY <1>1
  <2>2. j \in T
    BY <2>1
  <2> QED
    BY <1>3, <2>1, <2>2
<1> QED
  BY <1>4 DEF IsNewest

LEMMA LookupNewest ==
  ASSUME NEW tables \in Seq(Table), NEW k \in Key, NEW i, IsNewest(tables, k, i)
  PROVE  Lookup(tables, k) = Read(tables[i][k])
<1>1. Len(tables) \in Nat /\ i \in Nat
  BY DEF IsNewest
<1> DEFINE n == Newest(tables, k)
<1>2. IsNewest(tables, k, n)
  BY DEF IsNewest, Newest
<1> HIDE DEF n
<1>3. n \in Nat
  BY <1>1, <1>2 DEF IsNewest
<1>4. ~(n > i) /\ ~(i > n)
  BY <1>1, <1>2, <1>3 DEF IsNewest
<1>5. n = i
  BY <1>1, <1>3, <1>4
<1> QED
  BY <1>5 DEF Lookup, Read, IsNewest, n

LEMMA LookupAbsent ==
  ASSUME NEW tables, NEW k, \A i \in 1..Len(tables) : tables[i][k] = Absent
  PROVE  Lookup(tables, k) = Absent
  BY DEF Lookup

LEMMA LookupType ==
  ASSUME NEW tables \in Seq(Table), NEW k \in Key
  PROVE  Lookup(tables, k) \in Value \cup {Absent}
<1>1. CASE \A i \in 1..Len(tables) : tables[i][k] = Absent
  BY <1>1, LookupAbsent
<1>2. CASE ~\A i \in 1..Len(tables) : tables[i][k] = Absent
  <2>1. PICK i : IsNewest(tables, k, i)
    BY <1>2, NewestExists
  <2>2. tables[i] \in Table
    BY <2>1 DEF IsNewest
  <2>3. tables[i][k] \in Value \cup {Absent, Tombstone}
    BY <2>2 DEF Table
  <2> QED
    BY <2>1, <2>3, LookupNewest DEF Read
<1> QED
  BY <1>1, <1>2

\* The last table decides unless it has no entry.
LEMMA LookupAppend ==
  ASSUME NEW s \in Seq(Table), NEW t \in Table, NEW k \in Key
  PROVE  Lookup(Append(s, t), k) = IF t[k] = Absent THEN Lookup(s, k) ELSE Read(t[k])
<1> DEFINE a == Append(s, t)
           n == Len(s)
<1>1. /\ a \in Seq(Table) /\ Len(a) = n + 1 /\ n \in Nat /\ a[n + 1] = t
      /\ \A i \in 1..n : a[i] = s[i]
  OBVIOUS
<1> HIDE DEF a, n
<1>2. CASE t[k] # Absent
  <2>1. IsNewest(a, k, n + 1)
    BY <1>1, <1>2 DEF IsNewest
  <2>2. Lookup(a, k) = Read(a[n + 1][k])
    BY <1>1, <2>1, LookupNewest
  <2> QED
    BY <1>1, <1>2, <2>2 DEF a
<1>3. CASE t[k] = Absent /\ \A i \in 1..n : s[i][k] = Absent
  <2>1. \A i \in 1..Len(a) : a[i][k] = Absent
    BY <1>1, <1>3
  <2> QED
    BY <1>3, <2>1, LookupAbsent DEF a, n
<1>4. CASE t[k] = Absent /\ ~\A i \in 1..n : s[i][k] = Absent
  <2>1. PICK i : IsNewest(s, k, i)
    BY <1>4, NewestExists DEF n
  <2>2. i \in 1..n /\ s[i][k] # Absent /\ \A j \in (i + 1)..n : s[j][k] = Absent
    BY <2>1 DEF IsNewest, n
  <2>3. IsNewest(a, k, i)
    BY <1>1, <1>4, <2>2 DEF IsNewest
  <2>4. Lookup(a, k) = Read(s[i][k]) /\ Lookup(s, k) = Read(s[i][k])
    BY <1>1, <2>1, <2>2, <2>3, LookupNewest
  <2> QED
    BY <1>4, <2>4 DEF a
<1> QED
  BY <1>2, <1>3, <1>4

\* Replacing the oldest tables by what a merge makes of them changes nothing
\* that is read: a holds p and then the tables that b holds after the merge.
LEMMA LookupMerged ==
  ASSUME NEW a \in Seq(Table), NEW b \in Seq(Table), NEW p \in Seq(Table), NEW k \in Key,
         Len(p) <= Len(a), Len(b) = (Len(a) - Len(p)) + 1,
         \A i \in 1..Len(p) : a[i] = p[i],
         b[1] = Merge(p),
         \A i \in 2..Len(b) : b[i] = a[(i + Len(p)) - 1]
  PROVE  Lookup(b, k) = Lookup(a, k)
<1> DEFINE n == Len(p)
<1>1. n \in Nat /\ Len(a) \in Nat /\ Len(b) \in Nat /\ b[1][k] = Lookup(p, k) /\ 1 \in 1..Len(b)
  BY DEF Merge
<1>a. \A i \in 1..n : i \in 1..Len(a) /\ p[i][k] = a[i][k]
  BY <1>1
<1>b. \A i \in 2..Len(b) : (i + n) - 1 \in 1..Len(a) /\ b[i][k] = a[(i + n) - 1][k]
  BY <1>1
<1> HIDE DEF n
<1>2. CASE \A i \in 1..Len(a) : a[i][k] = Absent
  <2>1. \A i \in 1..Len(p) : p[i][k] = Absent
    BY <1>2, <1>a DEF n
  <2>2. b[1][k] = Absent
    BY <1>1, <2>1, LookupAbsent
  <2>3. \A i \in 1..Len(b) : i = 1 \/ i \in 2..Len(b)
    BY <1>1
  <2>4. \A i \in 1..Len(b) : b[i][k] = Absent
    BY <1>2, <1>b, <2>2, <2>3
  <2> QED
    BY <1>2, <2>4, LookupAbsent
<1>3. CASE ~\A i \in 1..Len(a) : a[i][k] = Absent
  <2>1. PICK i : IsNewest(a, k, i)
    BY <1>3, NewestExists
  <2>2. i \in 1..Len(a) /\ a[i][k] # Absent /\ \A j \in (i + 1)..Len(a) : a[j][k] = Absent
    BY <2>1 DEF IsNewest
  <2>3. Lookup(a, k) = Read(a[i][k])
    BY <2>1, LookupNewest
  <2>4. CASE i > n
    <3> DEFINE j == (i - n) + 1
    <3>1. j \in 2..Len(b) /\ (j + n) - 1 = i
      BY <1>1, <2>2, <2>4 DEF n
    <3>2. b[j] = a[i]
      BY <3>1 DEF n
    <3>3. \A m \in (j + 1)..Len(b) : b[m][k] = Absent
      <4> SUFFICES ASSUME NEW m \in (j + 1)..Len(b) PROVE b[m][k] = Absent
        OBVIOUS
      <4>1. m \in 2..Len(b) /\ (m + n) - 1 \in (i + 1)..Len(a)
        BY <1>1, <2>2, <2>4, <3>1 DEF n
      <4> QED
        BY <2>2, <4>1 DEF n
    <3>4. IsNewest(b, k, j)
      BY <1>1, <2>2, <3>1, <3>2, <3>3 DEF IsNewest
    <3> QED
      BY <2>3, <3>2, <3>4, LookupNewest
  <2>5. CASE i <= n
    <3>1. IsNewest(p, k, i)
      <4>1. i \in 1..n /\ p[i][k] # Absent
        BY <1>1, <1>a, <2>2, <2>5
      <4>2. \A j \in (i + 1)..n : j \in 1..n /\ j \in (i + 1)..Len(a)
        BY <1>1, <1>a, <4>1
      <4>3. \A j \in (i + 1)..n : p[j][k] = Absent
        BY <1>a, <2>2, <4>2
      <4> QED
        BY <4>1, <4>3 DEF IsNewest, n
    <3>2. Lookup(p, k) = Read(a[i][k])
      BY <1>1, <2>2, <2>5, <3>1, LookupNewest DEF n
    <3>3. \A m \in 2..Len(b) : b[m][k] = Absent
      <4> SUFFICES ASSUME NEW m \in 2..Len(b) PROVE b[m][k] = Absent
        OBVIOUS
      <4>1. (m + n) - 1 \in (i + 1)..Len(a)
        BY <1>1, <2>2, <2>5 DEF n
      <4> QED
        BY <2>2, <4>1 DEF n
    <3>4. CASE Lookup(p, k) = Absent
      <4>1. \A m \in 1..Len(b) : b[m][k] = Absent
        BY <1>1, <3>3, <3>4
      <4> QED
        BY <2>3, <3>2, <3>4, <4>1, LookupAbsent
    <3>5. CASE Lookup(p, k) # Absent
      <4>1. IsNewest(b, k, 1)
        BY <1>1, <3>3, <3>5 DEF IsNewest
      <4>2. Lookup(p, k) # Tombstone
        BY LookupType, ValueAssumption
      <4> QED
        BY <1>1, <2>3, <3>2, <4>1, <4>2, LookupNewest DEF Read
    <3> QED
      BY <3>4, <3>5
  <2> QED
    BY <1>1, <2>2, <2>4, <2>5
<1> QED
  BY <1>2, <1>3

----------------------------------------------------------------------------
(* Types.                                                                  *)

Types ==
  /\ active \in Table /\ levels \in Seq(Table)
  /\ resets \in Nat /\ spawned \in Nat
  /\ compaction \in [running : BOOLEAN, input : Seq(Table), resets : Nat]

LEMMA EmptyTable == Empty \in Table
  BY DEF Empty, Table

LEMMA MergeTable ==
  ASSUME NEW tables \in Seq(Table)
  PROVE  Merge(tables) \in Table
  BY LookupType DEF Merge, Table

LEMMA WrittenTable ==
  ASSUME Types, NEW k \in Key, NEW e \in Value \cup {Tombstone}
  PROVE  Written(k, e) \in Table
  BY DEF Types, Written, Table

LEMMA FlushTypes ==
  ASSUME Types, NEW t \in Table, Flush(t)
  PROVE  /\ active' \in Table /\ levels' \in Seq(Table) /\ spawned' \in Nat
         /\ Len(levels) <= Len(levels') /\ \A i \in 1..Len(levels) : levels'[i] = levels[i]
<1>1. levels' \in {levels, Append(levels, t)} /\ levels \in Seq(Table)
  BY DEF Flush, Types
<1>2. /\ Append(levels, t) \in Seq(Table) /\ Len(Append(levels, t)) = Len(levels) + 1
      /\ \A i \in 1..Len(levels) : Append(levels, t)[i] = levels[i]
      /\ Len(levels) \in Nat
  BY <1>1
<1> QED
  BY <1>1, <1>2, EmptyTable DEF Flush, Types

LEMMA TopLevels ==
  ASSUME NEW s \in Seq(Table), NEW n \in Nat, n <= Len(s)
  PROVE  /\ SubSeq(s, n + 1, Len(s)) \in Seq(Table)
         /\ Len(SubSeq(s, n + 1, Len(s))) = Len(s) - n
         /\ \A i \in 1..(Len(s) - n) : SubSeq(s, n + 1, Len(s))[i] = s[n + i]
<1> DEFINE m == Len(s)
           l == n + 1
<1>1. m \in Int /\ l \in Int /\ n <= m /\ m \in Nat
  OBVIOUS
<1>2. \A i \in l..m : s[i] \in Table
  BY <1>1, ElementOfSeq
<1> HIDE DEF m, l
<1>3. /\ SubSeq(s, l, m) \in Seq(Table)
      /\ Len(SubSeq(s, l, m)) = IF l <= m THEN m - l + 1 ELSE 0
      /\ \A i \in 1..(m - l + 1) : SubSeq(s, l, m)[i] = s[l + i - 1]
  BY <1>1, <1>2, SubSeqProperties
<1>4. m - l + 1 = m - n /\ (l <= m \/ m - n = 0) /\ \A i \in 1..(m - n) : l + i - 1 = n + i
  BY <1>1 DEF l
<1> QED
  BY <1>3, <1>4 DEF m, l

LEMMA OneAndRest ==
  ASSUME NEW t \in Table, NEW s \in Seq(Table)
  PROVE  /\ <<t>> \o s \in Seq(Table) /\ Len(<<t>> \o s) = Len(s) + 1 /\ (<<t>> \o s)[1] = t
         /\ \A i \in 2..(Len(s) + 1) : (<<t>> \o s)[i] = s[i - 1]
  OBVIOUS

\* What a compaction installs, table by table.
LEMMA Installed ==
  ASSUME Types, compaction.running, InputIsPrefix, resets = compaction.resets, CompactionInstalls
  PROVE  LET n == Len(compaction.input)
         IN /\ levels' \in Seq(Table) /\ n \in Nat
            /\ n <= Len(levels) /\ Len(levels') = (Len(levels) - n) + 1
            /\ \A i \in 1..n : levels[i] = compaction.input[i]
            /\ levels'[1] = Merge(compaction.input)
            /\ \A i \in 2..Len(levels') : levels'[i] = levels[(i + n) - 1]
<1> DEFINE p == compaction.input
           n == Len(p)
           m == Len(levels)
           top == SubSeq(levels, n + 1, m)
<1>1. p \in Seq(Table) /\ levels \in Seq(Table) /\ n \in Nat /\ m \in Nat /\ n <= m
  BY DEF Types, InputIsPrefix
<1>2. \A i \in 1..m : levels[i] \in Table
  BY <1>1, ElementOfSeq
<1>3. \A i \in 1..n : levels[i] = p[i]
  <2>1. \A i \in 1..n : levels[i] \in Table
    BY <1>1, <1>2
  <2>2. \A i \in 1..n : SubSeq(levels, 1, n)[i] = levels[i]
    BY <1>1, <2>1, SubSeqProperties
  <2>3. p = SubSeq(levels, 1, n)
    BY DEF InputIsPrefix
  <2> QED
    BY <2>2, <2>3
<1>4. /\ top \in Seq(Table) /\ Len(top) = m - n
      /\ \A i \in 1..(m - n) : top[i] = levels[n + i]
  BY <1>1, TopLevels
<1>5. levels' = <<Merge(p)>> \o top /\ Merge(p) \in Table
  BY <1>1, MergeTable DEF CompactionInstalls
<1> HIDE DEF top, n, m, p
<1>6. /\ levels' \in Seq(Table) /\ Len(levels') = (m - n) + 1 /\ levels'[1] = Merge(p)
      /\ \A i \in 2..((m - n) + 1) : levels'[i] = top[i - 1]
  BY <1>4, <1>5, OneAndRest
<1>7. \A i \in 2..Len(levels') : i - 1 \in 1..(m - n) /\ n + (i - 1) = (i + n) - 1
  BY <1>1, <1>6
<1>8. \A i \in 2..Len(levels') : levels'[i] = levels[(i + n) - 1]
  BY <1>4, <1>6, <1>7
<1> QED
  BY <1>1, <1>3, <1>6, <1>8 DEF n, m, p

LEMMA InitTypes == Init => Types
  BY EmptyTable DEF Init, Types, NoCompaction

LEMMA NextTypes == Types /\ InputIsPrefix /\ [Next]_vars => Types'
<1> SUFFICES ASSUME Types, InputIsPrefix, [Next]_vars PROVE Types'
  OBVIOUS
<1>1. ASSUME NEW k \in Key, NEW e \in Value \cup {Tombstone}, LeaderApply(k, e) \/ FollowerApply(k, e)
      PROVE  Types'
  <2>1. Written(k, e) \in Table
    BY WrittenTable
  <2>2. CASE active' = Written(k, e) /\ UNCHANGED <<levels, spawned>>
    BY <1>1, <2>1, <2>2 DEF LeaderApply, FollowerApply, Types
  <2>3. CASE Flush(Written(k, e))
    BY <1>1, <2>1, <2>3, FlushTypes DEF LeaderApply, FollowerApply, Types
  <2> QED
    BY <1>1, <2>2, <2>3 DEF LeaderApply, FollowerApply
<1>2. CASE Checkpoint
  BY <1>2, FlushTypes DEF Checkpoint, Types
<1>3. ASSUME NEW data \in [Key -> Value \cup {Absent}], LoadSnapshot(data) PROVE Types'
  <2>1. data \in Table
    BY DEF Table
  <2> QED
    BY <1>3, <2>1, EmptyTable DEF LoadSnapshot, Types
<1>4. CASE resetLocked
  BY <1>4, EmptyTable DEF resetLocked, Types
<1>5. CASE CompactionRuns
  BY <1>5 DEF CompactionRuns, Types
<1>6. CASE CompactionInstalls
  <2>1. levels' \in Seq(Table)
    BY <1>6, Installed DEF CompactionInstalls, Types
  <2> QED
    BY <1>6, <2>1 DEF CompactionInstalls, NoCompaction, Types
<1>7. CASE UNCHANGED vars
  BY <1>7 DEF vars, Types
<1> QED
  BY <1>1, <1>2, <1>3, <1>4, <1>5, <1>6, <1>7 DEF Next

----------------------------------------------------------------------------
(* Compaction.                                                             *)

\* A compaction that was overtaken by a load or a reset has an older number.
Compacting ==
  /\ InputIsPrefix
  /\ compaction.running => compaction.resets <= resets

LEMMA PrefixByElement ==
  ASSUME NEW p \in Seq(Table), NEW s \in Seq(Table), Len(p) <= Len(s)
  PROVE  p = SubSeq(s, 1, Len(p)) <=> \A i \in 1..Len(p) : s[i] = p[i]
<1>1. Len(p) \in Nat /\ Len(s) \in Nat
  OBVIOUS
<1> DEFINE n == Len(p)
           q == SubSeq(s, 1, n)
<1>2. \A i \in 1..n : s[i] \in Table
  BY <1>1, ElementOfSeq
<1>3. q \in Seq(Table) /\ Len(q) = n /\ \A i \in 1..n : q[i] = s[i]
  <2>1. /\ q \in Seq(Table) /\ Len(q) = IF 1 <= n THEN (n - 1) + 1 ELSE 0
        /\ \A i \in 1..((n - 1) + 1) : q[i] = s[(1 + i) - 1]
    BY <1>1, <1>2, SubSeqProperties
  <2> HIDE DEF q, n
  <2> QED
    BY <1>1, <2>1 DEF n
<1>4. (\A i \in 1..n : q[i] = p[i]) => q = p
  <2> HIDE DEF q
  <2> QED
    BY <1>3, SeqEqual
<1> QED
  BY <1>3, <1>4

LEMMA InitCompacting == Init => Compacting
  BY DEF Init, Compacting, InputIsPrefix, NoCompaction

LEMMA NextCompacting == Types /\ Compacting /\ [Next]_vars => Compacting'
<1> SUFFICES ASSUME Types, Compacting, [Next]_vars PROVE Compacting'
  OBVIOUS
<1>1. Types'
  BY NextTypes DEF Compacting
<1>2. CASE CompactionInstalls
  BY <1>2 DEF CompactionInstalls, NoCompaction, Compacting, InputIsPrefix
<1>3. CASE CompactionRuns
  <2>1. CASE compaction' = compaction
    BY <1>3, <2>1 DEF CompactionRuns, Compacting, InputIsPrefix
  <2>2. CASE compaction' = [running |-> TRUE, input |-> levels, resets |-> resets]
    <3>1. Len(levels) \in Nat /\ levels = SubSeq(levels, 1, Len(levels))
      BY PrefixByElement DEF Types
    <3> QED
      BY <1>3, <2>2, <3>1 DEF CompactionRuns, Compacting, InputIsPrefix, Types
  <2> QED
    BY <1>3, <2>1, <2>2 DEF CompactionRuns
<1>4. CASE resets' = resets + 1 /\ UNCHANGED compaction
  BY <1>4 DEF Compacting, InputIsPrefix, Types
<1>5. CASE /\ UNCHANGED <<resets, compaction>>
           /\ Len(levels) <= Len(levels') /\ \A i \in 1..Len(levels) : levels'[i] = levels[i]
  <2> SUFFICES ASSUME compaction.running, resets = compaction.resets
               PROVE  /\ Len(compaction.input) <= Len(levels')
                      /\ compaction.input = SubSeq(levels', 1, Len(compaction.input))
    BY <1>5 DEF Compacting, InputIsPrefix
  <2> DEFINE p == compaction.input
  <2>1. /\ p \in Seq(Table) /\ levels \in Seq(Table) /\ levels' \in Seq(Table)
        /\ Len(p) <= Len(levels) /\ p = SubSeq(levels, 1, Len(p))
    BY <1>1 DEF Types, Compacting, InputIsPrefix
  <2>2. Len(p) \in Nat /\ Len(levels) \in Nat /\ Len(levels') \in Nat
    BY <2>1
  <2> HIDE DEF p
  <2>3. \A i \in 1..Len(p) : levels[i] = p[i]
    BY <2>1, PrefixByElement
  <2>4. Len(p) <= Len(levels') /\ \A i \in 1..Len(p) : levels'[i] = p[i]
    BY <1>5, <2>1, <2>2, <2>3
  <2>5. p = SubSeq(levels', 1, Len(p))
    BY <2>1, <2>4, PrefixByElement
  <2> QED
    BY <2>4, <2>5 DEF p
<1>6. CASE UNCHANGED <<levels, resets, compaction>>
  BY <1>5, <1>6 DEF Types
<1>7. ASSUME NEW t \in Table, Flush(t), UNCHANGED <<resets, compaction>> PROVE Compacting'
  BY <1>5, <1>7, FlushTypes
<1>8. ASSUME NEW k \in Key, NEW e \in Value \cup {Tombstone}, LeaderApply(k, e) \/ FollowerApply(k, e)
      PROVE  Compacting'
  BY <1>6, <1>7, <1>8, WrittenTable DEF LeaderApply, FollowerApply
<1>9. CASE Checkpoint
  BY <1>7, <1>9 DEF Checkpoint, Types
<1> QED
  BY <1>2, <1>3, <1>4, <1>6, <1>8, <1>9 DEF Next, LoadSnapshot, resetLocked, vars

\* While a compaction merges without the lock, writers only add levels on top
\* of what it read; a load or a reset in between is noticed by its number,
\* however often it happens (compactLocked, Load, Reset).
THEOREM CompactionInputStays == Spec => []InputIsPrefix
<1>1. Compacting => InputIsPrefix
  BY DEF Compacting
<1> QED
  BY <1>1, InitTypes, NextTypes, InitCompacting, NextCompacting, PTL DEF Spec

----------------------------------------------------------------------------
(* The map.                                                                *)

PresentIn(m) == {k \in Key : m[k] # Absent}

Counts == keys = Cardinality(PresentIn(Contents))

LEMMA ContentsType ==
  ASSUME Types
  PROVE  Contents \in [Key -> Value \cup {Absent}]
<1>1. Append(levels, active) \in Seq(Table)
  BY DEF Types
<1>2. \A k \in Key : Get(k) \in Value \cup {Absent}
  BY <1>1, LookupType DEF Get
<1> QED
  BY <1>2 DEF Contents

LEMMA FlushContents ==
  ASSUME Types, NEW t \in Table, Flush(t)
  PROVE  Contents' = [k \in Key |-> Lookup(Append(levels, t), k)]
<1> SUFFICES ASSUME NEW k \in Key
             PROVE  Lookup(Append(levels', Empty), k) = Lookup(Append(levels, t), k)
  BY DEF Flush, Contents, Get
<1>1. levels' \in Seq(Table) /\ levels \in Seq(Table) /\ Empty[k] = Absent
  BY FlushTypes DEF Types, Empty
<1>2. Lookup(Append(levels', Empty), k) = Lookup(levels', k)
  BY <1>1, EmptyTable, LookupAppend
<1>3. CASE t = Empty
  <2>1. levels' = levels
    BY <1>3 DEF Flush
  <2> QED
    BY <1>3, <2>1
<1>4. CASE t # Empty
  <2>1. levels' = Append(levels, t)
    BY <1>4 DEF Flush
  <2> QED
    BY <1>2, <2>1
<1> QED
  BY <1>3, <1>4

LEMMA WrittenContents ==
  ASSUME Types, NEW k \in Key, NEW e \in Value \cup {Tombstone}
  PROVE  [j \in Key |-> Lookup(Append(levels, Written(k, e)), j)] = [Contents EXCEPT ![k] = Read(e)]
<1> DEFINE w == Written(k, e)
<1>1. Contents \in [Key -> Value \cup {Absent}] /\ e # Absent
  BY ContentsType, ValueAssumption
<1> SUFFICES ASSUME NEW j \in Key
             PROVE  Lookup(Append(levels, w), j) = IF j = k THEN Read(e) ELSE Contents[j]
  BY <1>1
<1>2. Contents[j] = Lookup(Append(levels, active), j) /\ Contents[k] = Get(k)
  BY DEF Contents, Get
<1>3. CASE e = Tombstone /\ Get(k) = Absent
  BY <1>2, <1>3 DEF Written, Read
<1>4. CASE ~(e = Tombstone /\ Get(k) = Absent)
  <2>1. w \in Table /\ active \in Table /\ levels \in Seq(Table) /\ w = [active EXCEPT ![k] = e]
    BY <1>4, WrittenTable DEF Types, Written
  <2>2. w[j] = IF j = k THEN e ELSE active[j]
    BY <2>1 DEF Table
  <2> HIDE DEF w
  <2>3. Lookup(Append(levels, w), j) = IF w[j] = Absent THEN Lookup(levels, j) ELSE Read(w[j])
    BY <2>1, LookupAppend
  <2>4. Lookup(Append(levels, active), j) = IF active[j] = Absent THEN Lookup(levels, j) ELSE Read(active[j])
    BY <2>1, LookupAppend
  <2> QED
    BY <1>1, <1>2, <2>2, <2>3, <2>4
<1> QED
  BY <1>3, <1>4

LEMMA CountedContents ==
  ASSUME Types, Counts, NEW k \in Key, NEW e \in Value \cup {Tombstone}
  PROVE  Counted(k, e) = Cardinality(PresentIn([Contents EXCEPT ![k] = Read(e)]))
<1> DEFINE P == PresentIn(Contents)
           m == [Contents EXCEPT ![k] = Read(e)]
<1>1. Contents \in [Key -> Value \cup {Absent}] /\ e # Absent /\ Get(k) = Contents[k]
  BY ContentsType, ValueAssumption DEF Contents
<1>2. IsFiniteSet(P)
  BY KeyAssumption, FS_Subset DEF PresentIn
<1>3. k \in P <=> Get(k) # Absent
  BY <1>1 DEF PresentIn
<1>4. CASE e # Tombstone
  <2>1. PresentIn(m) = P \cup {k}
    BY <1>1, <1>4 DEF PresentIn, Read
  <2>2. Cardinality(P \cup {k}) = IF k \in P THEN Cardinality(P) ELSE Cardinality(P) + 1
    BY <1>2, FS_AddElement
  <2>3. Counted(k, e) = IF Get(k) = Absent THEN keys + 1 ELSE keys
    BY <1>4 DEF Counted
  <2> QED
    BY <1>3, <2>1, <2>2, <2>3 DEF Counts
<1>5. CASE e = Tombstone
  <2>1. PresentIn(m) = P \ {k}
    BY <1>1, <1>5 DEF PresentIn, Read
  <2>2. Cardinality(P \ {k}) = IF k \in P THEN Cardinality(P) - 1 ELSE Cardinality(P)
    BY <1>2, FS_RemoveElement
  <2>3. Counted(k, e) = IF Get(k) = Absent THEN keys ELSE keys - 1
    BY <1>5 DEF Counted
  <2> QED
    BY <1>3, <2>1, <2>2, <2>3 DEF Counts
<1> QED
  BY <1>4, <1>5

\* A load leaves what it was given.
LEMMA LoadedContents ==
  ASSUME NEW data \in [Key -> Value \cup {Absent}], LoadSnapshot(data)
  PROVE  Contents' = data
<1> SUFFICES ASSUME NEW k \in Key PROVE Lookup(Append(<<data>>, Empty), k) = data[k]
  BY DEF LoadSnapshot, Contents, Get
<1>1. data \in Table /\ Empty[k] = Absent /\ data[k] # Tombstone /\ <<>> \in Seq(Table)
  BY ValueAssumption DEF Table, Empty
<1>2. <<data>> \in Seq(Table) /\ <<data>> = Append(<<>>, data)
  BY <1>1
<1>3. Lookup(Append(<<data>>, Empty), k) = Lookup(<<data>>, k)
  BY <1>1, <1>2, EmptyTable, LookupAppend
<1>4. Lookup(Append(<<>>, data), k) = IF data[k] = Absent THEN Lookup(<<>>, k) ELSE Read(data[k])
  BY <1>1, LookupAppend
<1>5. Lookup(<<>>, k) = Absent
  BY DEF Lookup
<1> QED
  BY <1>1, <1>2, <1>3, <1>4, <1>5 DEF Read

LEMMA EmptyContents ==
  ASSUME NEW k \in Key
  PROVE  Lookup(Append(<<>>, Empty), k) = Absent
<1>1. Empty[k] = Absent /\ <<>> \in Seq(Table)
  BY DEF Empty
<1>2. Lookup(<<>>, k) = Absent
  BY DEF Lookup
<1> QED
  BY <1>1, <1>2, EmptyTable, LookupAppend

LEMMA AppendOne ==
  ASSUME NEW s \in Seq(Table), NEW t \in Table
  PROVE  /\ Append(s, t) \in Seq(Table) /\ Len(Append(s, t)) = Len(s) + 1 /\ Len(s) \in Nat
         /\ Append(s, t)[Len(s) + 1] = t /\ \A i \in 1..Len(s) : Append(s, t)[i] = s[i]
  OBVIOUS

LEMMA CompactedContents ==
  ASSUME Types, InputIsPrefix, CompactionInstalls
  PROVE  Contents' = Contents
<1>1. CASE resets # compaction.resets
  BY <1>1 DEF CompactionInstalls, Contents, Get
<1>2. CASE resets = compaction.resets
  <2> DEFINE p == compaction.input
             n == Len(p)
             a == Append(levels, active)
             b == Append(levels', active)
  <2>1. /\ levels' \in Seq(Table) /\ n \in Nat /\ n <= Len(levels) /\ Len(levels') = (Len(levels) - n) + 1
        /\ \A i \in 1..n : levels[i] = p[i]
        /\ levels'[1] = Merge(p)
        /\ \A i \in 2..Len(levels') : levels'[i] = levels[(i + n) - 1]
    BY <1>2, Installed DEF CompactionInstalls
  <2>2. levels \in Seq(Table) /\ p \in Seq(Table) /\ active \in Table /\ Len(levels) \in Nat
    BY DEF Types
  <2>3. /\ a \in Seq(Table) /\ Len(a) = Len(levels) + 1 /\ a[Len(levels) + 1] = active
        /\ \A i \in 1..Len(levels) : a[i] = levels[i]
    BY <2>2
  <2>4. /\ b \in Seq(Table) /\ Len(b) = Len(levels') + 1 /\ b[Len(levels') + 1] = active
        /\ \A i \in 1..Len(levels') : b[i] = levels'[i]
    BY <2>1, <2>2, AppendOne
  <2> HIDE DEF a, b, n, p
  <2>5. Len(p) <= Len(a) /\ Len(b) = (Len(a) - Len(p)) + 1
    BY <2>1, <2>2, <2>3, <2>4 DEF n
  <2>6. \A i \in 1..Len(p) : a[i] = p[i]
    <3>1. \A i \in 1..n : i \in 1..Len(levels)
      BY <2>1, <2>2
    <3> QED
      BY <2>1, <2>3, <3>1 DEF n
  <2>7. b[1] = Merge(p)
    <3>1. 1 \in 1..Len(levels')
      BY <2>1, <2>2
    <3> QED
      BY <2>1, <2>4, <3>1
  <2>8. \A i \in 2..Len(b) : b[i] = a[(i + n) - 1]
    <3> SUFFICES ASSUME NEW i \in 2..Len(b) PROVE b[i] = a[(i + n) - 1]
      OBVIOUS
    <3>1. CASE i = Len(b)
      <4>1. (i + n) - 1 = Len(levels) + 1 /\ i = Len(levels') + 1
        BY <2>1, <2>2, <2>4, <3>1
      <4> QED
        BY <2>3, <2>4, <4>1
    <3>2. CASE i # Len(b)
      <4> DEFINE l == Len(levels)
      <4>0. n \in Nat /\ l \in Nat /\ n <= l /\ Len(levels') = (l - n) + 1 /\ Len(b) = Len(levels') + 1
        BY <2>1, <2>2, <2>4
      <4> HIDE DEF l
      <4>1. i \in 1..Len(levels') /\ i \in 2..Len(levels') /\ (i + n) - 1 \in 1..l
        BY <3>2, <4>0
      <4> QED
        BY <2>1, <2>3, <2>4, <4>1 DEF l
    <3> QED
      BY <3>1, <3>2
  <2>9. \A k \in Key : Lookup(b, k) = Lookup(a, k)
    BY <2>2, <2>3, <2>4, <2>5, <2>6, <2>7, <2>8, LookupMerged DEF n
  <2> QED
    BY <2>9 DEF CompactionInstalls, Contents, Get, a, b
<1> QED
  BY <1>1, <1>2

----------------------------------------------------------------------------
(* The refinement.                                                         *)

\* Every step of the store is one of the map or leaves it as it is.
MapStep == KV!Next \/ UNCHANGED <<Contents, keys, last>>

LEMMA CardinalitySame == \A S : KV!Cardinality(S) = Cardinality(S)
  BY DEF KV!Cardinality, Cardinality

LEMMA BecomesMap ==
  ASSUME NEW m, Contents' = m, keys' = Cardinality(PresentIn(m))
  PROVE  KV!Becomes(m)
<1>1. KV!Present(m) = PresentIn(m)
  BY DEF KV!Present, PresentIn
<1> QED
  BY <1>1, CardinalitySame DEF KV!Becomes

LEMMA InitMap == Init => KV!Init /\ Counts
<1> SUFFICES ASSUME Init PROVE KV!Init /\ Counts
  OBVIOUS
<1>1. Contents = [k \in Key |-> Absent]
  BY EmptyContents DEF Init, Contents, Get
<1>2. PresentIn(Contents) = {}
  BY <1>1 DEF PresentIn
<1> QED
  BY <1>1, <1>2, FS_EmptySet DEF Init, KV!Init, Counts

LEMMA ApplyMap ==
  ASSUME Types, Counts, NEW k \in Key, NEW e \in Value \cup {Tombstone},
         LeaderApply(k, e) \/ FollowerApply(k, e)
  PROVE  KV!Next /\ Counts'
<1> DEFINE m == [Contents EXCEPT ![k] = Read(e)]
<1>1. Contents' = m
  <2>1. CASE Flush(Written(k, e))
    BY <2>1, FlushContents, WrittenTable, WrittenContents
  <2>2. CASE active' = Written(k, e) /\ UNCHANGED levels
    <3>1. Contents' = [j \in Key |-> Lookup(Append(levels, Written(k, e)), j)]
      BY <2>2 DEF Contents, Get
    <3> QED
      BY <3>1, WrittenContents
  <2> QED
    BY <2>1, <2>2 DEF LeaderApply, FollowerApply
<1>2. keys' = Cardinality(PresentIn(m))
  BY CountedContents DEF LeaderApply, FollowerApply
<1>3. last' = Operation(k, e)
  BY DEF LeaderApply, FollowerApply
<1>4. CASE e = Tombstone
  <2>1. KV!Delete(k)
    BY <1>1, <1>2, <1>3, <1>4, BecomesMap DEF KV!Delete, Operation, Read
  <2> QED
    BY <1>1, <1>2, <2>1 DEF KV!Next, Counts
<1>5. CASE e \in Value /\ e # Tombstone
  <2>1. KV!Set(k, e)
    BY <1>1, <1>2, <1>3, <1>5, BecomesMap DEF KV!Set, Operation, Read
  <2> QED
    BY <1>1, <1>2, <1>5, <2>1 DEF KV!Next, Counts
<1> QED
  BY <1>4, <1>5

LEMMA NextMap == Types /\ Compacting /\ Counts /\ [Next]_vars => MapStep /\ Counts'
<1> SUFFICES ASSUME Types, Compacting, Counts, [Next]_vars PROVE MapStep /\ Counts'
  OBVIOUS
<1>1. ASSUME Contents' = Contents, UNCHANGED <<keys, last>> PROVE MapStep /\ Counts'
  BY <1>1 DEF MapStep, Counts
<1>2. ASSUME NEW k \in Key, NEW e \in Value \cup {Tombstone}, LeaderApply(k, e) \/ FollowerApply(k, e)
      PROVE  MapStep /\ Counts'
  BY <1>2, ApplyMap DEF MapStep
<1>3. CASE Checkpoint
  <2>1. Contents' = Contents
    BY <1>3, FlushContents DEF Checkpoint, Contents, Get, Types
  <2> QED
    BY <1>1, <1>3, <2>1 DEF Checkpoint
<1>4. ASSUME NEW data \in [Key -> Value \cup {Absent}], LoadSnapshot(data) PROVE MapStep /\ Counts'
  <2>1. Contents' = data /\ keys' = Cardinality(PresentIn(data)) /\ last' = <<"load", data>>
    BY <1>4, LoadedContents DEF LoadSnapshot, PresentIn
  <2>2. KV!Load(data)
    BY <2>1, BecomesMap DEF KV!Load
  <2> QED
    BY <2>1, <2>2 DEF MapStep, KV!Next, Counts
<1>5. CASE resetLocked
  <2>1. Contents' = [k \in Key |-> Absent]
    BY <1>5, EmptyContents DEF resetLocked, Contents, Get
  <2>2. PresentIn([k \in Key |-> Absent]) = {}
    BY DEF PresentIn
  <2>3. keys' = Cardinality(PresentIn([k \in Key |-> Absent])) /\ last' = <<"reset">>
    BY <1>5, <2>2, FS_EmptySet DEF resetLocked
  <2>4. KV!Reset
    BY <2>1, <2>3, BecomesMap DEF KV!Reset
  <2> QED
    BY <2>1, <2>3, <2>4 DEF MapStep, KV!Next, Counts
<1>6. CASE CompactionRuns \/ UNCHANGED vars
  <2>1. Contents' = Contents /\ UNCHANGED <<keys, last>>
    BY <1>6 DEF CompactionRuns, vars, Contents, Get
  <2> QED
    BY <1>1, <2>1
<1>7. CASE CompactionInstalls
  <2>1. Contents' = Contents /\ UNCHANGED <<keys, last>>
    BY <1>7, CompactedContents DEF CompactionInstalls, Compacting
  <2> QED
    BY <1>1, <2>1
<1> QED
  BY <1>2, <1>3, <1>4, <1>5, <1>6, <1>7 DEF Next

\* The fields keep their types; above all the key count of the partition,
\* which is counted up and down and set by loads, is never negative
\* (applyLocked).
THEOREM TypeCorrect == Spec => []TypeOK
<1>1. Types /\ Counts => TypeOK
  <2> SUFFICES ASSUME Types, Counts PROVE TypeOK
    OBVIOUS
  <2>1. keys \in Nat
    BY KeyAssumption, FS_Subset, FS_CardinalityType DEF Counts, PresentIn
  <2> QED
    BY <2>1 DEF Types, TypeOK
<1>2. Compacting => InputIsPrefix
  BY DEF Compacting
<1> QED
  BY <1>1, <1>2, InitTypes, NextTypes, InitCompacting, NextCompacting, InitMap, NextMap, PTL DEF Spec

\* A replica's store with its memtable, levels, tombstones and background
\* compactions is a plain map: every operation of the partition changes the
\* map and the key count as it says, and flushes, compactions and failed
\* compactions change nothing, for any number of keys, levels and resets.
THEOREM ImplementsMap == Spec => RefinesMap
<1>1. MapStep => [KV!Next]_(KV!vars)
  BY DEF MapStep, KV!vars
<1>2. Compacting => InputIsPrefix
  BY DEF Compacting
<1> QED
  BY <1>1, <1>2, InitTypes, NextTypes, InitCompacting, NextCompacting, InitMap, NextMap, PTL
  DEF Spec, RefinesMap, KV!Spec

----------------------------------------------------------------------------
(* The merge loop.  The library's induction theorems are out of reach, so  *)
(* an induction looks at the least pass that goes wrong.                   *)

\* A pass adds a level on top of the ones merged so far.
LEMMA MergeOneMore ==
  ASSUME NEW s \in Seq(Table), NEW t \in Table
  PROVE  MergeLevel(Merge(s), t) = Merge(Append(s, t))
<1> SUFFICES ASSUME NEW k \in Key
             PROVE  MergeLevel(Merge(s), t)[k] = Lookup(Append(s, t), k)
  BY DEF MergeLevel, Merge
<1>1. MergeLevel(Merge(s), t)[k] = IF t[k] = Absent THEN Lookup(s, k) ELSE Read(t[k])
  BY ValueAssumption DEF MergeLevel, Merge, Read
<1> QED
  BY <1>1, LookupAppend

LEMMA MergeNothing == Merge(<<>>) = Empty
  BY LookupAbsent DEF Merge, Empty

\* The first i levels.
LEMMA FirstLevels ==
  ASSUME NEW s \in Seq(Table), NEW i \in 1..Len(s)
  PROVE  /\ SubSeq(s, 1, i - 1) \in Seq(Table) /\ s[i] \in Table
         /\ SubSeq(s, 1, i) = Append(SubSeq(s, 1, i - 1), s[i])
<1>1. i \in Nat /\ i - 1 \in Nat /\ i <= Len(s) /\ Len(s) \in Nat
  OBVIOUS
<1>2. /\ SubSeq(s, 1, i - 1) \in Seq(Table) /\ Len(SubSeq(s, 1, i - 1)) = i - 1
      /\ \A j \in 1..(i - 1) : SubSeq(s, 1, i - 1)[j] = s[j]
  BY <1>1
<1>3. /\ SubSeq(s, 1, i) \in Seq(Table) /\ Len(SubSeq(s, 1, i)) = i
      /\ \A j \in 1..i : SubSeq(s, 1, i)[j] = s[j]
  BY <1>1
<1>4. s[i] \in Table
  BY <1>1
<1>5. PICK a \in Seq(Table) : a = SubSeq(s, 1, i - 1)
  BY <1>2
<1>6. PICK b \in Seq(Table) : b = SubSeq(s, 1, i)
  BY <1>3
<1>7. Append(a, s[i]) \in Seq(Table)
  BY <1>4, <1>5
<1>8. Len(b) = i /\ Len(Append(a, s[i])) = i /\ \A j \in 1..i : b[j] = Append(a, s[i])[j]
  BY <1>1, <1>2, <1>3, <1>4, <1>5, <1>6, <1>7
<1>9. b = Append(a, s[i])
  BY <1>7, <1>8, SeqEqual
<1> QED
  BY <1>2, <1>4, <1>5, <1>6, <1>9

LEMMA LoopIsMerge ==
  ASSUME NEW tables \in Seq(Table)
  PROVE  MergeLoop(tables) = Merge(tables)
<1> DEFINE n == Len(tables)
           Passes(f) == f = [i \in 0..n |-> IF i = 0 THEN Empty ELSE MergeLevel(f[i - 1], tables[i])]
           w == [i \in 0..n |-> Merge(SubSeq(tables, 1, i))]
           m == CHOOSE f : Passes(f)
<1>1. n \in Nat
  OBVIOUS
<1>2. w[0] = Empty
  <2>1. SubSeq(tables, 1, 0) = <<>> /\ 0 \in 0..n
    BY <1>1
  <2> QED
    BY <2>1, MergeNothing
<1>3. \A i \in 1..n : w[i] = MergeLevel(w[i - 1], tables[i])
  <2> SUFFICES ASSUME NEW i \in 1..n PROVE w[i] = MergeLevel(w[i - 1], tables[i])
    OBVIOUS
  <2>1. i \in 0..n /\ i - 1 \in 0..n
    BY <1>1
  <2>2. /\ SubSeq(tables, 1, i - 1) \in Seq(Table) /\ tables[i] \in Table
        /\ SubSeq(tables, 1, i) = Append(SubSeq(tables, 1, i - 1), tables[i])
    BY FirstLevels
  <2> QED
    BY <2>1, <2>2, MergeOneMore
<1>4. Passes(w)
  <2>1. \A i \in 0..n : w[i] = IF i = 0 THEN Empty ELSE MergeLevel(w[i - 1], tables[i])
    <3> HIDE DEF w
    <3> QED
      BY <1>1, <1>2, <1>3
  <2> QED
    BY <2>1
<1>5. Passes(m)
  <2> HIDE DEF Passes
  <2> QED
    BY <1>4
<1>6. m[0] = Empty /\ \A i \in 1..n : m[i] = MergeLevel(m[i - 1], tables[i])
  <2> HIDE DEF m
  <2> QED
    BY <1>1, <1>5
<1>7. \A i \in 0..n : m[i] = w[i]
  <2> DEFINE T == {i \in 0..n : m[i] # w[i]}
  <2> SUFFICES ASSUME T # {} PROVE FALSE
    OBVIOUS
  <2>1. T \in SUBSET Nat
    BY <1>1
  <2>2. PICK x \in T : \A y \in T : x <= y
    BY <2>1, LeastNat
  <2> HIDE DEF m, w
  <2>3. x \in 0..n /\ x # 0 /\ m[x] # w[x]
    BY <1>2, <1>6
  <2>4. x - 1 \in 0..n /\ ~(x <= x - 1) /\ x \in 1..n
    BY <1>1, <2>3
  <2>5. m[x - 1] = w[x - 1]
    BY <2>2, <2>4
  <2> QED
    BY <1>3, <1>6, <2>3, <2>4, <2>5
<1>8. MergeLoop(tables) = m[n]
  BY DEF MergeLoop
<1>9. SubSeq(tables, 1, n) = tables /\ n \in 0..n
  BY <1>1
<1> QED
  BY <1>7, <1>8, <1>9

\* What the loop shared by compactLocked and Materialize computes, pass by pass
\* over any number of levels, is what the reads of those levels return: the
\* snapshot a follower loads has the leader's contents, and a compaction
\* replaces levels by their merge.
THEOREM SnapshotHasContents == Spec => []SnapshotIsContents
<1>1. Types => SnapshotIsContents
  <2> SUFFICES ASSUME Types PROVE SnapshotIsContents
    OBVIOUS
  <2>1. active \in Table /\ levels \in Seq(Table) /\ compaction.input \in Seq(Table)
    BY DEF Types
  <2>2. MergeLoop(compaction.input) = Merge(compaction.input)
    BY <2>1, LoopIsMerge
  <2>3. Append(levels, active) \in Seq(Table) /\ Merge(Append(levels, active)) = Contents
    BY <2>1 DEF Merge, Contents, Get
  <2>4. CASE active = Empty
    <3>1. MergeLoop(levels) = Merge(levels)
      BY <2>1, LoopIsMerge
    <3>2. \A k \in Key : Lookup(Append(levels, active), k) = Lookup(levels, k)
      BY <2>1, <2>4, LookupAppend DEF Empty
    <3>3. Merge(levels) = Contents
      BY <3>2 DEF Merge, Contents, Get
    <3> QED
      BY <2>2, <2>4, <3>1, <3>3 DEF SnapshotIsContents
  <2>5. CASE active # Empty
    BY <2>2, <2>3, <2>5, LoopIsMerge DEF SnapshotIsContents
  <2> QED
    BY <2>4, <2>5
<1>2. Compacting => InputIsPrefix
  BY DEF Compacting
<1> QED
  BY <1>1, <1>2, InitTypes, NextTypes, InitCompacting, NextCompacting, PTL DEF Spec
============================================================================
