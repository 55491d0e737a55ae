--------------------------- MODULE SourcesProofs ---------------------------
(***************************************************************************)
(* Proofs about module Sources, for every set of partition counts and of   *)
(* hashes.                                                                 *)
(***************************************************************************)
EXTENDS Sources, TLAPS

----------------------------------------------------------------------------
(* Divisors and remainders.                                                *)

Divides(d, n) == \E k \in Nat : n = d * k

\* Division with remainder, as the prover knows it.
LEMMA DivMod ==
  ASSUME NEW n \in Nat, NEW d \in Nat \ {0}
  PROVE  /\ n % d \in 0..(d - 1) /\ n \div d \in Nat
         /\ n = (d * (n \div d)) + (n % d)
  BY SMT

LEMMA DivModInt ==
  ASSUME NEW n \in Int, NEW d \in Nat \ {0}
  PROVE  \E q \in Int, r \in 0..(d - 1) : n = (d * q) + r
<1>1. n % d \in 0..(d - 1) /\ n \div d \in Int /\ n = (d * (n \div d)) + (n % d)
  BY SMT
<1> QED
  BY <1>1

\* A remainder is what is left of a number, whatever the quotient.
LEMMA ModUnique ==
  ASSUME NEW d \in Nat \ {0}, NEW q \in Nat, NEW r \in 0..(d - 1)
  PROVE  ((d * q) + r) % d = r
  BY SMT

LEMMA ModUniqueInt ==
  ASSUME NEW d \in Nat \ {0}, NEW q \in Int, NEW r \in 0..(d - 1)
  PROVE  ((d * q) + r) % d = r
  BY SMT

\* A divisor of b and of the remainder of a divides a.
LEMMA DividesBack ==
  ASSUME NEW x \in Nat, NEW y \in Nat \ {0}, NEW d \in Nat \ {0},
         Divides(d, y), Divides(d, x % y)
  PROVE  Divides(d, x)
<1>1. PICK k \in Nat : y = d * k
  BY DEF Divides
<1>2. PICK j \in Nat : x % y = d * j
  BY DEF Divides
<1> DEFINE q == x \div y
<1>3. q \in Nat /\ x = (y * q) + (x % y)
  BY DivMod
<1> HIDE DEF q
<1>4. x = ((d * k) * q) + (d * j)
  BY <1>1, <1>2, <1>3
<1>5. x = d * ((k * q) + j)
  BY <1>3, <1>4, SMT
<1>6. (k * q) + j \in Nat
  BY <1>3, SMT
<1> QED
  BY <1>5, <1>6 DEF Divides

\* A remainder modulo m and the number itself agree modulo every divisor of m.
LEMMA ModOfMod ==
  ASSUME NEW h \in Nat, NEW m \in Nat \ {0}, NEW d \in Nat \ {0}, Divides(d, m)
  PROVE  (h % m) % d = h % d
<1>1. PICK k \in Nat : m = d * k
  BY DEF Divides
<1> DEFINE q == h \div m
           r == h % m
           s == r \div d
           t == r % d
<1>2. q \in Nat /\ r \in Nat /\ h = (m * q) + r
  <2>1. q \in Nat /\ r \in 0..(m - 1) /\ h = (m * q) + r
    BY DivMod
  <2> HIDE DEF q, r
  <2> QED
    BY <2>1
<1>3. s \in Nat /\ t \in 0..(d - 1) /\ r = (d * s) + t
  BY <1>2, DivMod
<1> HIDE DEF q, r, s, t
<1>4. h = ((d * k) * q) + ((d * s) + t)
  BY <1>1, <1>2, <1>3
<1>5. h = (d * ((k * q) + s)) + t
  BY <1>2, <1>3, <1>4, SMT
<1>6. (k * q) + s \in Nat
  BY <1>2, <1>3, SMT
<1>7. h % d = t
  BY <1>3, <1>5, <1>6, ModUnique
<1> QED
  BY <1>7 DEF t, r

----------------------------------------------------------------------------
(* The loop invariant: Euclid's loop keeps every common divisor, so what   *)
(* it ends with divides both counts, and sources are the partitions before *)
(* p that agree with id modulo that divisor.                               *)

CommonDivisors ==
  \A d \in Nat \ {0} : Divides(d, a) /\ Divides(d, b) => Divides(d, old) /\ Divides(d, new)

\* What is left of the counts is a combination of them.
Combined(x, o, n) == \E i, j \in Int : x = (i * o) + (j * n)

Collected == sources = {x \in 0..(p - 1) : x % a = id % a}

IInv ==
  /\ TypeOK
  /\ Combined(a, old, new) /\ Combined(b, old, new)
  /\ pc = "gcd" => CommonDivisors /\ p = 0 /\ sources = {}
  /\ pc # "gcd" => Divides(a, old) /\ Divides(a, new) /\ Collected
  /\ pc = "done" => p = old

LEMMA InitIInv == Init => IInv
<1> SUFFICES ASSUME Init PROVE IInv
  OBVIOUS
<1>1. old \in Nat \ {0} /\ new \in Nat \ {0}
  BY CountAssumption DEF Init
<1>2. a = (1 * old) + (0 * new) /\ b = (0 * old) + (1 * new)
  BY <1>1 DEF Init
<1>3. Combined(a, old, new) /\ Combined(b, old, new)
  BY <1>2 DEF Combined
<1>4. TypeOK /\ CommonDivisors
  BY <1>1, SMT DEF Init, TypeOK, CommonDivisors
<1> QED
  BY <1>3, <1>4 DEF Init, IInv

\* The remainder of two combinations is one.
LEMMA CombinedMod ==
  ASSUME NEW o \in Nat, NEW n \in Nat, NEW x \in Nat, NEW y \in Nat \ {0},
         Combined(x, o, n), Combined(y, o, n)
  PROVE  Combined(x % y, o, n)
<1>1. PICK i \in Int, j \in Int : x = (i * o) + (j * n)
  BY DEF Combined
<1>2. PICK k \in Int, l \in Int : y = (k * o) + (l * n)
  BY DEF Combined
<1>3. PICK q \in Nat : x = (y * q) + (x % y)
  BY DivMod
<1>4. x % y \in Nat
  BY SMT
<1>5. PICK r \in Nat : r = x % y
  BY <1>4
<1>6. PICK z \in Int : z = y * q
  BY SMT
<1>7. r = x - z
  BY <1>3, <1>5, <1>6
<1>8. z = ((k * q) * o) + ((l * q) * n)
  BY <1>6, <1>2, SMT
<1>9. r = ((i - (k * q)) * o) + ((j - (l * q)) * n)
  BY <1>1, <1>7, <1>8, SMT
<1>10. i - (k * q) \in Int /\ j - (l * q) \in Int
  BY SMT
<1> QED
  BY <1>5, <1>9, <1>10 DEF Combined

LEMMA EuclidIInv == IInv /\ Euclid => IInv'
<1> SUFFICES ASSUME IInv, Euclid PROVE IInv'
  OBVIOUS
<1> USE DEF Euclid, args
<1>1. TypeOK'
  <2>1. a \in Nat \ {0} /\ b \in Nat \ {0}
    BY DEF IInv, TypeOK
  <2>2. a % b \in Nat
    BY <2>1, SMT
  <2> QED
    BY <2>1, <2>2 DEF IInv, TypeOK
<1>2. CommonDivisors'
  <2> SUFFICES ASSUME NEW d \in Nat \ {0}, Divides(d, b), Divides(d, a % b)
               PROVE  Divides(d, old) /\ Divides(d, new)
    BY DEF CommonDivisors, Divides
  <2>1. Divides(d, a)
    BY DividesBack DEF IInv, TypeOK
  <2> QED
    BY <2>1 DEF IInv, CommonDivisors
<1>3. Combined(a, old, new)' /\ Combined(b, old, new)'
  <2>1. a \in Nat /\ b \in Nat \ {0} /\ old \in Nat /\ new \in Nat
    BY CountAssumption DEF IInv, TypeOK
  <2>2. Combined(a % b, old, new)
    BY <2>1, CombinedMod DEF IInv
  <2> QED
    BY <2>2 DEF IInv, Combined
<1> QED
  BY <1>1, <1>2, <1>3 DEF IInv

LEMMA EuclidDoneIInv == IInv /\ EuclidDone => IInv'
<1> SUFFICES ASSUME IInv, EuclidDone PROVE IInv'
  OBVIOUS
<1> USE DEF EuclidDone, args
<1>1. TypeOK'
  BY DEF IInv, TypeOK
<1>2. a \in Nat \ {0} /\ a = a * 1 /\ b = a * 0
  BY SMT DEF IInv, TypeOK
<1>3. Divides(a, a) /\ Divides(a, b)
  BY <1>2 DEF Divides
<1>4. Divides(a, old) /\ Divides(a, new)
  BY <1>2, <1>3 DEF IInv, CommonDivisors
<1>5. Divides(a, old)' /\ Divides(a, new)'
  BY <1>4 DEF Divides
<1>6. Collected'
  BY SMT DEF IInv, Collected
<1>7. Combined(a, old, new)' /\ Combined(b, old, new)'
  BY DEF IInv, Combined
<1> QED
  BY <1>1, <1>5, <1>6, <1>7 DEF IInv

LEMMA CollectIInv == IInv /\ Collect => IInv'
<1> SUFFICES ASSUME IInv, Collect PROVE IInv'
  OBVIOUS
<1> USE DEF Collect, args
<1>1. TypeOK'
  BY CountAssumption, SMT DEF IInv, TypeOK
<1>2. Divides(a, old)' /\ Divides(a, new)'
  BY DEF IInv, Divides
<1>3. Collected'
  <2>1. p \in Nat /\ 0..(p' - 1) = 0..(p - 1) \cup {p}
    BY SMT DEF IInv, TypeOK
  <2> QED
    BY <2>1 DEF IInv, Collected
<1>4. Combined(a, old, new)' /\ Combined(b, old, new)'
  BY DEF IInv, Combined
<1> QED
  BY <1>1, <1>2, <1>3, <1>4 DEF IInv

LEMMA ReturnIInv == IInv /\ Return => IInv'
<1> SUFFICES ASSUME IInv, Return PROVE IInv'
  OBVIOUS
<1> QED
  BY DEF IInv, TypeOK, Return, args, Collected, Combined, Divides

\* At the end the sources are the partitions that agree with id modulo a
\* common divisor of the counts, which every hash of the new partition does.
LEMMA CoverIInv == IInv => SourcesCover
<1> SUFFICES ASSUME IInv, pc = "done", NEW h \in Hash, h % new = id
             PROVE  h % old \in sources
  BY DEF SourcesCover
<1>1. h \in Nat /\ a \in Nat \ {0} /\ old \in Nat \ {0} /\ new \in Nat \ {0}
  BY CountAssumption, HashAssumption DEF IInv, TypeOK
<1>2. (h % old) % a = h % a
  BY <1>1, ModOfMod DEF IInv
<1>3. (h % new) % a = h % a
  BY <1>1, ModOfMod DEF IInv
<1>4. h % old \in 0..(old - 1)
  BY <1>1, DivMod
<1> QED
  BY <1>2, <1>3, <1>4 DEF IInv, Collected

\* Partition q of o and partition r of n have a hash in common.
Meet(q, r, o, n) == \E h \in 0..(o * n - 1) : h % n = r /\ h % o = q

\* Chinese remainders: partitions that agree modulo a combination of their
\* counts have one.
LEMMA CommonHash ==
  ASSUME NEW o \in Nat \ {0}, NEW n \in Nat \ {0}, NEW g \in Nat \ {0}, Combined(g, o, n),
         NEW q \in 0..(o - 1), NEW r \in 0..(n - 1), q % g = r % g
  PROVE  Meet(q, r, o, n)
<1>1. PICK i \in Int, j \in Int : g = (i * o) + (j * n)
  BY DEF Combined
<1>2. PICK u \in Int : q - r = g * u
  <2>1. q \in Nat /\ r \in Nat
    OBVIOUS
  <2>2. PICK c \in Nat : q = (g * c) + (q % g)
    BY <2>1, DivMod
  <2>3. PICK d \in Nat : r = (g * d) + (r % g)
    BY <2>1, DivMod
  <2>4. PICK m \in Nat : m = q % g
    BY <2>1, SMT
  <2>5. q = (g * c) + m /\ r = (g * d) + m
    BY <2>2, <2>3, <2>4
  <2>6. q - r = g * (c - d) /\ c - d \in Int
    BY <2>5, SMT
  <2> QED
    BY <2>6
<1>3. PICK x \in Int : x = r + (n * (j * u))
  BY SMT
<1>4. x = q - (o * (i * u))
  <2>1. q = r + (((i * o) + (j * n)) * u)
    BY <1>1, <1>2
  <2> QED
    BY <1>3, <2>1, SMT
<1>5. o * n \in Nat \ {0}
  BY SMT
<1>6. PICK v \in Int, h \in 0..(o * n - 1) : x = ((o * n) * v) + h
  BY <1>5, DivModInt
<1>7. h \in Int
  BY <1>5, <1>6
<1>8. h = (n * ((j * u) - (o * v))) + r /\ (j * u) - (o * v) \in Int
  BY <1>3, <1>6, <1>7, SMT
<1>9. h = (o * (-(i * u) - (n * v))) + q /\ -(i * u) - (n * v) \in Int
  BY <1>4, <1>6, <1>7, SMT
<1>10. h % n = r
  <2>1. PICK y \in Int : y = (j * u) - (o * v)
    BY <1>8
  <2>2. h = (n * y) + r
    BY <1>8, <2>1
  <2> QED
    BY <2>2, ModUniqueInt
<1>11. h % o = q
  <2>1. PICK y \in Int : y = -(i * u) - (n * v)
    BY <1>9
  <2>2. h = (o * y) + q
    BY <1>9, <2>1
  <2> QED
    BY <2>2, ModUniqueInt
<1> QED
  BY <1>6, <1>10, <1>11 DEF Meet

\* The divisor is a combination of the counts, so a partition that agrees with
\* id modulo it shares a hash with the new partition.
LEMMA ExactIInv == IInv => SourcesExact
<1> SUFFICES ASSUME IInv, pc = "done"
             PROVE  sources = {h % old : h \in {x \in 0..(old * new - 1) : x % new = id}}
  BY DEF SourcesExact
<1>1. a \in Nat \ {0} /\ old \in Nat \ {0} /\ new \in Nat \ {0} /\ id \in 0..(new - 1)
  BY CountAssumption DEF IInv, TypeOK
<1>2. sources = {x \in 0..(old - 1) : x % a = id % a} /\ Combined(a, old, new) /\ Divides(a, old) /\ Divides(a, new)
  BY DEF IInv, Collected
<1>3. ASSUME NEW q \in sources
      PROVE  \E h \in 0..(old * new - 1) : h % new = id /\ h % old = q
  <2>1. q \in 0..(old - 1) /\ q % a = id % a
    BY <1>2, <1>3
  <2>2. Meet(q, id, old, new)
    BY <1>1, <1>2, <2>1, CommonHash
  <2> QED
    BY <2>2 DEF Meet
<1>4. ASSUME NEW h \in 0..(old * new - 1), h % new = id
      PROVE  h % old \in sources
  <2>1. h \in Nat
    BY <1>1, SMT
  <2>2. (h % old) % a = h % a /\ (h % new) % a = h % a
    BY <1>1, <1>2, <2>1, ModOfMod
  <2>3. h % old \in 0..(old - 1)
    BY <1>1, <2>1, DivMod
  <2> QED
    BY <1>2, <1>4, <2>2, <2>3
<1> QED
  BY <1>3, <1>4

LEMMA SpecIInv == Spec => []IInv
<1>1. IInv /\ UNCHANGED vars => IInv'
  BY DEF IInv, TypeOK, vars, CommonDivisors, Collected, Combined, Divides
<1>2. IInv /\ [Next]_vars => IInv'
  BY <1>1, EuclidIInv, EuclidDoneIInv, CollectIInv, ReturnIInv DEF Next
<1> QED
  BY InitIInv, <1>2, PTL DEF Spec

\* The loops of gcd and SourcePartitions keep their variables in range, for
\* all counts.
THEOREM SourcesType == Spec => []TypeOK
<1>1. IInv => TypeOK
  BY DEF IInv
<1> QED
  BY SpecIInv, <1>1, PTL

\* SourcePartitions misses no partition that may hold a key of the new one,
\* for all counts and all hashes.
THEOREM SourcesCoverKeys == Spec => []SourcesCover
  BY SpecIInv, CoverIInv, PTL

\* SourcePartitions asks no partition in vain: a source has a hash in common
\* with the new partition, for all counts.
THEOREM SourcesAreExact == Spec => []SourcesExact
  BY SpecIInv, ExactIInv, PTL
============================================================================
