------------------------- MODULE ReshardingProofs --------------------------
(***************************************************************************)
(* Proofs about module Resharding, for every set of hashes, counts,        *)
(* replication factors and administrators.                                 *)
(***************************************************************************)
EXTENDS Resharding, TLAPS

----------------------------------------------------------------------------
(* Types.                                                                  *)

Stored(c) == c = NoConfig \/ c \in [count : Count, factor : Factor]

Request == [busy : BOOLEAN, count : Count \cup {0}, factor : Factor \cup {0}, read : Config]

\* TypeOK says nothing of the processes that hold a configuration or a layout
\* they read before.
Shape ==
  /\ TypeOK
  /\ Stored(config) /\ Stored(round)
  /\ request \in [Admin -> Request]
  /\ \A a \in Admin : request[a].busy => request[a].read \in [count : Count, factor : Factor]
  /\ view \in [Admin -> Layout]
  /\ step \in [busy : BOOLEAN, id : Nat, todo : SUBSET Nat]

LEMMA NoneTypes ==
  /\ NoConfig \in Config /\ NoLayout \in Layout /\ NoRequest \in Request
  /\ NoStep \in [busy : BOOLEAN, id : Nat, todo : SUBSET Nat] /\ ~NoStep.busy
  /\ NoLayout.count = 0 /\ NoLayout.next = NoNext /\ NoNext.count = 0 /\ NoNext.done = {}
  /\ Partitions(0) = {}
  BY CountAssumption DEF NoConfig, Config, NoLayout, Layout, NoNext, NoRequest, Request, NoStep, Partitions

LEMMA InitShape == Init => Shape
<1> SUFFICES ASSUME Init PROVE Shape
  OBVIOUS
<1>1. TypeOK
  <2>1. layout.count = 0 /\ layout.next = NoNext /\ layout.next.count = 0 /\ layout.next.done = {}
    BY NoneTypes DEF Init
  <2>2. data \in [{} -> SUBSET Hash] /\ nextData \in [{} -> SUBSET Hash]
    BY DEF Init
  <2>3. ~step.busy
    BY NoneTypes DEF Init
  <2> QED
    BY <2>1, <2>2, <2>3, NoneTypes DEF Init, TypeOK, Resharding
<1>2. request \in [Admin -> Request] /\ view \in [Admin -> Layout]
  BY NoneTypes DEF Init
<1>3. \A a \in Admin : ~request[a].busy
  BY DEF Init, NoRequest
<1> QED
  BY <1>1, <1>2, <1>3, NoneTypes DEF Init, Shape, Stored

LEMMA ConfigShape ==
  ASSUME Shape, UNCHANGED <<layout, step, data, nextData, keys>>,
         Stored(config'), Stored(round'), wanted' \in Config, (request \in [Admin -> Request])',
         \A a \in Admin : request'[a].busy => request'[a].read \in [count : Count, factor : Factor],
         (view \in [Admin -> Layout])'
  PROVE  Shape'
<1>1. Config = Config' /\ config' \in Config /\ round' \in Config
  BY NoneTypes DEF Stored, Config
<1> QED
  BY <1>1 DEF Shape, TypeOK, Stored, Resharding

LEMMA InitConfigShape ==
  ASSUME Shape, NEW c \in Count, NEW f \in Factor, InitConfig(c, f)
  PROVE  Shape'
<1>1. Stored(config)' /\ wanted' \in Config
  BY DEF InitConfig, Stored, Config
<1> QED
  BY <1>1, ConfigShape DEF InitConfig, stored, Shape, Stored

LEMMA ReadConfigShape ==
  ASSUME Shape, NEW a \in Admin, NEW c \in Count \cup {0}, NEW f \in Factor \cup {0},
         ReadConfig(a, c, f)
  PROVE  Shape'
<1>1. config \in [count : Count, factor : Factor] /\ config \in Config
  BY DEF ReadConfig, Shape, Stored, TypeOK
<1>2. [busy |-> TRUE, count |-> c, factor |-> f, read |-> config] \in Request
  BY <1>1 DEF Request
<1>3. request' \in [Admin -> Request]
  BY <1>2 DEF ReadConfig, Shape
<1>4. \A b \in Admin : request'[b].busy => request'[b].read \in [count : Count, factor : Factor]
  BY <1>1 DEF ReadConfig, Shape
<1> QED
  BY <1>3, <1>4, ConfigShape DEF ReadConfig, stored, Shape, Stored, TypeOK

LEMMA PutConfigShape ==
  ASSUME Shape, NEW a \in Admin, PutConfig(a)
  PROVE  Shape'
<1>1. /\ request[a].read \in [count : Count, factor : Factor]
      /\ request[a].count \in Count \cup {0} /\ request[a].factor \in Factor \cup {0}
  BY DEF PutConfig, Shape, Request
<1>2. Stored(config)'
  BY <1>1 DEF PutConfig, Changed, Stored
<1>3. wanted' \in Config
  BY <1>1 DEF PutConfig, Shape, TypeOK, Config
<1>4. (request \in [Admin -> Request])' /\ NoRequest.busy = FALSE
  BY NoneTypes DEF PutConfig, Shape, NoRequest
<1>5. \A b \in Admin : request'[b].busy => request'[b].read \in [count : Count, factor : Factor]
  BY <1>4 DEF PutConfig, Shape
<1> QED
  BY <1>2, <1>3, <1>4, <1>5, ConfigShape DEF PutConfig, stored, Shape, Stored

LEMMA WatchShape ==
  ASSUME Shape, NEW a \in Admin, Watch(a)
  PROVE  Shape'
<1>1. (view \in [Admin -> Layout])'
  BY DEF Watch, Shape, TypeOK
<1> QED
  BY <1>1, ConfigShape DEF Watch, stored, Shape, Stored, TypeOK

LEMMA ReadRoundShape == Shape /\ ReadRound => Shape'
<1> SUFFICES ASSUME Shape, ReadRound PROVE Shape'
  OBVIOUS
<1> QED
  BY ConfigShape DEF ReadRound, stored, Shape, Stored, TypeOK

\* What a step of the planner or of a migration leaves alone.
LEMMA LayoutShape ==
  ASSUME Shape, UNCHANGED <<config, view, request, wanted>>, round' \in {round, NoConfig},
         step' \in [busy : BOOLEAN, id : Nat, todo : SUBSET Nat],
         layout' \in Layout, layout' = NoLayout \/ layout'.count # 0,
         layout'.next.done \subseteq Partitions(layout'.next.count),
         layout'.next.count # 0 => layout' # NoLayout,
         data' \in [Partitions(layout'.count) -> SUBSET Hash],
         nextData' \in [Partitions(layout'.next.count) -> SUBSET Hash],
         step'.busy => /\ layout'.next.count # 0
                       /\ step'.id \in Partitions(layout'.next.count) \ layout'.next.done
                       /\ step'.todo \subseteq Partitions(layout'.count),
         keys' \subseteq Hash
  PROVE  Shape'
<1>1. Stored(round)' /\ round' \in Config
  BY NoneTypes DEF Shape, Stored, TypeOK
<1>2. TypeOK'
  BY <1>1 DEF Shape, TypeOK, Resharding
<1> QED
  BY <1>1, <1>2 DEF Shape, Stored

LEMMA bootstrapShape == Shape /\ PlanRound /\ bootstrap => Shape'
<1> SUFFICES ASSUME Shape, PlanRound, bootstrap PROVE Shape'
  OBVIOUS
<1>1. round.count \in Count /\ round.count # 0
  BY CountAssumption DEF PlanRound, Shape, Stored
<1>2. /\ layout'.gen = 1 /\ layout'.count = round.count /\ layout'.next = NoNext
      /\ layout' \in Layout /\ layout' # NoLayout
  BY <1>1, NoneTypes DEF bootstrap, Layout, NoNext
<1>3. data' \in [Partitions(layout'.count) -> SUBSET Hash]
  BY <1>2 DEF bootstrap
<1>4. layout.next.count = 0 /\ ~step.busy /\ nextData' \in [Partitions(layout'.next.count) -> SUBSET Hash]
  BY <1>2, NoneTypes DEF bootstrap, Shape, TypeOK, Resharding
<1> QED
  BY <1>1, <1>2, <1>3, <1>4, NoneTypes, LayoutShape DEF PlanRound, bootstrap, Shape, TypeOK, spent

LEMMA startReshardingShape == Shape /\ PlanRound /\ startResharding => Shape'
<1> SUFFICES ASSUME Shape, PlanRound, startResharding PROVE Shape'
  OBVIOUS
<1>1. round.count \in Count /\ round.count # 0
  BY CountAssumption DEF PlanRound, Shape, Stored
<1>2. layout \in Layout /\ layout.count # 0 /\ ~step.busy
  BY DEF startResharding, Shape, TypeOK
<1>3. /\ layout'.gen = layout.gen /\ layout'.count = layout.count
      /\ layout'.next.count = round.count /\ layout'.next.done = {}
      /\ layout' \in Layout
  BY <1>1, <1>2 DEF startResharding, Layout
<1>4. layout' # NoLayout
  BY <1>2, <1>3, NoneTypes
<1>5. nextData' \in [Partitions(layout'.next.count) -> SUBSET Hash]
  BY <1>3 DEF startResharding
<1> QED
  BY <1>1, <1>2, <1>3, <1>4, <1>5, LayoutShape DEF PlanRound, startResharding, Shape, TypeOK, spent

LEMMA PlanRoundShape == Shape /\ PlanRound => Shape'
<1> SUFFICES ASSUME Shape, PlanRound PROVE Shape'
  OBVIOUS
<1>1. CASE bootstrap \/ startResharding
  BY <1>1, bootstrapShape, startReshardingShape
<1>2. CASE UNCHANGED <<layout, stored>>
  BY <1>2, LayoutShape DEF PlanRound, stored, Shape, TypeOK, Resharding
<1> QED
  BY <1>1, <1>2 DEF PlanRound

LEMMA LayoutTypes ==
  ASSUME Shape
  PROVE  /\ layout.gen \in Nat /\ layout.count \in Count \cup {0} /\ layout.next.count \in Count \cup {0}
         /\ layout.count \in Nat /\ layout.next.count \in Nat
         /\ layout # NoLayout => layout.count \in Count
<1>1. /\ layout.gen \in Nat /\ layout.count \in Count \cup {0} /\ layout.next.count \in Count \cup {0}
      /\ layout # NoLayout => layout.count # 0
  BY DEF Shape, TypeOK, Layout
<1>2. \A c \in Count \cup {0} : c \in Nat
  BY CountAssumption
<1> QED
  BY <1>1, <1>2

LEMMA StartPullShape ==
  ASSUME Shape, NEW id \in Partitions(layout.next.count), StartPull(id)
  PROVE  Shape'
<1>1. layout.count \in Nat /\ layout.next.count \in Nat
  BY LayoutTypes
<1>2. SourcePartitions(id, layout.count, layout.next.count) \subseteq Partitions(layout.count)
  BY DEF SourcePartitions
<1>3. id \in Nat /\ Partitions(layout.count) \subseteq Nat
  BY <1>1 DEF Partitions
<1>4. /\ step' \in [busy : BOOLEAN, id : Nat, todo : SUBSET Nat]
      /\ step'.id = id /\ step'.todo \subseteq Partitions(layout.count)
  BY <1>2, <1>3 DEF StartPull
<1> QED
  BY <1>4, LayoutShape DEF StartPull, stored, Shape, TypeOK, Resharding

LEMMA CopyShape ==
  ASSUME Shape, NEW s \in step.todo, Copy(s)
  PROVE  Shape'
<1>1. /\ step' \in [busy : BOOLEAN, id : Nat, todo : SUBSET Nat]
      /\ step'.id = step.id /\ step'.todo = step.todo \ {s}
  BY DEF Copy, Shape
<1>2. s \in Partitions(layout.count) /\ data[s] \subseteq Hash /\ step.id \in Partitions(layout.next.count)
  BY DEF Copy, Shape, TypeOK
<1>3. nextData' \in [Partitions(layout.next.count) -> SUBSET Hash]
  BY <1>2 DEF Copy, Shape, TypeOK
<1> QED
  BY <1>1, <1>3, LayoutShape DEF Copy, Shape, TypeOK, Resharding

LEMMA MarkDoneShape == Shape /\ MarkDone => Shape'
<1> SUFFICES ASSUME Shape, MarkDone PROVE Shape'
  OBVIOUS
<1>1. layout \in Layout /\ layout.next.count # 0 /\ step.id \in Partitions(layout.next.count) /\ step.id \in Nat
  BY DEF MarkDone, Shape, TypeOK, Resharding
<1>2. /\ layout'.gen = layout.gen /\ layout'.count = layout.count
      /\ layout'.next.count = layout.next.count /\ layout'.next.done = layout.next.done \cup {step.id}
      /\ layout' \in Layout
  BY <1>1 DEF MarkDone, Layout
<1>3. layout' # NoLayout
  BY <1>1, <1>2, NoneTypes
<1>4. ~step'.busy /\ step' \in [busy : BOOLEAN, id : Nat, todo : SUBSET Nat]
  BY NoneTypes DEF MarkDone
<1> QED
  BY <1>1, <1>2, <1>3, <1>4, LayoutShape DEF MarkDone, stored, Shape, TypeOK

LEMMA FailStepShape == Shape /\ FailStep => Shape'
<1> SUFFICES ASSUME Shape, FailStep PROVE Shape'
  OBVIOUS
<1>1. ~step'.busy /\ step' \in [busy : BOOLEAN, id : Nat, todo : SUBSET Nat]
  BY NoneTypes DEF FailStep
<1> QED
  BY <1>1, LayoutShape DEF FailStep, stored, Shape, TypeOK, Resharding

LEMMA FinishShape == Shape /\ Finish => Shape'
<1> SUFFICES ASSUME Shape, Finish PROVE Shape'
  OBVIOUS
<1>1. layout \in Layout /\ layout.next.count # 0
  BY DEF Finish, Shape, TypeOK, Resharding
<1>2. /\ layout'.count = layout.next.count /\ layout'.next = NoNext
      /\ layout' \in Layout /\ layout' # NoLayout
  BY <1>1, NoneTypes DEF Finish, Layout, NoNext
<1>3. nextData' \in [{} -> SUBSET Hash]
  BY DEF Finish
<1> QED
  BY <1>1, <1>2, <1>3, NoneTypes, LayoutShape DEF Finish, Shape, TypeOK

LEMMA WriteShape ==
  ASSUME Shape, NEW h \in Hash, NEW set \in BOOLEAN, Write(h, set)
  PROVE  Shape'
<1> DEFINE Put(S) == IF set THEN S \cup {h} ELSE S \ {h}
<1>1. data' \in [Partitions(layout.count) -> SUBSET Hash]
  BY DEF Write, Shape, TypeOK
<1>2. nextData' \in [Partitions(layout.next.count) -> SUBSET Hash]
  BY DEF Write, Shape, TypeOK
<1>3. keys' \subseteq Hash
  BY DEF Write, Shape, TypeOK
<1> QED
  BY <1>1, <1>2, <1>3, LayoutShape DEF Write, control, Shape, TypeOK, Resharding

LEMMA NextShape == Shape /\ [Next]_vars => Shape'
<1> SUFFICES ASSUME Shape, [Next]_vars PROVE Shape'
  OBVIOUS
<1>1. CASE \E c \in Count, f \in Factor : InitConfig(c, f)
  BY <1>1, InitConfigShape
<1>2. CASE \E a \in Admin : PutConfig(a) \/ Watch(a)
  BY <1>2, PutConfigShape, WatchShape
<1>3. CASE \E a \in Admin, c \in Count \cup {0}, f \in Factor \cup {0} : ReadConfig(a, c, f)
  BY <1>3, ReadConfigShape
<1>4. CASE ReadRound \/ PlanRound
  BY <1>4, ReadRoundShape, PlanRoundShape
<1>5. CASE StepNext
  BY <1>5, MarkDoneShape, FinishShape, StartPullShape, CopyShape DEF StepNext
<1>6. CASE FailStep
  BY <1>6, FailStepShape
<1>7. CASE \E h \in Hash, set \in BOOLEAN : Write(h, set)
  BY <1>7, WriteShape
<1>8. CASE UNCHANGED vars
  BY <1>8, LayoutShape DEF vars, Shape, TypeOK, Resharding
<1> QED
  BY <1>1, <1>2, <1>3, <1>4, <1>5, <1>6, <1>7, <1>8 DEF Next

LEMMA AlwaysShape == Spec => []Shape
  BY InitShape, NextShape, PTL DEF Spec

\* Configuration, layout and the running migration fit together: the keys are
\* kept for exactly the partitions of the layout, a migration is one of a
\* partition that is not done yet, and its sources are partitions of the
\* current generation (startResharding, reshardStep).
THEOREM TypeCorrect == Spec => []TypeOK
<1>1. Shape => TypeOK
  BY DEF Shape
<1> QED
  BY <1>1, AlwaysShape, PTL

----------------------------------------------------------------------------
(* The partition of a hash.                                                *)

\* Division with remainder, as the prover knows it.
LEMMA DivMod ==
  ASSUME NEW n \in Nat, NEW d \in Nat \ {0}
  PROVE  /\ n % d \in 0..(d - 1) /\ n \div d \in Nat
         /\ n = (d * (n \div d)) + (n % d)
  BY SMT

LEMMA ModUnique ==
  ASSUME NEW d \in Nat \ {0}, NEW q \in Nat, NEW r \in 0..(d - 1)
  PROVE  ((d * q) + r) % d = r
  BY SMT

\* Routing by a multiple of d and then by d is routing by d.
LEMMA RouteTwice ==
  ASSUME NEW h \in Nat, NEW m \in Nat \ {0}, NEW d \in Nat \ {0}, m % d = 0
  PROVE  (h % m) % d = h % d
<1>1. PICK k \in Nat : m = d * k
  <2>1. PICK k \in Nat : m = (d * k) + 0
    BY DivMod
  <2>2. d * k \in Nat
    BY SMT
  <2> QED
    BY <2>1, <2>2
<1>2. PICK q \in Nat, r \in 0..(m - 1) : h = (m * q) + r /\ r = h % m
  BY DivMod
<1>3. PICK s \in Nat, t \in 0..(d - 1) : r = (d * s) + t /\ t = r % d
  <2>1. r \in Nat
    BY <1>2
  <2> QED
    BY <2>1, DivMod
<1>4. h = ((d * k) * q) + ((d * s) + t)
  BY <1>1, <1>2, <1>3
<1>5. h = (d * ((k * q) + s)) + t
  BY <1>2, <1>3, <1>4, SMT
<1>6. (k * q) + s \in Nat
  BY <1>2, <1>3, SMT
<1>7. h % d = t
  BY <1>3, <1>5, <1>6, ModUnique
<1> QED
  BY <1>2, <1>3, <1>7

LEMMA InPartition ==
  ASSUME NEW h \in Hash, NEW c \in Count
  PROVE  h % c \in Partitions(c)
<1>1. h \in Nat /\ c \in Nat \ {0}
  BY HashAssumption, CountAssumption
<1> QED
  BY <1>1, DivMod DEF Partitions

\* The partition that holds a hash now is a source of the one that will.
LEMMA HashInSource ==
  ASSUME NEW h \in Hash, NEW o \in Count, NEW n \in Count
  PROVE  h % o \in SourcePartitions(h % n, o, n)
<1> DEFINE g == Gcd[o][n]
<1>1. h \in Nat /\ o \in Nat \ {0} /\ n \in Nat \ {0}
  BY HashAssumption, CountAssumption
<1>2. g \in Nat \ {0} /\ o % g = 0 /\ n % g = 0
  BY GcdAssumption
<1>3. h % o \in Partitions(o)
  BY InPartition
<1> HIDE DEF g
<1>4. (h % o) % g = h % g /\ (h % n) % g = h % g
  BY <1>1, <1>2, RouteTwice
<1> QED
  BY <1>3, <1>4 DEF SourcePartitions, g

----------------------------------------------------------------------------
(* The keys.                                                               *)

DataOwn == \A i \in Partitions(layout.count) : \A h \in data[i] : h % layout.count = i

NextOwn ==
  \A i \in Partitions(layout.next.count) : \A h \in nextData[i] : h % layout.next.count = i

\* What is frozen has been copied: the partition that will own the key and the
\* one that owns it hold the same.
Copied ==
  \A h \in Hash : Frozen(h) => (h \in nextData[step.id] <=> h \in data[h % layout.count])

Placed ==
  /\ layout = NoLayout => keys = {}
  /\ DataOwn /\ NextOwn /\ KeysFollowRoute /\ Copied

LEMMA InitPlaced == Init => Placed
<1> SUFFICES ASSUME Init PROVE Placed
  OBVIOUS
<1>1. layout.count = 0 /\ layout.next.count = 0 /\ ~step.busy
  BY NoneTypes DEF Init
<1> QED
  BY <1>1, NoneTypes DEF Init, Placed, DataOwn, NextOwn, KeysFollowRoute, Copied, Frozen

LEMMA SamePlaced ==
  ASSUME Placed, UNCHANGED <<layout, step, data, nextData, keys>>
  PROVE  Placed'
  BY DEF Placed, DataOwn, NextOwn, KeysFollowRoute, Moved, Copied, Frozen

LEMMA bootstrapPlaced == Shape /\ Placed /\ PlanRound /\ bootstrap => Placed'
<1> SUFFICES ASSUME Shape, Placed, PlanRound, bootstrap PROVE Placed'
  OBVIOUS
<1>1. round.count \in Count
  BY DEF PlanRound, Shape, Stored
<1>2. layout'.count = round.count /\ layout'.next = NoNext
  BY DEF bootstrap
<1>3. keys' = {} /\ layout.next.count = 0 /\ ~step'.busy
  BY NoneTypes DEF PlanRound, bootstrap, Placed, Shape, TypeOK, Resharding
<1>4. \A i \in Partitions(layout'.count) : data'[i] = {}
  BY <1>2 DEF bootstrap
<1>5. KeysFollowRoute'
  BY <1>1, <1>2, <1>3, <1>4, InPartition, NoneTypes DEF KeysFollowRoute, Moved
<1>6. DataOwn' /\ NextOwn'
  BY <1>2, <1>4, NoneTypes DEF DataOwn, NextOwn
<1> QED
  BY <1>3, <1>5, <1>6 DEF Placed, Copied, Frozen

LEMMA startReshardingPlaced == Shape /\ Placed /\ PlanRound /\ startResharding => Placed'
<1> SUFFICES ASSUME Shape, Placed, PlanRound, startResharding PROVE Placed'
  OBVIOUS
<1>1. round.count \in Count /\ layout \in Layout
  BY DEF PlanRound, Shape, TypeOK, Stored
<1>2. /\ layout'.count = layout.count
      /\ layout'.next.count = round.count /\ layout'.next.done = {}
  BY <1>1 DEF startResharding, Layout
<1>3. ~step'.busy /\ layout.next.count = 0 /\ layout # NoLayout /\ UNCHANGED <<data, keys>>
  BY DEF PlanRound, startResharding, Shape, TypeOK, Resharding
<1>4. \A i \in Partitions(layout'.next.count) : nextData'[i] = {}
  BY <1>2 DEF startResharding
<1>5. layout' # NoLayout
  BY <1>2, <1>3, LayoutTypes, NoneTypes, CountAssumption
<1> QED
  BY <1>2, <1>3, <1>4, <1>5
  DEF Placed, DataOwn, NextOwn, KeysFollowRoute, Moved, Copied, Frozen

LEMMA StartPullPlaced ==
  ASSUME Shape, Placed, NEW id \in Partitions(layout.next.count), StartPull(id)
  PROVE  Placed'
<1>1. layout.count \in Count /\ layout.next.count \in Count
  BY LayoutTypes DEF StartPull, Resharding, Shape, TypeOK
<1>2. \A h \in Hash : ~Frozen(h)'
  BY <1>1, HashInSource DEF Frozen, StartPull
<1> QED
  BY <1>2 DEF StartPull, stored, Placed, DataOwn, NextOwn, KeysFollowRoute, Moved, Copied

LEMMA CopyPlaced ==
  ASSUME Shape, Placed, NEW s \in step.todo, Copy(s)
  PROVE  Placed'
<1>1. /\ step.busy /\ step.id \in Partitions(layout.next.count) \ layout.next.done
      /\ s \in Partitions(layout.count)
  BY DEF Copy, Shape, TypeOK
<1>2. /\ step'.busy /\ step'.id = step.id /\ step'.todo = step.todo \ {s}
      /\ UNCHANGED <<layout, data, keys>>
  BY <1>1 DEF Copy, Shape
<1>3. /\ nextData'[step.id] = {h \in nextData[step.id] : h % layout.count # s}
                               \cup {h \in data[s] : h % layout.next.count = step.id}
      /\ \A i \in Partitions(layout.next.count) \ {step.id} : nextData'[i] = nextData[i]
  BY <1>1 DEF Copy, Shape, TypeOK
<1>4. NextOwn'
  BY <1>1, <1>2, <1>3 DEF Placed, NextOwn
<1>5. \A h \in data[s] : h % layout.count = s
  BY <1>1 DEF Placed, DataOwn
<1>6. Copied'
  <2> SUFFICES ASSUME NEW h \in Hash, Frozen(h)'
               PROVE  h \in nextData'[step.id] <=> h \in data[h % layout.count]
    BY <1>2 DEF Copied
  <2>1. h % layout.next.count = step.id
    BY <1>2 DEF Frozen
  <2>2. CASE h % layout.count = s
    BY <1>3, <2>1, <2>2
  <2>3. CASE h % layout.count # s
    <3>1. Frozen(h)
      BY <1>1, <1>2, <2>1, <2>3 DEF Frozen
    <3>2. h \in nextData[step.id] <=> h \in data[h % layout.count]
      BY <3>1 DEF Placed, Copied
    <3> QED
      BY <1>3, <1>5, <2>3, <3>2
  <2> QED
    BY <2>2, <2>3
<1>7. KeysFollowRoute'
  <2> SUFFICES ASSUME layout # NoLayout, NEW h \in Hash, Moved(layout, h)
               PROVE  h \in keys <=> h \in nextData'[h % layout.next.count]
    BY <1>2 DEF Placed, KeysFollowRoute, Moved
  <2>1. h % layout.next.count \in Partitions(layout.next.count) \ {step.id}
    BY <1>1 DEF Moved, Shape, TypeOK
  <2> QED
    BY <1>3, <2>1 DEF Placed, KeysFollowRoute
<1> QED
  BY <1>2, <1>4, <1>6, <1>7 DEF Placed, DataOwn

LEMMA MarkDonePlaced == Shape /\ Placed /\ MarkDone => Placed'
<1> SUFFICES ASSUME Shape, Placed, MarkDone PROVE Placed'
  OBVIOUS
<1>1. layout \in Layout /\ layout.next.count # 0 /\ step.busy /\ step.todo = {} /\ layout # NoLayout
  BY DEF MarkDone, Shape, TypeOK, Resharding
<1>2. /\ layout'.count = layout.count
      /\ layout'.next.count = layout.next.count /\ layout'.next.done = layout.next.done \cup {step.id}
      /\ UNCHANGED <<data, nextData, keys>>
  BY <1>1 DEF MarkDone, Layout, stored
<1>3. ~step'.busy /\ layout' # NoLayout
  BY <1>1, <1>2, NoneTypes DEF MarkDone
<1>4. ASSUME NEW h \in Hash
      PROVE  h \in keys <=> IF Moved(layout', h) THEN h \in nextData[h % layout.next.count]
                                                ELSE h \in data[h % layout.count]
  <2>1. CASE h % layout.next.count = step.id /\ ~Moved(layout, h)
    <3>1. Frozen(h) /\ Moved(layout', h)
      BY <1>1, <1>2, <2>1 DEF Frozen, Moved
    <3>2. h \in nextData[h % layout.next.count] <=> h \in data[h % layout.count]
      BY <2>1, <3>1 DEF Placed, Copied
    <3> QED
      BY <1>1, <2>1, <3>1, <3>2 DEF Placed, KeysFollowRoute
  <2>2. CASE h % layout.next.count # step.id \/ Moved(layout, h)
    <3>1. Moved(layout', h) <=> Moved(layout, h)
      BY <1>2, <2>2 DEF Moved
    <3> QED
      BY <1>1, <3>1 DEF Placed, KeysFollowRoute
  <2> QED
    BY <2>1, <2>2
<1>5. KeysFollowRoute'
  BY <1>2, <1>4 DEF KeysFollowRoute
<1> QED
  BY <1>2, <1>3, <1>5 DEF Placed, DataOwn, NextOwn, Copied, Frozen

LEMMA FailStepPlaced == Shape /\ Placed /\ FailStep => Placed'
  BY NoneTypes
  DEF FailStep, stored, Placed, DataOwn, NextOwn, KeysFollowRoute, Moved, Copied, Frozen

LEMMA FinishPlaced == Shape /\ Placed /\ Finish => Placed'
<1> SUFFICES ASSUME Shape, Placed, Finish PROVE Placed'
  OBVIOUS
<1>1. /\ layout.next.count \in Count /\ layout.next.count # 0 /\ layout # NoLayout
      /\ layout.next.done = Partitions(layout.next.count)
  BY LayoutTypes DEF Finish, Shape, TypeOK, Resharding
<1>2. /\ layout'.count = layout.next.count /\ layout'.next.count = 0 /\ layout' # NoLayout
      /\ data' = nextData /\ keys' = keys /\ ~step'.busy
  BY <1>1, NoneTypes DEF Finish
<1>3. \A h \in Hash : Moved(layout, h) /\ ~Moved(layout', h)
  BY <1>1, <1>2, InPartition DEF Moved
<1>4. KeysFollowRoute'
  BY <1>1, <1>2, <1>3 DEF Placed, KeysFollowRoute
<1>5. DataOwn' /\ NextOwn'
  BY <1>2, NoneTypes DEF Placed, DataOwn, NextOwn
<1> QED
  BY <1>2, <1>4, <1>5 DEF Placed, Copied, Frozen

LEMMA WritePlaced ==
  ASSUME Shape, Placed, NEW h \in Hash, NEW set \in BOOLEAN, Write(h, set)
  PROVE  Placed'
<1> DEFINE Put(S) == IF set THEN S \cup {h} ELSE S \ {h}
<1>1. layout # NoLayout /\ UNCHANGED <<layout, step>> /\ keys' = Put(keys) /\ layout.count \in Count
  BY LayoutTypes DEF Write, control
<1>2. CASE Moved(layout, h)
  <2> DEFINE p == h % layout.next.count
  <2>1. p \in layout.next.done /\ p \in Partitions(layout.next.count)
    BY <1>2 DEF Moved, Shape, TypeOK
  <2>2. /\ data' = data /\ nextData'[p] = Put(nextData[p])
        /\ \A i \in Partitions(layout.next.count) \ {p} : nextData'[i] = nextData[i]
    BY <1>2, <2>1 DEF Write, Shape, TypeOK
  <2>3. NextOwn' /\ DataOwn'
    BY <1>1, <2>1, <2>2 DEF Placed, NextOwn, DataOwn
  <2>4. Copied'
    <3> SUFFICES ASSUME NEW k \in Hash, Frozen(k)
                 PROVE  k \in nextData'[step.id] <=> k \in data[k % layout.count]
      BY <1>1, <2>2 DEF Copied, Frozen
    <3>1. step.id \in Partitions(layout.next.count) \ {p}
      BY <2>1 DEF Frozen, Shape, TypeOK
    <3> QED
      BY <2>2, <3>1 DEF Placed, Copied
  <2>5. KeysFollowRoute'
    <3> SUFFICES ASSUME NEW k \in Hash
                 PROVE  k \in Put(keys) <=> IF Moved(layout, k) THEN k \in nextData'[k % layout.next.count]
                                                                ELSE k \in data[k % layout.count]
      BY <1>1, <2>2 DEF KeysFollowRoute
    <3>1. CASE k = h
      BY <1>2, <2>2, <3>1
    <3>2. CASE k # h
      <4>1. Moved(layout, k) =>
              k \in nextData'[k % layout.next.count] <=> k \in nextData[k % layout.next.count]
        BY <2>2, <3>2 DEF Moved, Shape, TypeOK
      <4> QED
        BY <1>1, <3>2, <4>1 DEF Placed, KeysFollowRoute
    <3> QED
      BY <3>1, <3>2
  <2> QED
    BY <1>1, <2>3, <2>4, <2>5 DEF Placed
<1>3. CASE ~Moved(layout, h)
  <2> DEFINE p == h % layout.count
  <2>1. p \in Partitions(layout.count)
    BY <1>1, InPartition
  <2>2. /\ nextData' = nextData /\ data'[p] = Put(data[p]) /\ ~Frozen(h)
        /\ \A i \in Partitions(layout.count) \ {p} : data'[i] = data[i]
    BY <1>3, <2>1 DEF Write, Shape, TypeOK
  <2>3. NextOwn' /\ DataOwn'
    BY <1>1, <2>1, <2>2 DEF Placed, NextOwn, DataOwn
  <2>4. ASSUME NEW k \in Hash, k # h
        PROVE  k \in data'[k % layout.count] <=> k \in data[k % layout.count]
    <3>1. k % layout.count \in Partitions(layout.count)
      BY <1>1, InPartition
    <3> QED
      BY <2>2, <2>4, <3>1
  <2>5. Copied'
    <3> SUFFICES ASSUME NEW k \in Hash, Frozen(k)
                 PROVE  k \in nextData[step.id] <=> k \in data'[k % layout.count]
      BY <1>1, <2>2 DEF Copied, Frozen
    <3> QED
      BY <2>2, <2>4 DEF Placed, Copied
  <2>6. KeysFollowRoute'
    <3> SUFFICES ASSUME NEW k \in Hash
                 PROVE  k \in Put(keys) <=> IF Moved(layout, k) THEN k \in nextData[k % layout.next.count]
                                                                ELSE k \in data'[k % layout.count]
      BY <1>1, <2>2 DEF KeysFollowRoute
    <3>1. CASE k = h
      BY <1>1, <1>3, <2>2, <3>1 DEF Placed, KeysFollowRoute
    <3>2. CASE k # h
      BY <1>1, <2>4, <3>2 DEF Placed, KeysFollowRoute
    <3> QED
      BY <3>1, <3>2
  <2> QED
    BY <1>1, <2>3, <2>5, <2>6 DEF Placed
<1> QED
  BY <1>2, <1>3

LEMMA NextPlaced == Shape /\ Placed /\ [Next]_vars => Placed'
<1> SUFFICES ASSUME Shape, Placed, [Next]_vars PROVE Placed'
  OBVIOUS
<1>1. CASE UNCHANGED <<layout, step, data, nextData, keys>>
  BY <1>1, SamePlaced
<1>2. CASE PlanRound
  BY <1>1, <1>2, bootstrapPlaced, startReshardingPlaced DEF PlanRound, stored
<1>3. CASE StepNext
  BY <1>3, MarkDonePlaced, FinishPlaced, StartPullPlaced, CopyPlaced DEF StepNext
<1>4. CASE FailStep
  BY <1>4, FailStepPlaced
<1>5. CASE \E h \in Hash, set \in BOOLEAN : Write(h, set)
  BY <1>5, WritePlaced
<1> QED
  BY <1>1, <1>2, <1>3, <1>4, <1>5
  DEF Next, InitConfig, PutConfig, Watch, ReadConfig, ReadRound, stored, vars

\* A request routed by the layout finds the keys that exist and no other,
\* however many partitions there are before and after, whatever was pulled,
\* failed and pulled again, and with writes at every moment.
THEOREM KeysRouted == Spec => []KeysFollowRoute
<1>1. Placed => KeysFollowRoute
  BY DEF Placed
<1> QED
  BY <1>1, AlwaysShape, InitPlaced, NextPlaced, PTL DEF Spec

----------------------------------------------------------------------------
(* The generations.                                                        *)

\* A layout v that someone still routes with against the one that is stored.
Precedes(v, l) ==
  /\ v.gen <= l.gen
  /\ v.gen = l.gen => /\ v.count = l.count
                      /\ v.next.count # 0 => v.next.count = l.next.count
  /\ v.gen + 1 = l.gen /\ v.next.count # 0 => v.next.count = l.count

ViewsPrecede == \A a \in Admin : Precedes(view[a], layout)

LEMMA InitViews == Init => ViewsPrecede
  BY DEF Init, ViewsPrecede, Precedes, NoLayout, NoNext

LEMMA NextViews == Shape /\ ViewsPrecede /\ [Next]_vars => ViewsPrecede'
<1> SUFFICES ASSUME Shape, ViewsPrecede, [Next]_vars, NEW a \in Admin
             PROVE  Precedes(view'[a], layout')
  BY DEF ViewsPrecede
<1>1. Precedes(view[a], layout)
  BY DEF ViewsPrecede
<1>2. view[a] \in Layout /\ layout \in Layout
  BY DEF Shape, TypeOK
<1>3. view[a].gen \in Nat /\ layout.gen \in Nat
  BY <1>2 DEF Layout
<1>4. CASE UNCHANGED <<layout, view>>
  BY <1>1, <1>4
<1>5. CASE \E b \in Admin : Watch(b)
  <2>1. layout' = layout /\ view'[a] \in {view[a], layout}
    BY <1>5 DEF Watch, Shape
  <2>2. Precedes(layout, layout)
    BY <1>3 DEF Precedes
  <2> QED
    BY <1>1, <2>1, <2>2
<1>6. CASE PlanRound /\ bootstrap
  <2>1. layout.gen = 0 /\ layout.next.count = 0 /\ layout'.gen = 1 /\ view' = view
    BY <1>6 DEF PlanRound, bootstrap, NoLayout, NoNext
  <2> QED
    BY <1>1, <1>3, <2>1 DEF Precedes
<1>7. CASE PlanRound /\ startResharding
  <2>1. /\ layout.next.count = 0 /\ layout'.gen = layout.gen /\ layout'.count = layout.count
        /\ view' = view
    BY <1>2, <1>7 DEF PlanRound, startResharding, Resharding, Layout
  <2> QED
    BY <1>1, <1>3, <2>1 DEF Precedes
<1>8. CASE MarkDone
  <2>1. /\ layout'.gen = layout.gen /\ layout'.count = layout.count
        /\ layout'.next.count = layout.next.count /\ view' = view
    BY <1>2, <1>8 DEF MarkDone, Layout
  <2> QED
    BY <1>1, <2>1 DEF Precedes
<1>9. CASE Finish
  <2>1. layout'.gen = layout.gen + 1 /\ layout'.count = layout.next.count /\ view' = view
    BY <1>9 DEF Finish
  <2> QED
    BY <1>1, <1>3, <2>1 DEF Precedes
<1> QED
  BY <1>4, <1>5, <1>6, <1>7, <1>8, <1>9
  DEF Next, InitConfig, PutConfig, ReadConfig, ReadRound, PlanRound, StepNext, StartPull, Copy,
      FailStep, Write, control, vars

\* A generation and a number mean the same keys to a load balancer or a node
\* with an old layout as in the layout that is stored, through any number of
\* reshardings: comparing them is enough to refuse a stale request (target).
THEOREM RefsKeepTheirMeaning == Spec => []RefsMeanTheSame
<1>1. Shape /\ ViewsPrecede => RefsMeanTheSame
  <2> SUFFICES ASSUME Shape, ViewsPrecede, NEW a \in Admin,
                      NEW x \in Counts(view[a]), NEW y \in Counts(layout), x[1] = y[1]
               PROVE  x[2] = y[2]
    BY DEF RefsMeanTheSame
  <2> DEFINE v == view[a]
  <2>1. v.gen \in Nat /\ layout.gen \in Nat
    BY DEF Shape, TypeOK, Layout
  <2>2. Precedes(v, layout)
    BY DEF ViewsPrecede
  <2>3. \/ x = <<v.gen, v.count>>
        \/ v.next.count # 0 /\ x = <<v.gen + 1, v.next.count>>
    BY DEF Counts
  <2>4. \/ y = <<layout.gen, layout.count>>
        \/ layout.next.count # 0 /\ y = <<layout.gen + 1, layout.next.count>>
    BY DEF Counts
  <2> HIDE DEF v
  <2> QED
    BY <2>1, <2>2, <2>3, <2>4 DEF Precedes
<1> QED
  BY <1>1, AlwaysShape, InitViews, NextViews, PTL DEF Spec

LEMMA SameRoute ==
  ASSUME NEW l, NEW m, NEW h, l.gen = m.gen, l.count = m.count, l.next.count = m.next.count,
         Moved(l, h) <=> Moved(m, h)
  PROVE  Route(l, h) = Route(m, h)
  BY DEF Route

\* A key never changes its owner but from the current generation to the next
\* one, when the new partition is marked as done; to start a resharding and to
\* end it moves no key (startResharding, reshardStep, Route).
THEOREM OwnersOnlyMoveForward == Spec => OwnersMoveForward
<1> DEFINE Forward ==
      layout # NoLayout =>
        \A h \in Hash :
          \/ Route(layout', h) = Route(layout, h)
          \/ /\ layout'.gen = layout.gen /\ Route(layout', h).gen = layout.gen + 1
             /\ Route(layout, h).gen = layout.gen
<1>1. Shape /\ [Next]_vars => [Forward]_vars
  <2> SUFFICES ASSUME Shape, Next, layout # NoLayout, NEW h \in Hash
               PROVE  \/ Route(layout', h) = Route(layout, h)
                      \/ /\ layout'.gen = layout.gen /\ Route(layout', h).gen = layout.gen + 1
                         /\ Route(layout, h).gen = layout.gen
    OBVIOUS
  <2>1. layout \in Layout
    BY DEF Shape, TypeOK
  <2>2. CASE UNCHANGED layout
    BY <2>2
  <2>3. CASE startResharding
    <3>1. /\ layout'.gen = layout.gen /\ layout'.count = layout.count
          /\ ~Moved(layout, h) /\ ~Moved(layout', h)
      BY <2>1, <2>3 DEF startResharding, Resharding, Moved, Layout
    <3> QED
      BY <3>1 DEF Route
  <2>4. CASE MarkDone
    <3>1. /\ layout'.gen = layout.gen /\ layout'.count = layout.count
          /\ layout'.next.count = layout.next.count
          /\ layout'.next.done = layout.next.done \cup {step.id}
      BY <2>1, <2>4 DEF MarkDone, Layout
    <3>2. CASE Moved(layout, h) <=> Moved(layout', h)
      BY <3>1, <3>2, SameRoute
    <3>3. CASE ~Moved(layout, h) /\ Moved(layout', h)
      BY <3>1, <3>3 DEF Route
    <3>4. Moved(layout, h) => Moved(layout', h)
      BY <3>1 DEF Moved
    <3> QED
      BY <3>2, <3>3, <3>4
  <2>5. CASE Finish
    <3>1. /\ layout.next.count \in Count /\ layout.next.count # 0
          /\ layout.next.done = Partitions(layout.next.count)
      BY <2>5, LayoutTypes DEF Finish, Resharding
    <3>2. layout'.gen = layout.gen + 1 /\ layout'.count = layout.next.count /\ layout'.next.count = 0
      BY <2>5, NoneTypes DEF Finish
    <3>3. Moved(layout, h) /\ ~Moved(layout', h)
      BY <3>1, <3>2, InPartition DEF Moved
    <3> QED
      BY <3>2, <3>3 DEF Route
  <2> QED
    BY <2>2, <2>3, <2>4, <2>5
    DEF Next, InitConfig, PutConfig, Watch, ReadConfig, ReadRound, PlanRound, bootstrap, StepNext,
        StartPull, Copy, FailStep, Write, control
<1> QED
  BY <1>1, AlwaysShape, PTL DEF Spec, OwnersMoveForward
============================================================================
