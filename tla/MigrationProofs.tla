-------------------------- MODULE MigrationProofs --------------------------
(***************************************************************************)
(* Proofs about module Migration: the source and the target never both     *)
(* take writes, except from leaders without a lease, and a key keeps its   *)
(* value when it moves, for any number of replicas, writes, handoffs, lost *)
(* leases and failed pulls.                                                *)
(***************************************************************************)
EXTENDS Migration, SequenceTheorems, TLAPS

----------------------------------------------------------------------------
(* Types.                                                                  *)

LayoutRec == [oldEpoch : OldEpoch, oldHandoff : Nat, newLeader : TargetNode, newEpoch : Nat,
              newHandoff : Nat, done : BOOLEAN]

OldRec == [role : {"none", "follower", "leader"}, log : Seq(Nat), frozen : BOOLEAN,
           sealed : BOOLEAN, view : Nat]

NewRec == [role : {"follower", "leader"}, epoch : Nat, dataEpoch : Nat, log : Seq(Nat),
           sealed : BOOLEAN, view : Nat]

Stages == {"idle", "sent", "snapshot", "copy", "stale", "freeze", "fallback", "replay", "answer"}

PullRec == [pc : Stages, node : TargetNode \cup {0}, tEpoch : Nat, sEpoch : Nat,
            existing : BOOLEAN, seen : BOOLEAN, after : Nat, ops : Seq(Nat)]

PollRec == [version : Nat, seq : Nat, follower : [TargetNode -> Int]]

TruthRec == [value : Nat, side : {"old", "new"}]

Version == 1..Len(layouts)

LayoutTypes == layouts \in Seq(LayoutRec) /\ layouts # <<>>

OldTypes == old \in [OldEpoch -> OldRec] /\ \A e \in OldEpoch : old[e].view \in Version

NewTypes == new \in [TargetNode -> NewRec] /\ \A n \in TargetNode : new[n].view \in Version

PullTypes ==
  /\ pull \in [Pull -> PullRec] /\ waiting \in Pull \cup {NoPull}
  /\ \A p \in Pull : pull[p].pc # "idle" => pull[p].node \in TargetNode /\ pull[p].sEpoch \in OldEpoch

OtherTypes ==
  /\ checked \subseteq OldEpoch /\ poll \in PollRec
  /\ truth \in TruthRec /\ lapsedOld \subseteq OldEpoch /\ lapsedNew \subseteq Nat
  /\ writes \in Nat /\ events \in Nat

Types == LayoutTypes /\ OldTypes /\ NewTypes /\ PullTypes /\ OtherTypes

----------------------------------------------------------------------------
(* The layouts.                                                            *)

\* Layout b may come after a: epochs grow, an epoch has one leader, and a
\* target that is done stays done.
Precedes(a, b) ==
  /\ a.oldEpoch <= b.oldEpoch /\ a.newEpoch <= b.newEpoch
  /\ a.newEpoch = b.newEpoch => a.newLeader = b.newLeader
  /\ a.done => b.done

\* A handoff in progress has been in every layout since its version.
OldHandoffLasts ==
  Latest.oldHandoff # 0 =>
    \A i \in Version : i >= Latest.oldHandoff =>
      layouts[i].oldHandoff # 0 /\ layouts[i].oldEpoch = Latest.oldEpoch

NewHandoffLasts ==
  Latest.newHandoff # 0 =>
    \A i \in Version : i >= Latest.newHandoff =>
      layouts[i].newHandoff # 0 /\ layouts[i].newEpoch = Latest.newEpoch

\* A handoff in progress, or a new epoch of the source, takes an event.
EventsSuffice ==
  /\ events <= MaxEvents
  /\ Latest.oldEpoch <= events + 1
  /\ Latest.oldHandoff # 0 => Latest.oldEpoch <= events

Order ==
  /\ \A i, j \in Version : i <= j => Precedes(layouts[i], layouts[j])
  /\ Latest.oldHandoff <= Len(layouts) /\ Latest.newHandoff <= Len(layouts)
  /\ OldHandoffLasts /\ NewHandoffLasts
  /\ EventsSuffice

\* A leader loses its lease in an epoch that ends with it.
Past ==
  /\ \A e \in lapsedOld : e < Latest.oldEpoch
  /\ \A e \in lapsedNew : e < Latest.newEpoch

----------------------------------------------------------------------------
(* The source.                                                             *)

\* A deposed leader of the source stays sealed until it learns that it is,
\* unless it lost its lease.
Deposed(e) ==
  old[e].role = "leader" /\ e < Latest.oldEpoch /\ e \notin lapsedOld =>
    \A i \in Version : i >= old[e].view /\ layouts[i].oldEpoch <= e => layouts[i].oldHandoff # 0

OldOf(e) ==
  /\ e > Latest.oldEpoch => old[e].role = "none"
  /\ old[e].role = "leader" => old[e].sealed = (layouts[old[e].view].oldHandoff # 0)
  /\ old[e].role = "leader" => layouts[old[e].view].oldEpoch <= e
  /\ old[e].role # "leader" => ~old[e].sealed /\ ~old[e].frozen
  /\ old[e].role = "follower" => e \in lapsedOld \cup {Latest.oldEpoch} /\ e \notin checked
  /\ e \in checked => e <= Latest.oldEpoch
  /\ Deposed(e)

Old == \A e \in OldEpoch : OldOf(e)

\* Once the target is done, the source's leader has its freeze for as long as
\* it may still take a write.
Guarded(e) ==
  Latest.done =>
    /\ old[e].role = "leader" /\ e = Latest.oldEpoch
         /\ (~layouts[old[e].view].done \/ e \in checked) => old[e].frozen
    /\ old[e].role = "follower" /\ e = Latest.oldEpoch => layouts[old[e].view].done

\* The pull that the controller waits for has its freeze.
PullFrozen ==
  waiting # NoPull /\ pull[waiting].pc \in {"fallback", "replay", "answer"}
    /\ pull[waiting].sEpoch = Latest.oldEpoch =>
  Source(waiting).role = "leader" /\ Source(waiting).frozen

\* A pull was asked for with epochs that had begun.
Asked ==
  \A p \in Pull : pull[p].pc # "idle" =>
    pull[p].sEpoch <= Latest.oldEpoch /\ pull[p].tEpoch <= Latest.newEpoch

Frozen == FreezeOutlasts => (\A e \in OldEpoch : Guarded(e)) /\ PullFrozen

----------------------------------------------------------------------------
(* The target.                                                             *)

\* s is a beginning of t.
Begins(s, t) == Len(s) <= Len(t) /\ \A i \in 1..Len(s) : s[i] = t[i]

NewOf(n) ==
  /\ new[n].epoch = layouts[new[n].view].newEpoch
  /\ new[n].role = "leader" <=> layouts[new[n].view].newLeader = n
  /\ new[n].role = "leader" => new[n].dataEpoch = new[n].epoch
  /\ new[n].role = "leader" => new[n].sealed = (layouts[new[n].view].newHandoff # 0)
  /\ new[n].dataEpoch <= new[n].epoch
  /\ new[n].role = "leader" /\ new[n].epoch < Latest.newEpoch /\ new[n].epoch \notin lapsedNew =>
       \A i \in Version : i >= new[n].view /\ layouts[i].newEpoch = new[n].epoch =>
         layouts[i].newHandoff # 0

\* Data of an epoch comes from its leader, who has applied its layout.
FollowsOf(m, n) ==
  /\ new[m].role = "follower" /\ new[n].role = "leader" /\ new[m].dataEpoch = new[n].epoch =>
       Begins(new[m].log, new[n].log)
  /\ \A i \in Version : layouts[i].newLeader = n /\ layouts[i].newEpoch = new[m].dataEpoch =>
       new[n].epoch >= new[m].dataEpoch

\* The leader of an epoch that ended with a handoff has applied its layout.
Ended ==
  \A i \in Version : layouts[i].newEpoch < Latest.newEpoch /\ layouts[i].newEpoch \notin lapsedNew =>
    new[layouts[i].newLeader].epoch >= layouts[i].newEpoch

New == (\A n \in TargetNode : NewOf(n)) /\ (\A m, n \in TargetNode : FollowsOf(m, n)) /\ Ended

\* What a round polled for a handoff still in progress is still so.
Polled ==
  LET n == Latest.newLeader
  IN /\ poll.version <= Len(layouts)
     /\ poll # NoPoll => poll.version # 0
     /\ poll # NoPoll /\ poll.version = Latest.newHandoff =>
          /\ new[n].role = "leader" /\ new[n].view >= Latest.newHandoff
          /\ \A m \in TargetNode \ {n} : poll.follower[m] >= poll.seq =>
               new[m].dataEpoch = Latest.newEpoch /\ Len(new[m].log) >= poll.seq

----------------------------------------------------------------------------
(* The key's value.                                                        *)

At(s, k) == IF k = 0 THEN 0 ELSE s[k]

\* The value is with the source until the target is done.
SourceHasTruth == ~Latest.done => truth.value = ValueOf(old[Latest.oldEpoch].log)

\* What a pull q has brought to the log t of the target from the source's s.
Brought(q, s, t) ==
  /\ q.pc \in {"snapshot", "copy"} => q.existing = (ValueOf(t) # 0)
  /\ q.pc \in {"copy", "stale", "freeze", "fallback"} =>
       q.after <= Len(s) /\ q.seen = (At(s, q.after) # 0)
  /\ q.pc = "copy" => q.ops = IF q.seen THEN <<At(s, q.after)>> ELSE <<>>
  /\ q.pc = "stale" => IF q.seen THEN ValueOf(t) = At(s, q.after) ELSE q.existing \/ ValueOf(t) = 0
  /\ q.pc \in {"freeze", "fallback"} => ValueOf(t) = At(s, q.after)
  /\ q.pc = "replay" => ValueOf(t \o q.ops) = ValueOf(s)
  /\ q.pc = "answer" => ValueOf(t) = ValueOf(s)

Pulled(p) ==
  pull[p].pc \notin {"idle", "sent"} =>
    /\ Into(p).role = "leader" /\ Into(p).epoch = pull[p].tEpoch
    /\ pull[p].pc # "snapshot" => Source(p).role = "leader"
    /\ Brought(pull[p], Source(p).log, Into(p).log)

Pulling == \A p \in Pull : waiting = p /\ SameLeaders(p) => Pulled(p)

\* A follower that the layout makes the leader has the log of the one before,
\* unless that one has gone on, or lost its lease.
Backed(n) ==
  /\ new[n].epoch + 1 = Latest.newEpoch
  /\ new[n].epoch \notin lapsedNew => \A i \in Version : layouts[i].newEpoch = new[n].epoch =>
       LET b == layouts[i].newLeader
       IN /\ new[b].epoch >= new[n].epoch
          /\ new[b].role = "leader" /\ new[b].epoch = new[n].epoch => new[b].log = new[n].log

\* Once the target is done no pull runs and its leader has the value, also
\* before it has applied the layout that makes it the leader.
Done ==
  LET n == Latest.newLeader
  IN Latest.done =>
       /\ \A p \in Pull : pull[p].pc = "idle"
       /\ ValueOf(new[n].log) = truth.value
       /\ new[n].role = "leader" => new[n].epoch = Latest.newEpoch
       /\ new[n].role = "follower" => Backed(n)

\* What the run of this module assumes.
Calm == FreezeOutlasts /\ FreshPoll /\ CaughtUpCrash /\ \A p, q \in Pull : p = q

Values == Calm => SourceHasTruth /\ Pulling /\ Done

Safe == Types /\ Order /\ Past /\ Asked /\ Old /\ Frozen
Inv  == Safe /\ New /\ Polled

----------------------------------------------------------------------------
(* Layouts are appended, and each may come after the ones before.          *)

LEMMA LatestIs ==
  ASSUME LayoutTypes
  PROVE  /\ Len(layouts) \in Nat \ {0} /\ Len(layouts) \in Version
         /\ Latest = layouts[Len(layouts)] /\ Latest \in LayoutRec
         /\ \A i \in Version : layouts[i] \in LayoutRec
  BY DEF LayoutTypes, Version, Latest, Last

LEMMA LayoutFields ==
  ASSUME NEW l \in LayoutRec
  PROVE  /\ l.oldEpoch \in OldEpoch /\ l.oldEpoch \in Nat /\ l.oldHandoff \in Nat
         /\ l.newLeader \in TargetNode /\ l.newEpoch \in Nat /\ l.newHandoff \in Nat
         /\ l.done \in BOOLEAN
  BY MigrationBounds DEF LayoutRec, OldEpoch

LEMMA PutIs ==
  ASSUME LayoutTypes, NEW l \in LayoutRec, PutLayout(l)
  PROVE  /\ LayoutTypes' /\ Len(layouts') = Len(layouts) + 1 /\ Latest' = l
         /\ \A i \in Version : i \in Version' /\ layouts'[i] = layouts[i]
         /\ \A i \in Version' : i \in Version \/ i = Len(layouts) + 1
         /\ layouts'[Len(layouts) + 1] = l
<1>1. layouts' = Append(layouts, l) /\ Len(layouts) \in Nat
  BY DEF LayoutTypes, PutLayout
<1>2. /\ layouts' \in Seq(LayoutRec) /\ Len(layouts') = Len(layouts) + 1
      /\ \A i \in 1..Len(layouts) : layouts'[i] = layouts[i]
      /\ layouts'[Len(layouts) + 1] = l
  BY <1>1 DEF LayoutTypes
<1>3. layouts' # <<>>
  BY <1>1, <1>2
<1> QED
  BY <1>1, <1>2, <1>3 DEF LayoutTypes, Version, Latest, Last

\* Layout l may be written next.
Follows(l) ==
  /\ l \in LayoutRec /\ Precedes(Latest, l)
  /\ \/ l.oldHandoff \in {0, Len(layouts) + 1}
     \/ l.oldHandoff = Latest.oldHandoff /\ l.oldEpoch = Latest.oldEpoch
  /\ \/ l.newHandoff \in {0, Len(layouts) + 1}
     \/ l.newHandoff = Latest.newHandoff /\ l.newEpoch = Latest.newEpoch

LEMMA PrecedesAll ==
  ASSUME NEW a \in LayoutRec, NEW b \in LayoutRec, NEW c \in LayoutRec, Precedes(a, b), Precedes(b, c)
  PROVE  Precedes(a, c)
  BY LayoutFields DEF Precedes

LEMMA PrecedesItself == ASSUME NEW a \in LayoutRec PROVE Precedes(a, a)
  BY LayoutFields DEF Precedes

LEMMA OrderPut ==
  ASSUME LayoutTypes, Order, NEW l, Follows(l), PutLayout(l), EventsSuffice'
  PROVE  Order'
<1> DEFINE k == Len(layouts) + 1
<1>1. l \in LayoutRec
  BY DEF Follows
<1>2. /\ Len(layouts) \in Nat /\ Len(layouts) \in Version /\ Latest = layouts[Len(layouts)]
      /\ Latest \in LayoutRec /\ \A i \in Version : i \in Nat /\ i <= Len(layouts) /\ layouts[i] \in LayoutRec
  BY LatestIs DEF Version
<1>3. /\ Len(layouts') = k /\ Latest' = l /\ layouts'[k] = l
      /\ \A i \in Version : layouts'[i] = layouts[i]
      /\ \A i \in Version' : i \in Version \/ i = k
  BY <1>1, PutIs
<1>4. /\ Latest.oldHandoff \in Nat /\ Latest.newHandoff \in Nat
      /\ l.oldHandoff \in Nat /\ l.newHandoff \in Nat
  BY <1>1, <1>2, LayoutFields
<1>5. \A i, j \in Version' : i <= j => Precedes(layouts'[i], layouts'[j])
  <2> SUFFICES ASSUME NEW i \in Version', NEW j \in Version', i <= j
               PROVE  Precedes(layouts'[i], layouts'[j])
    OBVIOUS
  <2>1. CASE j \in Version
    <3>1. i \in Version
      BY <1>2, <1>3, <2>1
    <3> QED
      BY <1>3, <2>1, <3>1 DEF Order
  <2>2. CASE j = k /\ i \in Version
    <3>1. Precedes(layouts[i], Latest)
      BY <1>2, <2>2 DEF Order
    <3> QED
      BY <1>1, <1>2, <1>3, <2>2, <3>1, PrecedesAll DEF Follows
  <2>3. CASE j = k /\ i = k
    BY <1>1, <1>3, <2>3, PrecedesItself
  <2> QED
    BY <1>3, <2>1, <2>2, <2>3
<1>6. Latest'.oldHandoff <= Len(layouts') /\ Latest'.newHandoff <= Len(layouts')
  <2>1. Latest.oldHandoff <= Len(layouts) /\ Latest.newHandoff <= Len(layouts)
    BY DEF Order
  <2> QED
    BY <1>2, <1>3, <1>4, <2>1 DEF Follows
<1>7. OldHandoffLasts'
  <2> SUFFICES ASSUME l.oldHandoff # 0, NEW i \in Version', i >= l.oldHandoff
               PROVE  layouts'[i].oldHandoff # 0 /\ layouts'[i].oldEpoch = l.oldEpoch
    BY <1>3 DEF OldHandoffLasts
  <2>1. CASE i = k
    BY <1>3, <2>1
  <2>2. CASE i \in Version
    <3>1. l.oldHandoff = Latest.oldHandoff /\ l.oldEpoch = Latest.oldEpoch
      BY <1>2, <2>2 DEF Follows
    <3> QED
      BY <1>3, <2>2, <3>1 DEF Order, OldHandoffLasts
  <2> QED
    BY <1>3, <2>1, <2>2
<1>8. NewHandoffLasts'
  <2> SUFFICES ASSUME l.newHandoff # 0, NEW i \in Version', i >= l.newHandoff
               PROVE  layouts'[i].newHandoff # 0 /\ layouts'[i].newEpoch = l.newEpoch
    BY <1>3 DEF NewHandoffLasts
  <2>1. CASE i = k
    BY <1>3, <2>1
  <2>2. CASE i \in Version
    <3>1. l.newHandoff = Latest.newHandoff /\ l.newEpoch = Latest.newEpoch
      BY <1>2, <2>2 DEF Follows
    <3> QED
      BY <1>3, <2>2, <3>1 DEF Order, NewHandoffLasts
  <2> QED
    BY <1>3, <2>1, <2>2
<1> QED
  BY <1>5, <1>6, <1>7, <1>8 DEF Order

\* The layouts that the actions write.  Only what one of them changes differs
\* from the layout before.
SameOld(l) == l.oldEpoch = Latest.oldEpoch /\ l.oldHandoff = Latest.oldHandoff
SameNew(l) ==
  l.newEpoch = Latest.newEpoch /\ l.newLeader = Latest.newLeader /\ l.newHandoff = Latest.newHandoff

LEMMA OldHandoffIs ==
  ASSUME LayoutTypes, NEW h \in {0, Len(layouts) + 1}
  PROVE  LET l == [Latest EXCEPT !.oldHandoff = h]
         IN Follows(l) /\ SameNew(l) /\ l.done = Latest.done /\ l.oldEpoch = Latest.oldEpoch
            /\ l.oldHandoff = h
<1> DEFINE l == [Latest EXCEPT !.oldHandoff = h]
<1>1. Latest \in LayoutRec /\ h \in Nat
  BY LatestIs
<1>2. l \in LayoutRec /\ SameNew(l) /\ l.done = Latest.done /\ l.oldEpoch = Latest.oldEpoch /\ l.oldHandoff = h
  BY <1>1 DEF LayoutRec, SameNew
<1> HIDE DEF l
<1>3. Follows(l)
  BY <1>1, <1>2, LayoutFields DEF Follows, Precedes, SameNew
<1> QED
  BY <1>2, <1>3 DEF l

LEMMA NewHandoffIs ==
  ASSUME LayoutTypes, NEW h \in {0, Len(layouts) + 1}
  PROVE  LET l == [Latest EXCEPT !.newHandoff = h]
         IN Follows(l) /\ SameOld(l) /\ l.done = Latest.done /\ l.newEpoch = Latest.newEpoch
            /\ l.newLeader = Latest.newLeader /\ l.newHandoff = h
<1> DEFINE l == [Latest EXCEPT !.newHandoff = h]
<1>1. Latest \in LayoutRec /\ h \in Nat
  BY LatestIs
<1>2. /\ l \in LayoutRec /\ SameOld(l) /\ l.done = Latest.done /\ l.newEpoch = Latest.newEpoch
      /\ l.newLeader = Latest.newLeader /\ l.newHandoff = h
  BY <1>1 DEF LayoutRec, SameOld
<1> HIDE DEF l
<1>3. Follows(l)
  BY <1>1, <1>2, LayoutFields DEF Follows, Precedes, SameOld
<1> QED
  BY <1>2, <1>3 DEF l

LEMMA DoneIs ==
  ASSUME LayoutTypes
  PROVE  LET l == [Latest EXCEPT !.done = TRUE] IN Follows(l) /\ SameOld(l) /\ SameNew(l) /\ l.done
<1> DEFINE l == [Latest EXCEPT !.done = TRUE]
<1>1. Latest \in LayoutRec
  BY LatestIs
<1>2. l \in LayoutRec /\ SameOld(l) /\ SameNew(l) /\ l.done
  BY <1>1 DEF LayoutRec, SameOld, SameNew
<1> HIDE DEF l
<1>3. Follows(l)
  BY <1>1, <1>2, LayoutFields DEF Follows, Precedes, SameOld, SameNew
<1> QED
  BY <1>2, <1>3 DEF l

LEMMA LeadOldIs ==
  ASSUME LayoutTypes, Latest.oldEpoch <= MaxEvents
  PROVE  LET l == [Latest EXCEPT !.oldEpoch = @ + 1, !.oldHandoff = 0]
         IN Follows(l) /\ SameNew(l) /\ l.done = Latest.done /\ l.oldEpoch = Latest.oldEpoch + 1
            /\ l.oldHandoff = 0 /\ Latest.oldEpoch + 1 \in OldEpoch
<1> DEFINE l == [Latest EXCEPT !.oldEpoch = @ + 1, !.oldHandoff = 0]
<1>1. Latest \in LayoutRec
  BY LatestIs
<1>2. Latest.oldEpoch + 1 \in OldEpoch
  BY <1>1, LayoutFields, MigrationBounds DEF OldEpoch
<1>3. /\ l \in LayoutRec /\ l.oldEpoch = Latest.oldEpoch + 1 /\ SameNew(l) /\ l.oldHandoff = 0
      /\ l.done = Latest.done
  BY <1>1, <1>2 DEF LayoutRec, SameNew
<1> HIDE DEF l
<1>4. Follows(l)
  BY <1>1, <1>3, LayoutFields DEF Precedes, Follows, SameNew
<1> QED
  BY <1>2, <1>3, <1>4 DEF l

LEMMA LeadNewIs ==
  ASSUME LayoutTypes, NEW m \in TargetNode
  PROVE  LET l == [Latest EXCEPT !.newLeader = m, !.newEpoch = @ + 1, !.newHandoff = 0]
         IN Follows(l) /\ SameOld(l) /\ l.done = Latest.done /\ l.newEpoch = Latest.newEpoch + 1
            /\ l.newLeader = m /\ l.newHandoff = 0
<1> DEFINE l == [Latest EXCEPT !.newLeader = m, !.newEpoch = @ + 1, !.newHandoff = 0]
<1>1. Latest \in LayoutRec
  BY LatestIs
<1>2. Latest.newEpoch + 1 \in Nat
  BY <1>1, LayoutFields
<1>3. /\ l \in LayoutRec /\ SameOld(l) /\ l.newEpoch = Latest.newEpoch + 1
      /\ l.newLeader = m /\ l.newHandoff = 0 /\ l.done = Latest.done
  BY <1>1, <1>2 DEF LayoutRec, SameOld
<1> HIDE DEF l
<1>4. Follows(l)
  BY <1>1, <1>3, LayoutFields DEF Precedes, Follows, SameOld
<1> QED
  BY <1>3, <1>4 DEF l

\* What a step writes.
HandoffPut(l) ==
  /\ PutLayout(l) /\ Follows(l) /\ l.done = Latest.done
  /\ \/ SameOld(l) /\ l.newEpoch = Latest.newEpoch /\ l.newLeader = Latest.newLeader
          /\ l.newHandoff \in {0, Len(layouts) + 1}
     \/ SameNew(l) /\ l.oldEpoch = Latest.oldEpoch

LeadOldPut(l) ==
  /\ PutLayout(l) /\ Follows(l) /\ SameNew(l) /\ l.done = Latest.done
  /\ l.oldEpoch = Latest.oldEpoch + 1 /\ l.oldHandoff = 0 /\ Latest.oldEpoch + 1 \in OldEpoch

LeadNewPut(l, m) ==
  /\ PutLayout(l) /\ Follows(l) /\ SameOld(l) /\ l.done = Latest.done
  /\ l.newEpoch = Latest.newEpoch + 1 /\ l.newLeader = m /\ l.newHandoff = 0

DonePut(l) == PutLayout(l) /\ Follows(l) /\ SameOld(l) /\ SameNew(l) /\ l.done

LEMMA HandoffPuts ==
  ASSUME LayoutTypes, OtherTypes, Order, StartHandoff \/ CancelHandoff
  PROVE  Order' /\ \E l : HandoffPut(l)
<1>1. /\ Len(layouts) \in Nat /\ Latest.oldEpoch \in Nat /\ events \in Nat
      /\ EventsSuffice
  BY LatestIs, LayoutFields DEF OtherTypes, Order
<1>2. ASSUME NEW h \in {0, Len(layouts) + 1}, NEW l, l = [Latest EXCEPT !.oldHandoff = h], PutLayout(l),
             Event \/ (UNCHANGED events /\ h = 0)
      PROVE  Order' /\ HandoffPut(l)
  <2>1. Follows(l) /\ SameNew(l) /\ l.done = Latest.done /\ l.oldEpoch = Latest.oldEpoch /\ l.oldHandoff = h
    BY <1>2, OldHandoffIs
  <2>2. Latest' = l
    BY <1>2, <2>1, PutIs DEF Follows
  <2>3. EventsSuffice'
    BY <1>1, <1>2, <2>1, <2>2, MigrationBounds DEF EventsSuffice, Event
  <2> QED
    BY <1>2, <2>1, <2>3, OrderPut DEF HandoffPut
<1>3. ASSUME NEW h \in {0, Len(layouts) + 1}, NEW l, l = [Latest EXCEPT !.newHandoff = h], PutLayout(l),
             Event \/ UNCHANGED events
      PROVE  Order' /\ HandoffPut(l)
  <2>1. Follows(l) /\ SameOld(l) /\ l.done = Latest.done /\ l.newEpoch = Latest.newEpoch
        /\ l.newLeader = Latest.newLeader /\ l.newHandoff = h
    BY <1>3, NewHandoffIs
  <2>2. Latest' = l
    BY <1>3, <2>1, PutIs DEF Follows
  <2>3. EventsSuffice'
    BY <1>1, <1>3, <2>1, <2>2, MigrationBounds DEF EventsSuffice, Event, SameOld
  <2> QED
    BY <1>3, <2>1, <2>3, OrderPut DEF HandoffPut
<1>4. CASE StartHandoff
  <2>1. Event
    BY <1>4 DEF StartHandoff
  <2>2. CASE PutLayout([Latest EXCEPT !.oldHandoff = Len(layouts) + 1])
    BY <1>2, <2>1, <2>2
  <2>3. CASE PutLayout([Latest EXCEPT !.newHandoff = Len(layouts) + 1])
    BY <1>3, <2>1, <2>3
  <2> QED
    BY <1>4, <2>2, <2>3 DEF StartHandoff
<1>5. CASE CancelHandoff
  <2>1. UNCHANGED events
    BY <1>5 DEF CancelHandoff
  <2>2. CASE PutLayout([Latest EXCEPT !.oldHandoff = 0])
    BY <1>2, <2>1, <2>2
  <2>3. CASE PutLayout([Latest EXCEPT !.newHandoff = 0])
    BY <1>3, <2>1, <2>3
  <2> QED
    BY <1>5, <2>2, <2>3 DEF CancelHandoff
<1> QED
  BY <1>4, <1>5

LEMMA LeadOldPuts ==
  ASSUME LayoutTypes, OtherTypes, Order, FinishOldHandoff \/ LapseOld
  PROVE  Order' /\ LeadOldPut([Latest EXCEPT !.oldEpoch = @ + 1, !.oldHandoff = 0])
<1> DEFINE l == [Latest EXCEPT !.oldEpoch = @ + 1, !.oldHandoff = 0]
<1>1. /\ Latest.oldEpoch \in Nat /\ events \in Nat /\ EventsSuffice
  BY LatestIs, LayoutFields DEF OtherTypes, Order
<1>2. /\ PutLayout(l)
      /\ \/ events' = events /\ Latest.oldHandoff # 0
         \/ Event
  BY DEF FinishOldHandoff, LapseOld, LeadOld
<1>3. Latest.oldEpoch <= MaxEvents
  BY <1>1, <1>2, MigrationBounds DEF EventsSuffice, Event
<1>4. /\ Follows(l) /\ SameNew(l) /\ l.done = Latest.done /\ l.oldEpoch = Latest.oldEpoch + 1
      /\ l.oldHandoff = 0 /\ Latest.oldEpoch + 1 \in OldEpoch
  BY <1>3, LeadOldIs
<1> HIDE DEF l
<1>5. Latest' = l
  BY <1>2, <1>4, PutIs DEF Follows
<1>6. EventsSuffice'
  BY <1>1, <1>2, <1>4, <1>5, MigrationBounds DEF EventsSuffice, Event
<1>7. Order' /\ LeadOldPut(l)
  BY <1>2, <1>4, <1>6, OrderPut DEF LeadOldPut
<1> QED
  BY <1>7 DEF l

LEMMA LeadNewPuts ==
  ASSUME LayoutTypes, OtherTypes, Order, NEW m \in TargetNode, LeadNew(Latest, m),
         Event \/ UNCHANGED events
  PROVE  Order' /\ \E l : LeadNewPut(l, m)
<1> DEFINE l == [Latest EXCEPT !.newLeader = m, !.newEpoch = @ + 1, !.newHandoff = 0]
<1>1. /\ Latest.oldEpoch \in Nat /\ events \in Nat /\ EventsSuffice
  BY LatestIs, LayoutFields DEF OtherTypes, Order
<1>2. PutLayout(l)
  BY DEF LeadNew
<1>3. /\ Follows(l) /\ SameOld(l) /\ l.done = Latest.done /\ l.newEpoch = Latest.newEpoch + 1
      /\ l.newLeader = m /\ l.newHandoff = 0
  BY LeadNewIs
<1> HIDE DEF l
<1>4. Latest' = l
  BY <1>2, <1>3, PutIs DEF Follows
<1>5. EventsSuffice'
  BY <1>1, <1>3, <1>4, MigrationBounds DEF EventsSuffice, Event, SameOld
<1> QED
  BY <1>2, <1>3, <1>5, OrderPut DEF LeadNewPut

LEMMA DonePuts ==
  ASSUME LayoutTypes, OtherTypes, Order, PutLayout([Latest EXCEPT !.done = TRUE]), UNCHANGED events
  PROVE  Order' /\ \E l : DonePut(l)
<1> DEFINE l == [Latest EXCEPT !.done = TRUE]
<1>1. Follows(l) /\ SameOld(l) /\ SameNew(l) /\ l.done
  BY DoneIs
<1>2. PutLayout(l)
  OBVIOUS
<1> HIDE DEF l
<1>3. Latest' = l
  BY <1>1, <1>2, PutIs DEF Follows
<1>4. EventsSuffice'
  BY <1>1, <1>3 DEF EventsSuffice, SameOld, Order
<1> QED
  BY <1>1, <1>2, <1>4, OrderPut DEF DonePut

LEMMA OrderKept ==
  ASSUME LayoutTypes, OtherTypes, Order, UNCHANGED layouts, Event \/ UNCHANGED events
  PROVE  Order'
<1>1. Latest' = Latest /\ Version' = Version
  BY DEF Latest, Version
<1>2. OldHandoffLasts' /\ NewHandoffLasts'
  BY <1>1 DEF Order, OldHandoffLasts, NewHandoffLasts
<1>3. EventsSuffice'
  <2>1. EventsSuffice /\ events \in Nat /\ Latest.oldEpoch \in Nat
    BY LatestIs, LayoutFields DEF Order, OtherTypes
  <2> QED
    BY <1>1, <2>1, MigrationBounds DEF EventsSuffice, Event
<1> QED
  BY <1>1, <1>2, <1>3 DEF Order

----------------------------------------------------------------------------
(* The key's value.                                                        *)

\* What a log says of the key.
LEMMA ValueIs ==
  ASSUME NEW s \in Seq(Nat)
  PROVE  ValueOf(s) \in Nat /\ ValueOf(s) = At(s, Len(s))
  BY DEF ValueOf, At, Last

LEMMA ValueAppend == ASSUME NEW s \in Seq(Nat), NEW v \in Nat PROVE ValueOf(Append(s, v)) = v
  BY DEF ValueOf, Last

LEMMA ValueOne == ASSUME NEW v \in Nat PROVE ValueOf(<<v>>) = v
  BY DEF ValueOf, Last

LEMMA ValueConcat ==
  ASSUME NEW s \in Seq(Nat), NEW t \in Seq(Nat)
  PROVE  ValueOf(s \o t) = IF t = <<>> THEN ValueOf(s) ELSE ValueOf(t)
<1>1. CASE t = <<>>
  BY <1>1
<1>2. CASE t # <<>>
  <2>1. Len(t) \in Nat \ {0} /\ Len(s) \in Nat /\ Len(s \o t) = Len(s) + Len(t) /\ s \o t # <<>>
    BY <1>2
  <2>2. (s \o t)[Len(s) + Len(t)] = t[Len(t)]
    BY <2>1
  <2> QED
    BY <1>2, <2>1, <2>2 DEF ValueOf, Last
<1> QED
  BY <1>1, <1>2

SameTrace(p) == pull'[p].seen = pull[p].seen /\ pull'[p].after = pull[p].after

\* The key's value follows a log, or stays.
LEMMA FollowIs ==
  ASSUME truth \in TruthRec, NEW b \in BOOLEAN, NEW log \in Seq(Nat), Follow(b, log)
  PROVE  truth' \in TruthRec /\ truth'.value = IF b THEN ValueOf(log) ELSE truth.value
<1>1. PICK v \in Nat : v = ValueOf(log)
  BY ValueIs
<1>2. truth' = IF b THEN [truth EXCEPT !.value = v] ELSE truth
  BY <1>1 DEF Follow
<1> QED
  BY <1>1, <1>2 DEF TruthRec

\* A write changes it if it counts.
LEMMA AcknowledgeIs ==
  ASSUME truth \in TruthRec, NEW v \in Nat, NEW side \in {"old", "new"}, NEW b \in BOOLEAN, Acknowledge(v, side, b)
  PROVE  truth' \in TruthRec /\ truth'.value = IF b THEN v ELSE truth.value
<1>1. truth' = IF b THEN [value |-> v, side |-> side] ELSE truth
  BY DEF Acknowledge
<1> QED
  BY <1>1 DEF TruthRec

----------------------------------------------------------------------------
(* What the actions do to the source.                                      *)

OldChanges(e) == old' \in [OldEpoch -> OldRec] /\ \A x \in OldEpoch \ {e} : old'[x] = old[x]

LEMMA OldFields ==
  ASSUME NEW r \in OldRec
  PROVE  /\ r.role \in {"none", "follower", "leader"} /\ r.log \in Seq(Nat)
         /\ r.frozen \in BOOLEAN /\ r.sealed \in BOOLEAN /\ r.view \in Nat
  BY DEF OldRec

LEMMA NoLeaderIs ==
  /\ NoLeader \in OldRec /\ NoLeader.role = "none" /\ NoLeader.log = <<>> /\ NoLeader.view = 1
  /\ ~NoLeader.frozen /\ ~NoLeader.sealed
<1>1. <<>> \in Seq(Nat)
  OBVIOUS
<1> QED
  BY <1>1 DEF NoLeader, OldRec

LEMMA ApplyOldIs ==
  ASSUME Types, NEW e \in OldEpoch, NEW v \in Version, ApplyOld(e, v)
  PROVE  /\ OldChanges(e) /\ old[e].role \in {"follower", "leader"} /\ v > old[e].view
         /\ IF layouts[v].oldEpoch > e THEN old'[e] = NoLeader
            ELSE /\ old'[e].role = "leader" /\ old'[e].view = v
                 /\ old'[e].log = old[e].log /\ old'[e].frozen = old[e].frozen
                 /\ old'[e].sealed = (layouts[v].oldHandoff # 0)
<1> DEFINE r == [old[e] EXCEPT !.view = v, !.role = "leader", !.sealed = (layouts[v].oldHandoff # 0)]
<1>1. old \in [OldEpoch -> OldRec] /\ old[e] \in OldRec /\ v \in Nat /\ v \in Version
  BY DEF Types, OldTypes, Version
<1>2. /\ r \in OldRec /\ r.role = "leader" /\ r.view = v /\ r.log = old[e].log
      /\ r.frozen = old[e].frozen /\ r.sealed = (layouts[v].oldHandoff # 0)
  BY <1>1 DEF OldRec
<1>3. /\ old' = [old EXCEPT ![e] = IF layouts[v].oldEpoch > e THEN NoLeader ELSE r]
      /\ old[e].role \in {"follower", "leader"} /\ v > old[e].view
  BY DEF ApplyOld
<1> HIDE DEF r
<1>4. CASE layouts[v].oldEpoch > e
  BY <1>1, <1>3, <1>4, NoLeaderIs DEF OldChanges
<1>5. CASE ~(layouts[v].oldEpoch > e)
  BY <1>1, <1>2, <1>3, <1>5 DEF OldChanges
<1> QED
  BY <1>4, <1>5

LEMMA WriteOldIs ==
  ASSUME Types, NEW e \in OldEpoch, WriteOld(e)
  PROVE  /\ OldChanges(e) /\ e \in checked /\ checked' = checked \ {e} /\ TakesOld(e)
         /\ truth' \in TruthRec
         /\ \E v \in Nat : /\ old'[e].log = Append(old[e].log, v)
                           /\ truth'.value = IF e \notin lapsedOld THEN v ELSE truth.value
         /\ old'[e].role = "leader" /\ old'[e].view = old[e].view
         /\ old'[e].frozen = old[e].frozen /\ old'[e].sealed = old[e].sealed
<1>1. PICK v \in {0, writes + 1} : /\ Acknowledge(v, "old", e \notin lapsedOld)
                                   /\ old' = [old EXCEPT ![e].log = Append(@, v)]
  BY DEF WriteOld
<1>2. old \in [OldEpoch -> OldRec] /\ old[e] \in OldRec /\ v \in Nat /\ truth \in TruthRec
  BY DEF Types, OldTypes, OtherTypes
<1>3. truth' \in TruthRec /\ truth'.value = IF e \notin lapsedOld THEN v ELSE truth.value
  BY <1>1, <1>2, AcknowledgeIs
<1> DEFINE r == [old[e] EXCEPT !.log = Append(old[e].log, v)]
<1>5. old' = [old EXCEPT ![e] = r]
  BY <1>1, <1>2
<1>6. Append(old[e].log, v) \in Seq(Nat)
  BY <1>2, OldFields
<1>7. /\ r \in OldRec /\ r.role = old[e].role /\ r.view = old[e].view /\ r.log = Append(old[e].log, v)
      /\ r.frozen = old[e].frozen /\ r.sealed = old[e].sealed
  BY <1>2, <1>6 DEF OldRec
<1> HIDE DEF r
<1>8. OldChanges(e) /\ old'[e] = r
  BY <1>2, <1>5, <1>7 DEF OldChanges
<1> QED
  BY <1>2, <1>3, <1>7, <1>8 DEF WriteOld, TakesOld

LEMMA FollowOldIs ==
  ASSUME Types, NEW e \in OldEpoch, FollowOld(e)
  PROVE  /\ OldChanges(e) /\ old[e].role = "follower"
         /\ old'[e].role = "follower" /\ old'[e].view = old[e].view
         /\ old'[e].frozen = old[e].frozen /\ old'[e].sealed = old[e].sealed
         /\ truth' \in TruthRec
         /\ truth'.value = IF ~Latest.done /\ e = Latest.oldEpoch THEN ValueOf(old'[e].log) ELSE truth.value
<1>1. PICK log : log = old[e - 1].log
  OBVIOUS
<1>2. /\ old \in [OldEpoch -> OldRec] /\ old[e] \in OldRec /\ truth \in TruthRec /\ old[e - 1] \in OldRec
      /\ Latest.done \in BOOLEAN
  BY LatestIs, LayoutFields DEF FollowOld, Types, OldTypes, OtherTypes
<1>3. log \in Seq(Nat)
  BY <1>1, <1>2, OldFields
<1>4. /\ old' = [old EXCEPT ![e].log = log] /\ old[e].role = "follower"
      /\ Follow(~Latest.done /\ e = Latest.oldEpoch, log)
  BY <1>1 DEF FollowOld
<1>5. truth' \in TruthRec /\ truth'.value = IF ~Latest.done /\ e = Latest.oldEpoch THEN ValueOf(log) ELSE truth.value
  BY <1>2, <1>3, <1>4, FollowIs
<1> DEFINE r == [old[e] EXCEPT !.log = log]
<1>6. old' = [old EXCEPT ![e] = r]
  BY <1>2, <1>4
<1>7. /\ r \in OldRec /\ r.role = old[e].role /\ r.view = old[e].view /\ r.log = log
      /\ r.frozen = old[e].frozen /\ r.sealed = old[e].sealed
  BY <1>2, <1>3 DEF OldRec
<1> HIDE DEF r
<1>8. OldChanges(e) /\ old'[e] = r
  BY <1>2, <1>6, <1>7 DEF OldChanges
<1> QED
  BY <1>4, <1>5, <1>7, <1>8

LEMMA FreezeIs ==
  ASSUME Types, NEW e \in OldEpoch, NEW b \in BOOLEAN, old' = [old EXCEPT ![e].frozen = b]
  PROVE  /\ OldChanges(e) /\ old'[e].frozen = b
         /\ old'[e].role = old[e].role /\ old'[e].view = old[e].view
         /\ old'[e].log = old[e].log /\ old'[e].sealed = old[e].sealed
<1>1. old \in [OldEpoch -> OldRec] /\ old[e] \in OldRec
  BY DEF Types, OldTypes
<1> DEFINE r == [old[e] EXCEPT !.frozen = b]
<1>2. old' = [old EXCEPT ![e] = r]
  BY <1>1
<1>3. /\ r \in OldRec /\ r.role = old[e].role /\ r.view = old[e].view /\ r.log = old[e].log
      /\ r.frozen = b /\ r.sealed = old[e].sealed
  BY <1>1 DEF OldRec
<1> HIDE DEF r
<1> QED
  BY <1>1, <1>2, <1>3 DEF OldChanges

\* The new leader of the source starts as a follower with the log of the last.
OldLed ==
  LET e == Latest.oldEpoch
  IN /\ OldChanges(e + 1) /\ e \in OldEpoch /\ e + 1 \in OldEpoch
     /\ old'[e + 1].role = "follower" /\ old'[e + 1].log = old[e].log
     /\ ~old'[e + 1].frozen /\ ~old'[e + 1].sealed /\ old'[e + 1].view = Len(layouts)

LEMMA LeadsOldIs ==
  ASSUME Types, Order, FinishOldHandoff \/ LapseOld
  PROVE  OldLed
<1> DEFINE e == Latest.oldEpoch
           r == [NoLeader EXCEPT !.role = "follower", !.log = old[e].log, !.view = Len(layouts)]
<1>1. old \in [OldEpoch -> OldRec] /\ e \in OldEpoch /\ e \in Nat /\ Len(layouts) \in Nat
  BY LatestIs, LayoutFields DEF Types, OldTypes
<1>2. e + 1 \in OldEpoch
  BY LeadOldPuts DEF LeadOldPut, Types
<1>3. old' = [old EXCEPT ![e + 1] = r]
  BY DEF FinishOldHandoff, LapseOld, LeadOld
<1>4. old[e].log \in Seq(Nat)
  BY <1>1, OldFields
<1>5. /\ r \in OldRec /\ r.role = "follower" /\ r.log = old[e].log /\ ~r.frozen /\ ~r.sealed
      /\ r.view = Len(layouts)
  BY <1>1, <1>4, NoLeaderIs DEF OldRec
<1> HIDE DEF r
<1>6. OldChanges(e + 1) /\ old'[e + 1] = r
  BY <1>1, <1>2, <1>3, <1>5 DEF OldChanges
<1> QED
  BY <1>1, <1>2, <1>5, <1>6 DEF OldLed

----------------------------------------------------------------------------
(* What the actions do to the target.                                      *)

NewChanges(n) == new' \in [TargetNode -> NewRec] /\ \A x \in TargetNode \ {n} : new'[x] = new[x]

LEMMA NewFields ==
  ASSUME NEW r \in NewRec
  PROVE  /\ r.role \in {"follower", "leader"} /\ r.log \in Seq(Nat) /\ r.epoch \in Nat
         /\ r.dataEpoch \in Nat /\ r.sealed \in BOOLEAN /\ r.view \in Nat
  BY DEF NewRec

LEMMA ApplyNewIs ==
  ASSUME Types, NEW n \in TargetNode, NEW v \in Version, ApplyNew(n, v)
  PROVE  /\ NewChanges(n) /\ v > new[n].view
         /\ new'[n].view = v /\ new'[n].epoch = layouts[v].newEpoch
         /\ IF layouts[v].newLeader = n
            THEN /\ new'[n].role = "leader" /\ new'[n].log = new[n].log
                 /\ new'[n].dataEpoch = layouts[v].newEpoch
                 /\ new'[n].sealed = (layouts[v].newHandoff # 0)
            ELSE /\ new'[n].role = "follower" /\ ~new'[n].sealed
                 /\ new[n].role = "leader" => new'[n].log = <<>> /\ new'[n].dataEpoch = 0
                 /\ new[n].role = "follower" => /\ new'[n].log = new[n].log
                                                /\ new'[n].dataEpoch = new[n].dataEpoch
<1> DEFINE l == layouts[v]
           a == [new[n] EXCEPT !.view = v, !.role = "leader", !.epoch = l.newEpoch,
                               !.dataEpoch = l.newEpoch, !.sealed = (l.newHandoff # 0)]
           b == [view |-> v, role |-> "follower", epoch |-> l.newEpoch, sealed |-> FALSE,
                 dataEpoch |-> IF new[n].role = "leader" THEN 0 ELSE new[n].dataEpoch,
                 log |-> IF new[n].role = "leader" THEN <<>> ELSE new[n].log]
<1>1. new \in [TargetNode -> NewRec] /\ new[n] \in NewRec /\ v \in Nat /\ l \in LayoutRec
  BY LatestIs DEF Types, NewTypes, Version
<1>2. l.newEpoch \in Nat
  BY <1>1, LayoutFields
<1>3. /\ new' = [new EXCEPT ![n] = IF l.newLeader = n THEN a ELSE b] /\ v > new[n].view
  BY DEF ApplyNew
<1>4. /\ a \in NewRec /\ a.view = v /\ a.epoch = l.newEpoch /\ a.role = "leader" /\ a.log = new[n].log
      /\ a.dataEpoch = l.newEpoch /\ a.sealed = (l.newHandoff # 0)
  BY <1>1, <1>2 DEF NewRec
<1>5. /\ new[n].role \in {"follower", "leader"} /\ new[n].dataEpoch \in Nat /\ new[n].log \in Seq(Nat)
  BY <1>1, NewFields
<1>6. /\ b \in NewRec /\ b.view = v /\ b.epoch = l.newEpoch /\ b.role = "follower" /\ ~b.sealed
      /\ new[n].role = "leader" => b.log = <<>> /\ b.dataEpoch = 0
      /\ new[n].role = "follower" => b.log = new[n].log /\ b.dataEpoch = new[n].dataEpoch
  <2>1. <<>> \in Seq(Nat)
    OBVIOUS
  <2>2. CASE new[n].role = "leader"
    BY <1>1, <1>2, <2>1, <2>2 DEF NewRec
  <2>3. CASE new[n].role = "follower"
    BY <1>1, <1>2, <1>5, <2>3 DEF NewRec
  <2> QED
    BY <1>5, <2>2, <2>3
<1> HIDE DEF a, b
<1>7. CASE l.newLeader = n
  BY <1>1, <1>3, <1>4, <1>7 DEF NewChanges
<1>8. CASE l.newLeader # n
  BY <1>1, <1>3, <1>6, <1>8 DEF NewChanges
<1> QED
  BY <1>7, <1>8

\* A replica of the target gets a log.
LEMMA LogIs ==
  ASSUME Types, NEW n \in TargetNode, NEW log \in Seq(Nat), new' = [new EXCEPT ![n].log = log]
  PROVE  /\ NewChanges(n) /\ new'[n].log = log
         /\ new'[n].role = new[n].role /\ new'[n].epoch = new[n].epoch /\ new'[n].view = new[n].view
         /\ new'[n].dataEpoch = new[n].dataEpoch /\ new'[n].sealed = new[n].sealed
<1> DEFINE r == [new[n] EXCEPT !.log = log]
<1>1. new \in [TargetNode -> NewRec] /\ new[n] \in NewRec
  BY DEF Types, NewTypes
<1>2. new' = [new EXCEPT ![n] = r]
  BY <1>1
<1>3. /\ r \in NewRec /\ r.log = log /\ r.role = new[n].role /\ r.epoch = new[n].epoch
      /\ r.view = new[n].view /\ r.dataEpoch = new[n].dataEpoch /\ r.sealed = new[n].sealed
  BY <1>1 DEF NewRec
<1> HIDE DEF r
<1> QED
  BY <1>1, <1>2, <1>3 DEF NewChanges

LEMMA WriteNewIs ==
  ASSUME Types, NEW n \in TargetNode, WriteNew(n)
  PROVE  /\ truth' \in TruthRec
         /\ \E v \in Nat : /\ Append(new[n].log, v) \in Seq(Nat)
                           /\ new' = [new EXCEPT ![n].log = Append(new[n].log, v)]
                           /\ truth'.value = IF new[n].epoch \notin lapsedNew THEN v ELSE truth.value
<1>1. PICK v \in {0, writes + 1} : /\ Acknowledge(v, "new", new[n].epoch \notin lapsedNew)
                                   /\ new' = [new EXCEPT ![n].log = Append(@, v)]
  BY DEF WriteNew
<1>2. v \in Nat /\ new[n].log \in Seq(Nat) /\ new \in [TargetNode -> NewRec] /\ truth \in TruthRec
  BY NewFields DEF Types, NewTypes, OtherTypes
<1>3. truth' \in TruthRec /\ truth'.value = IF new[n].epoch \notin lapsedNew THEN v ELSE truth.value
  BY <1>1, <1>2, AcknowledgeIs
<1>4. Append(new[n].log, v) \in Seq(Nat)
  BY <1>2
<1>5. new' = [new EXCEPT ![n].log = Append(new[n].log, v)]
  BY <1>1, <1>2
<1> QED
  BY <1>2, <1>3, <1>4, <1>5

LEMMA ReplicateIs ==
  ASSUME Types, NEW m \in TargetNode, Replicate(m)
  PROVE  LET n == layouts[new[m].view].newLeader
         IN /\ n \in TargetNode /\ new[m].role = "follower" /\ new[n].role = "leader"
            /\ new[n].epoch = new[m].epoch
            /\ NewChanges(m) /\ new'[m].log = new[n].log /\ new'[m].dataEpoch = new[n].epoch
            /\ new'[m].role = "follower" /\ new'[m].epoch = new[m].epoch
            /\ new'[m].view = new[m].view /\ new'[m].sealed = new[m].sealed
            /\ truth' \in TruthRec
            /\ truth'.value = IF Latest.done /\ m = Latest.newLeader /\ new[m].epoch \in lapsedNew
                                THEN ValueOf(new[n].log) ELSE truth.value
<1> DEFINE n == layouts[new[m].view].newLeader
           r == [new[m] EXCEPT !.log = new[n].log, !.dataEpoch = new[n].epoch]
<1>1. new \in [TargetNode -> NewRec] /\ new[m] \in NewRec /\ new[m].view \in Version
  BY DEF Types, NewTypes
<1>2. n \in TargetNode
  BY <1>1, LatestIs, LayoutFields DEF Types
<1>3. /\ new[m].role = "follower" /\ new[n].role = "leader" /\ new[n].epoch = new[m].epoch
      /\ new' = [new EXCEPT ![m].log = new[n].log, ![m].dataEpoch = new[n].epoch]
  BY DEF Replicate
<1>4. new[n].log \in Seq(Nat) /\ new[n].epoch \in Nat
  BY <1>1, <1>2, NewFields
<1>5. new' = [new EXCEPT ![m] = r]
  BY <1>1, <1>3
<1>6. /\ r \in NewRec /\ r.log = new[n].log /\ r.role = new[m].role /\ r.epoch = new[m].epoch
      /\ r.view = new[m].view /\ r.dataEpoch = new[n].epoch /\ r.sealed = new[m].sealed
  BY <1>1, <1>4 DEF NewRec
<1>8. truth \in TruthRec /\ Latest.done \in BOOLEAN
  BY LatestIs, LayoutFields DEF Types, OtherTypes
<1>9. Follow(Latest.done /\ m = Latest.newLeader /\ new[m].epoch \in lapsedNew, new[n].log)
  BY DEF Replicate
<1> HIDE DEF r, n
<1>7. NewChanges(m) /\ new'[m] = r
  BY <1>1, <1>5, <1>6 DEF NewChanges
<1>10. /\ truth' \in TruthRec
       /\ truth'.value = IF Latest.done /\ m = Latest.newLeader /\ new[m].epoch \in lapsedNew
                           THEN ValueOf(new[n].log) ELSE truth.value
  BY <1>4, <1>8, <1>9, FollowIs
<1> QED
  BY <1>2, <1>3, <1>6, <1>7, <1>10 DEF n

----------------------------------------------------------------------------
(* What the actions do to the pulls.                                       *)

PullChanges(p) == pull' \in [Pull -> PullRec] /\ \A x \in Pull \ {p} : pull'[x] = pull[x]

LEMMA PullFields ==
  ASSUME NEW q \in PullRec
  PROVE  /\ q.pc \in Stages /\ q.node \in TargetNode \cup {0} /\ q.tEpoch \in Nat /\ q.sEpoch \in Nat
         /\ q.existing \in BOOLEAN /\ q.seen \in BOOLEAN /\ q.after \in Nat /\ q.ops \in Seq(Nat)
  BY DEF PullRec

LEMMA IdleIs == Idle \in PullRec /\ Idle.pc = "idle"
<1>1. <<>> \in Seq(Nat)
  OBVIOUS
<1> QED
  BY <1>1 DEF Idle, PullRec, Stages

\* The nodes and epochs of a pull are those it was started with.
SamePull(p) ==
  pull'[p].node = pull[p].node /\ pull'[p].tEpoch = pull[p].tEpoch /\ pull'[p].sEpoch = pull[p].sEpoch

LEMMA StartPullIs ==
  ASSUME Types, NEW p \in Pull, StartPull(p)
  PROVE  /\ PullChanges(p) /\ pull'[p].pc = "sent" /\ pull'[p].node = Latest.newLeader
         /\ pull'[p].tEpoch = Latest.newEpoch /\ pull'[p].sEpoch = Latest.oldEpoch
<1> DEFINE r == [Idle EXCEPT !.pc = "sent", !.node = Latest.newLeader,
                             !.tEpoch = Latest.newEpoch, !.sEpoch = Latest.oldEpoch]
<1>1. pull \in [Pull -> PullRec] /\ pull' = [pull EXCEPT ![p] = r]
  BY DEF Types, PullTypes, StartPull
<1>2. Latest.newLeader \in TargetNode /\ Latest.newEpoch \in Nat /\ Latest.oldEpoch \in Nat
  BY LatestIs, LayoutFields DEF Types
<1>3. /\ r \in PullRec /\ r.pc = "sent" /\ r.node = Latest.newLeader /\ r.tEpoch = Latest.newEpoch
      /\ r.sEpoch = Latest.oldEpoch
  BY <1>2, IdleIs DEF PullRec, Stages
<1> HIDE DEF r
<1> QED
  BY <1>1, <1>3 DEF PullChanges

LEMMA IdlePullIs ==
  ASSUME Types, NEW p \in Pull, pull' = [pull EXCEPT ![p] = Idle]
  PROVE  PullChanges(p) /\ pull'[p] = Idle
  BY IdleIs DEF Types, PullTypes, PullChanges

LEMMA ReceivePullIs ==
  ASSUME Types, NEW p \in Pull, ReceivePull(p)
  PROVE  /\ PullChanges(p) /\ SamePull(p) /\ pull[p].pc = "sent" /\ pull'[p].pc = "snapshot"
         /\ pull'[p].existing = (ValueOf(Into(p).log) # 0)
<1> DEFINE r == [pull[p] EXCEPT !.pc = "snapshot", !.existing = (ValueOf(Into(p).log) # 0)]
<1>1. pull \in [Pull -> PullRec] /\ pull[p] \in PullRec
  BY DEF Types, PullTypes
<1>2. pull' = [pull EXCEPT ![p] = r] /\ pull[p].pc = "sent"
  BY <1>1 DEF ReceivePull
<1>3. /\ r \in PullRec /\ r.pc = "snapshot" /\ r.node = pull[p].node /\ r.tEpoch = pull[p].tEpoch
      /\ r.sEpoch = pull[p].sEpoch /\ r.existing = (ValueOf(Into(p).log) # 0)
  BY <1>1 DEF PullRec, Stages
<1> HIDE DEF r
<1> QED
  BY <1>1, <1>2, <1>3 DEF PullChanges, SamePull

LEMMA FetchSnapshotIs ==
  ASSUME Types, NEW p \in Pull, FetchSnapshot(p), Source(p).log \in Seq(Nat)
  PROVE  LET v == ValueOf(Source(p).log)
         IN /\ PullChanges(p) /\ SamePull(p) /\ pull[p].pc = "snapshot" /\ pull'[p].pc = "copy"
            /\ pull'[p].existing = pull[p].existing /\ pull'[p].seen = (v # 0)
            /\ pull'[p].after = Len(Source(p).log)
            /\ pull'[p].ops = IF v # 0 THEN <<v>> ELSE <<>>
<1> DEFINE v == ValueOf(Source(p).log)
           ops == IF v # 0 THEN <<v>> ELSE <<>>
           r == [pull[p] EXCEPT !.pc = "copy", !.seen = (v # 0), !.after = Len(Source(p).log), !.ops = ops]
<1>1. pull \in [Pull -> PullRec] /\ pull[p] \in PullRec
  BY DEF Types, PullTypes
<1>2. pull' = [pull EXCEPT ![p] = r] /\ pull[p].pc = "snapshot"
  BY <1>1 DEF FetchSnapshot
<1>3. v \in Nat /\ Len(Source(p).log) \in Nat
  BY ValueIs
<1>4. ops \in Seq(Nat)
  BY <1>3
<1> HIDE DEF v, ops
<1>5. /\ r \in PullRec /\ r.pc = "copy" /\ r.node = pull[p].node /\ r.tEpoch = pull[p].tEpoch
      /\ r.sEpoch = pull[p].sEpoch /\ r.existing = pull[p].existing /\ r.seen = (v # 0)
      /\ r.after = Len(Source(p).log) /\ r.ops = ops
  BY <1>1, <1>3, <1>4 DEF PullRec, Stages
<1> HIDE DEF r
<1>6. PullChanges(p) /\ pull'[p] = r
  BY <1>1, <1>2, <1>5 DEF PullChanges
<1> QED
  BY <1>2, <1>5, <1>6 DEF SamePull, v, ops

LEMMA ImportIs ==
  ASSUME Types, NEW p \in Pull, pull[p].node \in TargetNode, NEW ops \in Seq(Nat),
         NEW next \in {"stale", "freeze", "answer"}, Import(p, ops, next)
  PROVE  /\ PullChanges(p) /\ SamePull(p) /\ SameTrace(p) /\ pull'[p].pc = next
         /\ pull'[p].existing = (pull[p].existing /\ next = "stale")
         /\ Into(p).role = "leader" /\ Into(p).log \o ops \in Seq(Nat)
         /\ new' = [new EXCEPT ![pull[p].node].log = Into(p).log \o ops]
<1> DEFINE r == [pull[p] EXCEPT !.pc = next, !.ops = <<>>, !.existing = (@ /\ next = "stale")]
<1>1. pull \in [Pull -> PullRec] /\ pull[p] \in PullRec /\ new \in [TargetNode -> NewRec]
  BY DEF Types, PullTypes, NewTypes
<1>2. /\ pull' = [pull EXCEPT ![p] = r] /\ Into(p).role = "leader"
      /\ new' = [new EXCEPT ![pull[p].node].log = Into(p).log \o ops]
  BY <1>1 DEF Import, Into
<1>3. <<>> \in Seq(Nat) /\ (pull[p].existing /\ next = "stale") \in BOOLEAN
  OBVIOUS
<1>4. /\ r \in PullRec /\ r.pc = next /\ r.node = pull[p].node /\ r.tEpoch = pull[p].tEpoch
      /\ r.sEpoch = pull[p].sEpoch /\ r.existing = (pull[p].existing /\ next = "stale")
      /\ r.seen = pull[p].seen /\ r.after = pull[p].after
  BY <1>1, <1>3 DEF PullRec, Stages
<1> HIDE DEF r
<1>5. PullChanges(p) /\ pull'[p] = r
  BY <1>1, <1>2, <1>4 DEF PullChanges
<1>6. Into(p).log \o ops \in Seq(Nat)
  BY <1>1, NewFields DEF Into
<1> QED
  BY <1>2, <1>4, <1>5, <1>6 DEF SamePull, SameTrace

LEMMA FreezeSourceIs ==
  ASSUME Types, NEW p \in Pull, FreezeSource(p), Source(p).log \in Seq(Nat)
  PROVE  /\ PullChanges(p) /\ SamePull(p) /\ SameTrace(p) /\ pull[p].pc = "freeze"
         /\ Source(p).role = "leader" /\ old' = [old EXCEPT ![pull[p].sEpoch].frozen = TRUE]
         /\ \/ /\ pull'[p].pc = "replay"
               /\ pull'[p].ops = SubSeq(Source(p).log, pull[p].after + 1, Len(Source(p).log))
            \/ pull'[p].pc = "fallback"
<1> DEFINE ops == SubSeq(Source(p).log, pull[p].after + 1, Len(Source(p).log))
           r == [pull[p] EXCEPT !.pc = "replay", !.ops = ops]
           f == [pull[p] EXCEPT !.pc = "fallback"]
<1>1. pull \in [Pull -> PullRec] /\ pull[p] \in PullRec
  BY DEF Types, PullTypes
<1>2. /\ pull[p].pc = "freeze" /\ Source(p).role = "leader"
      /\ old' = [old EXCEPT ![pull[p].sEpoch].frozen = TRUE]
      /\ pull' = [pull EXCEPT ![p] = r] \/ pull' = [pull EXCEPT ![p] = f]
  BY <1>1 DEF FreezeSource
<1>3. ops \in Seq(Nat)
  <2>1. pull[p].after + 1 >= 1 /\ pull[p].after \in Nat /\ Len(Source(p).log) \in Nat
    BY <1>1, PullFields
  <2> QED
    BY <2>1
<1> HIDE DEF ops
<1>4. /\ r \in PullRec /\ r.pc = "replay" /\ r.node = pull[p].node /\ r.tEpoch = pull[p].tEpoch
      /\ r.sEpoch = pull[p].sEpoch /\ r.seen = pull[p].seen /\ r.after = pull[p].after /\ r.ops = ops
  BY <1>1, <1>3 DEF PullRec, Stages
<1>5. /\ f \in PullRec /\ f.pc = "fallback" /\ f.node = pull[p].node /\ f.tEpoch = pull[p].tEpoch
      /\ f.sEpoch = pull[p].sEpoch /\ f.seen = pull[p].seen /\ f.after = pull[p].after
  BY <1>1 DEF PullRec, Stages
<1> HIDE DEF r, f
<1>6. PullChanges(p) /\ pull'[p] \in {r, f}
  BY <1>1, <1>2, <1>4, <1>5 DEF PullChanges
<1> QED
  BY <1>2, <1>4, <1>5, <1>6 DEF SamePull, SameTrace, ops

LEMMA FetchFrozenIs ==
  ASSUME Types, NEW p \in Pull, FetchFrozen(p), Source(p).log \in Seq(Nat)
  PROVE  LET v == ValueOf(Source(p).log)
         IN /\ PullChanges(p) /\ SamePull(p) /\ pull[p].pc = "fallback" /\ pull'[p].pc = "replay"
            /\ pull'[p].ops = IF v # 0 \/ pull[p].seen THEN <<v>> ELSE <<>>
<1> DEFINE v == ValueOf(Source(p).log)
           ops == IF v # 0 \/ pull[p].seen THEN <<v>> ELSE <<>>
           r == [pull[p] EXCEPT !.pc = "replay", !.ops = ops]
<1>1. pull \in [Pull -> PullRec] /\ pull[p] \in PullRec
  BY DEF Types, PullTypes
<1>2. pull' = [pull EXCEPT ![p] = r] /\ pull[p].pc = "fallback"
  BY <1>1 DEF FetchFrozen
<1>3. v \in Nat
  BY ValueIs
<1>4. ops \in Seq(Nat)
  BY <1>3
<1> HIDE DEF v, ops
<1>5. /\ r \in PullRec /\ r.pc = "replay" /\ r.node = pull[p].node /\ r.tEpoch = pull[p].tEpoch
      /\ r.sEpoch = pull[p].sEpoch /\ r.ops = ops
  BY <1>1, <1>4 DEF PullRec, Stages
<1> HIDE DEF r
<1>6. PullChanges(p) /\ pull'[p] = r
  BY <1>1, <1>2, <1>5 DEF PullChanges
<1> QED
  BY <1>2, <1>5, <1>6 DEF SamePull, v, ops

----------------------------------------------------------------------------
(* Every step keeps the types and the order of the layouts.                *)

Grown == \A i \in Version : i \in Version' /\ layouts'[i] = layouts[i]

LEMMA GrownPut == ASSUME LayoutTypes, NEW l, PutLayout(l), Follows(l) PROVE Grown /\ LayoutTypes' /\ Latest' = l
  BY PutIs DEF Grown, Follows

\* The steps that write no layout.
Writeless ==
  \/ Apply
  \/ \E e \in OldEpoch : Check(e) \/ WriteOld(e) \/ Refuse(e) \/ FreezeExpires(e) \/ FollowOld(e)
  \/ \E n \in TargetNode : WriteNew(n) \/ Replicate(n)
  \/ PollNew \/ AbandonPull \/ (FinishNewHandoff /\ UNCHANGED layouts)
  \/ \E p \in Pull : \/ StartPull(p) \/ FailPull(p)
                     \/ PullStep(p) /\ ~MarkDone(p)
                     \/ MarkDone(p) /\ UNCHANGED layouts
  \/ UNCHANGED vars

LEMMA WritelessIs == ASSUME Writeless PROVE UNCHANGED layouts /\ (Event \/ UNCHANGED events)
<1>1. CASE Apply
  BY <1>1 DEF Apply, ApplyOld, ApplyNew
<1>2. CASE \E e \in OldEpoch : Check(e) \/ WriteOld(e) \/ Refuse(e) \/ FreezeExpires(e) \/ FollowOld(e)
  BY <1>2 DEF Check, WriteOld, Acknowledge, Refuse, FreezeExpires, FollowOld
<1>3. CASE \E n \in TargetNode : WriteNew(n) \/ Replicate(n)
  BY <1>3 DEF WriteNew, Acknowledge, Replicate
<1>4. CASE PollNew \/ AbandonPull \/ (FinishNewHandoff /\ UNCHANGED layouts)
  BY <1>4 DEF PollNew, AbandonPull, FinishNewHandoff
<1>5. ASSUME NEW p \in Pull, PullStep(p), ~MarkDone(p) PROVE UNCHANGED <<layouts, events>>
  BY <1>5 DEF PullStep, ReceivePull, FetchSnapshot, ImportSnapshot, DeleteStale, FreezeSource,
              FetchFrozen, ImportLog, GiveUp, Import
<1>6. CASE \E p \in Pull : StartPull(p) \/ FailPull(p) \/ (MarkDone(p) /\ UNCHANGED layouts)
  BY <1>6 DEF StartPull, FailPull, MarkDone
<1>7. CASE UNCHANGED vars
  BY <1>7 DEF vars
<1> QED
  BY <1>1, <1>2, <1>3, <1>4, <1>5, <1>6, <1>7 DEF Writeless

LEMMA NextCases ==
  ASSUME [Next]_vars
  PROVE  \/ Writeless
         \/ StartHandoff \/ CancelHandoff
         \/ FinishOldHandoff \/ LapseOld
         \/ FinishNewHandoff /\ \E m \in TargetNode \ {Latest.newLeader} : LeadNew(Latest, m)
         \/ LapseNew
         \/ \E p \in Pull : MarkDone(p) /\ PutLayout([Latest EXCEPT !.done = TRUE])
<1>1. FinishNewHandoff => \/ UNCHANGED layouts
                          \/ \E m \in TargetNode \ {Latest.newLeader} : LeadNew(Latest, m)
  BY DEF FinishNewHandoff
<1>2. \A p \in Pull : MarkDone(p) => \/ UNCHANGED layouts
                                     \/ PutLayout([Latest EXCEPT !.done = TRUE])
  BY DEF MarkDone
<1>3. CASE Next
  BY <1>1, <1>2, <1>3 DEF Next, Writeless
<1>4. CASE UNCHANGED vars
  BY <1>4 DEF Writeless
<1> QED
  BY <1>3, <1>4

LEMMA LayoutStep ==
  ASSUME Types, Order, [Next]_vars
  PROVE  Order' /\ LayoutTypes' /\ Grown
<1>0. LayoutTypes /\ OtherTypes
  BY DEF Types
<1>1. CASE Writeless
  <2>1. UNCHANGED layouts /\ (Event \/ UNCHANGED events)
    BY <1>1, WritelessIs
  <2> QED
    BY <1>0, <2>1, OrderKept DEF LayoutTypes, Grown, Version
<1>2. CASE StartHandoff \/ CancelHandoff
  BY <1>0, <1>2, HandoffPuts, GrownPut DEF HandoffPut
<1>3. CASE FinishOldHandoff \/ LapseOld
  BY <1>0, <1>3, LeadOldPuts, GrownPut DEF LeadOldPut
<1>4. ASSUME NEW m \in TargetNode, LeadNew(Latest, m), Event \/ UNCHANGED events
      PROVE  Order' /\ LayoutTypes' /\ Grown
  BY <1>0, <1>4, LeadNewPuts, GrownPut DEF LeadNewPut
<1>5. CASE FinishNewHandoff /\ \E m \in TargetNode \ {Latest.newLeader} : LeadNew(Latest, m)
  BY <1>4, <1>5 DEF FinishNewHandoff
<1>6. CASE LapseNew
  BY <1>4, <1>6 DEF LapseNew
<1>7. CASE \E p \in Pull : MarkDone(p) /\ PutLayout([Latest EXCEPT !.done = TRUE])
  <2>1. UNCHANGED events
    BY <1>7 DEF MarkDone
  <2> QED
    BY <1>0, <1>7, <2>1, DonePuts, GrownPut DEF DonePut
<1> QED
  BY <1>1, <1>2, <1>3, <1>5, <1>6, <1>7, NextCases

LEMMA Ends ==
  ASSUME Types, NEW p \in Pull, pull[p].pc # "idle"
  PROVE  /\ pull[p].node \in TargetNode /\ pull[p].sEpoch \in OldEpoch
         /\ Source(p) \in OldRec /\ Source(p).log \in Seq(Nat)
         /\ Into(p) \in NewRec /\ Into(p).log \in Seq(Nat)
  BY OldFields, NewFields DEF Types, PullTypes, OldTypes, NewTypes, Source, Into

LEMMA ImportCases ==
  ASSUME Types, NEW p \in Pull, ImportSnapshot(p) \/ DeleteStale(p) \/ ImportLog(p)
  PROVE  /\ pull[p].node \in TargetNode
         /\ \E ops \in Seq(Nat), next \in {"stale", "freeze", "answer"} : Import(p, ops, next)
<1>1. pull[p].pc \in {"copy", "stale", "replay"}
  BY DEF ImportSnapshot, DeleteStale, ImportLog
<1>2. pull[p].node \in TargetNode
  BY <1>1, Ends
<1>3. pull[p] \in PullRec
  BY DEF Types, PullTypes
<1>4. pull[p].ops \in Seq(Nat) /\ <<0>> \in Seq(Nat) /\ <<>> \in Seq(Nat)
  BY <1>3, PullFields
<1>5. (IF pull[p].existing /\ ~pull[p].seen THEN <<0>> ELSE <<>>) \in Seq(Nat)
  BY <1>4
<1> QED
  BY <1>2, <1>4, <1>5 DEF ImportSnapshot, DeleteStale, ImportLog

\* An import appends to the log of the target's replica.
LEMMA ImportNew ==
  ASSUME Types, NEW p \in Pull, ImportSnapshot(p) \/ DeleteStale(p) \/ ImportLog(p)
  PROVE  \E n \in TargetNode, ops \in Seq(Nat) :
           /\ n = pull[p].node /\ new[n].log \o ops \in Seq(Nat)
           /\ new' = [new EXCEPT ![n].log = new[n].log \o ops]
<1>1. pull[p].node \in TargetNode
  BY ImportCases
<1>2. PICK ops \in Seq(Nat), next \in {"stale", "freeze", "answer"} : Import(p, ops, next)
  BY ImportCases
<1>3. /\ Into(p).log \o ops \in Seq(Nat)
      /\ new' = [new EXCEPT ![pull[p].node].log = Into(p).log \o ops]
  BY <1>1, <1>2, ImportIs
<1> QED
  BY <1>1, <1>3 DEF Into

LEMMA OldTypesStep ==
  ASSUME Types, Order, [Next]_vars
  PROVE  OldTypes'
<1>0. /\ old \in [OldEpoch -> OldRec] /\ \A e \in OldEpoch : old[e] \in OldRec /\ old[e].view \in Version
      /\ LayoutTypes /\ LayoutTypes' /\ Grown /\ OtherTypes
  BY LayoutStep DEF Types, OldTypes
<1>1. \A e \in OldEpoch : old[e].view \in Version'
  BY <1>0 DEF Grown
<1>2. 1 \in Version'
  BY <1>0 DEF LayoutTypes, Version
<1>3. CASE UNCHANGED old
  BY <1>0, <1>1, <1>3 DEF OldTypes
<1>4. ASSUME NEW e \in OldEpoch, OldChanges(e), old'[e].view \in Version' PROVE OldTypes'
  BY <1>0, <1>1, <1>4 DEF OldChanges, OldTypes
<1>5. ASSUME NEW e \in OldEpoch, NEW v \in Version, ApplyOld(e, v) PROVE OldTypes'
  <2>1. v \in Version'
    BY <1>0 DEF Grown
  <2>2. old'[e] = NoLeader \/ old'[e].view = v
    BY <1>5, ApplyOldIs
  <2> QED
    BY <1>2, <1>4, <1>5, <2>1, <2>2, ApplyOldIs, NoLeaderIs
<1>6. ASSUME NEW e \in OldEpoch, WriteOld(e) PROVE OldTypes'
  BY <1>1, <1>4, <1>6, WriteOldIs
<1>7. ASSUME NEW e \in OldEpoch, FreezeExpires(e) PROVE OldTypes'
  BY <1>1, <1>4, <1>7, FreezeIs DEF FreezeExpires
<1>8. ASSUME NEW p \in Pull, FreezeSource(p) PROVE OldTypes'
  <2>1. pull[p].sEpoch \in OldEpoch /\ Source(p).log \in Seq(Nat)
    BY <1>8, Ends DEF FreezeSource
  <2>2. old' = [old EXCEPT ![pull[p].sEpoch].frozen = TRUE]
    BY <1>8 DEF FreezeSource
  <2> QED
    BY <1>1, <1>4, <2>1, <2>2, FreezeIs
<1>9. CASE FinishOldHandoff \/ LapseOld
  <2>1. OldLed /\ Len(layouts) \in Version'
    BY <1>0, <1>9, LeadsOldIs, LatestIs DEF Grown
  <2> QED
    BY <1>4, <2>1 DEF OldLed
<1>10. ASSUME NEW e \in OldEpoch, FollowOld(e) PROVE OldTypes'
  BY <1>1, <1>4, <1>10, FollowOldIs
<1> QED
  BY <1>3, <1>5, <1>6, <1>7, <1>8, <1>9, <1>10
  DEF Next, Apply, PullStep, Version, vars, ApplyNew, Check, Refuse, WriteNew, Replicate, StartHandoff,
      CancelHandoff, PollNew, FinishNewHandoff, LapseNew, AbandonPull, StartPull, ReceivePull,
      FetchSnapshot, ImportSnapshot, DeleteStale, FetchFrozen, ImportLog, Import, GiveUp, MarkDone,
      FailPull

LEMMA NewTypesStep ==
  ASSUME Types, Order, [Next]_vars
  PROVE  NewTypes'
<1>0. /\ new \in [TargetNode -> NewRec]
      /\ \A n \in TargetNode : new[n] \in NewRec /\ new[n].view \in Version
      /\ LayoutTypes /\ LayoutTypes' /\ Grown /\ OtherTypes
  BY LayoutStep DEF Types, NewTypes
<1>1. \A n \in TargetNode : new[n].view \in Version'
  BY <1>0 DEF Grown
<1>2. CASE UNCHANGED new
  BY <1>0, <1>1, <1>2 DEF NewTypes
<1>3. ASSUME NEW n \in TargetNode, NewChanges(n), new'[n].view \in Version' PROVE NewTypes'
  BY <1>0, <1>1, <1>3 DEF NewChanges, NewTypes
<1>4. ASSUME NEW n \in TargetNode, NEW v \in Version, ApplyNew(n, v) PROVE NewTypes'
  BY <1>0, <1>3, <1>4, ApplyNewIs DEF Grown
<1>5. ASSUME NEW n \in TargetNode, NEW log \in Seq(Nat), new' = [new EXCEPT ![n].log = log] PROVE NewTypes'
  BY <1>1, <1>3, <1>5, LogIs
<1>6. ASSUME NEW n \in TargetNode, WriteNew(n) PROVE NewTypes'
  BY <1>5, <1>6, WriteNewIs
<1>7. ASSUME NEW n \in TargetNode, Replicate(n) PROVE NewTypes'
  BY <1>1, <1>3, <1>7, ReplicateIs
<1>8. ASSUME NEW p \in Pull, ImportSnapshot(p) \/ DeleteStale(p) \/ ImportLog(p) PROVE NewTypes'
  <2>1. PICK n \in TargetNode, ops \in Seq(Nat) :
          /\ new[n].log \o ops \in Seq(Nat) /\ new' = [new EXCEPT ![n].log = new[n].log \o ops]
    BY <1>8, ImportNew
  <2> QED
    BY <1>5, <2>1
<1> QED
  BY <1>2, <1>4, <1>6, <1>7, <1>8
  DEF Next, Apply, PullStep, Version, vars, ApplyOld, Check, WriteOld, Refuse, StartHandoff,
      CancelHandoff, FinishOldHandoff, LapseOld, LapseNew, PollNew, FinishNewHandoff, AbandonPull, StartPull,
      ReceivePull, FetchSnapshot, FreezeSource, FetchFrozen, GiveUp, MarkDone, FailPull, FreezeExpires,
      FollowOld

LEMMA PullTypesStep ==
  ASSUME Types, [Next]_vars
  PROVE  PullTypes'
<1>0. /\ pull \in [Pull -> PullRec] /\ waiting \in Pull \cup {NoPull} /\ \A p \in Pull : pull[p] \in PullRec
      /\ \A p \in Pull : pull[p].pc # "idle" =>
           pull[p].node \in TargetNode /\ pull[p].sEpoch \in OldEpoch
  BY DEF Types, PullTypes
<1>1. ASSUME NEW p \in Pull, PullChanges(p), waiting' \in {waiting, p, NoPull},
             pull'[p].pc # "idle" => pull'[p].node \in TargetNode /\ pull'[p].sEpoch \in OldEpoch
      PROVE  PullTypes'
  BY <1>0, <1>1 DEF PullTypes, PullChanges
<1>2. CASE UNCHANGED pull /\ waiting' \in {waiting, NoPull}
  BY <1>0, <1>2 DEF PullTypes
<1>3. ASSUME NEW p \in Pull, StartPull(p) PROVE PullTypes'
  <2>1. Latest.newLeader \in TargetNode /\ Latest.oldEpoch \in OldEpoch /\ waiting' = p
    BY <1>3, LatestIs, LayoutFields DEF Types, StartPull
  <2> QED
    BY <1>1, <1>3, <2>1, StartPullIs
<1>4. ASSUME NEW p \in Pull, pull' = [pull EXCEPT ![p] = Idle], waiting' \in {waiting, NoPull}
      PROVE  PullTypes'
  BY <1>1, <1>4, IdlePullIs, IdleIs
<1>5. ASSUME NEW p \in Pull, PullChanges(p), SamePull(p), pull[p].pc # "idle", waiting' = waiting
      PROVE  PullTypes'
  BY <1>0, <1>1, <1>5 DEF SamePull
<1>6. ASSUME NEW p \in Pull, ReceivePull(p) PROVE PullTypes'
  BY <1>5, <1>6, ReceivePullIs DEF ReceivePull
<1>7. ASSUME NEW p \in Pull, FetchSnapshot(p) PROVE PullTypes'
  BY <1>5, <1>7, FetchSnapshotIs, Ends DEF FetchSnapshot
<1>8. ASSUME NEW p \in Pull, FreezeSource(p) PROVE PullTypes'
  BY <1>5, <1>8, FreezeSourceIs, Ends DEF FreezeSource
<1>9. ASSUME NEW p \in Pull, FetchFrozen(p) PROVE PullTypes'
  BY <1>5, <1>9, FetchFrozenIs, Ends DEF FetchFrozen
<1>10. ASSUME NEW p \in Pull, ImportSnapshot(p) \/ DeleteStale(p) \/ ImportLog(p) PROVE PullTypes'
  <2>1. pull[p].pc # "idle" /\ waiting' = waiting
    BY <1>10 DEF ImportSnapshot, DeleteStale, ImportLog, Import
  <2>2. PullChanges(p) /\ SamePull(p)
    BY <1>10, ImportCases, ImportIs
  <2> QED
    BY <1>5, <2>1, <2>2
<1>11. ASSUME NEW p \in Pull, GiveUp(p) \/ FailPull(p) \/ MarkDone(p) PROVE PullTypes'
  BY <1>4, <1>11 DEF GiveUp, FailPull, MarkDone
<1> QED
  BY <1>2, <1>3, <1>6, <1>7, <1>8, <1>9, <1>10, <1>11
  DEF Next, Apply, PullStep, vars, ApplyOld, ApplyNew, Check, WriteOld, Acknowledge, Refuse,
      FreezeExpires, FollowOld, WriteNew, Replicate, StartHandoff, CancelHandoff, FinishOldHandoff,
      LapseOld, LapseNew, PollNew, FinishNewHandoff, AbandonPull

LEMMA NoPollIs == NoPoll \in PollRec /\ NoPoll.version = 0
  BY DEF NoPoll, PollRec

LEMMA PollNewIs ==
  ASSUME Types, PollNew
  PROVE  /\ poll' \in PollRec /\ poll'.version = Latest.newHandoff
         /\ poll'.seq = Len(new[Latest.newLeader].log)
         /\ \A m \in TargetNode : poll'.follower[m] = IF new[m].dataEpoch = Latest.newEpoch
                                                        THEN Len(new[m].log) ELSE -1
<1> DEFINE f == [m \in TargetNode |-> IF new[m].dataEpoch = Latest.newEpoch THEN Len(new[m].log) ELSE -1]
<1>1. Latest.newLeader \in TargetNode /\ Latest.newHandoff \in Nat
  BY LatestIs, LayoutFields DEF Types
<1>2. \A m \in TargetNode : Len(new[m].log) \in Nat
  BY NewFields DEF Types, NewTypes
<1>3. f \in [TargetNode -> Int]
  BY <1>2
<1>4. poll' = [version |-> Latest.newHandoff, seq |-> Len(new[Latest.newLeader].log), follower |-> f]
  BY DEF PollNew
<1>5. \A m \in TargetNode : f[m] = IF new[m].dataEpoch = Latest.newEpoch THEN Len(new[m].log) ELSE -1
  OBVIOUS
<1> HIDE DEF f
<1> QED
  BY <1>1, <1>2, <1>3, <1>4, <1>5 DEF PollRec

\* What a step does to the key's value and to the leases.
LEMMA GhostStep ==
  ASSUME [Next]_vars
  PROVE  \/ UNCHANGED <<truth, lapsedOld, lapsedNew, writes>>
         \/ /\ writes' = writes + 1 /\ UNCHANGED <<lapsedOld, lapsedNew>>
            /\ (\E e \in OldEpoch : WriteOld(e)) \/ (\E n \in TargetNode : WriteNew(n))
         \/ /\ UNCHANGED <<lapsedOld, lapsedNew, writes>>
            /\ (\E e \in OldEpoch : FollowOld(e)) \/ (\E m \in TargetNode : Replicate(m))
         \/ /\ LapseOld /\ lapsedOld' = lapsedOld \cup {Latest.oldEpoch}
            /\ UNCHANGED <<truth, lapsedNew, writes>>
         \/ /\ LapseNew /\ lapsedNew' = lapsedNew \cup {Latest.newEpoch}
            /\ UNCHANGED <<truth, lapsedOld, writes>>
<1> USE DEF ghost, lapsed
<1>1. ASSUME NEW p \in Pull, PullStep(p) PROVE UNCHANGED <<truth, lapsedOld, lapsedNew, writes>>
  BY <1>1 DEF PullStep, ReceivePull, FetchSnapshot, ImportSnapshot, DeleteStale, FreezeSource,
              FetchFrozen, ImportLog, Import, GiveUp, MarkDone
<1>2. ASSUME NEW p \in Pull, StartPull(p) \/ FailPull(p)
      PROVE  UNCHANGED <<truth, lapsedOld, lapsedNew, writes>>
  BY <1>2 DEF StartPull, FailPull
<1>3. ASSUME NEW e \in OldEpoch, Check(e) \/ Refuse(e) \/ FreezeExpires(e)
      PROVE  UNCHANGED <<truth, lapsedOld, lapsedNew, writes>>
  BY <1>3 DEF Check, Refuse, FreezeExpires
<1>4. ASSUME Apply \/ UNCHANGED vars PROVE UNCHANGED <<truth, lapsedOld, lapsedNew, writes>>
  BY <1>4 DEF Apply, vars, ApplyOld, ApplyNew
<1>5. ASSUME StartHandoff \/ CancelHandoff \/ FinishOldHandoff \/ PollNew \/ FinishNewHandoff \/ AbandonPull
      PROVE  UNCHANGED <<truth, lapsedOld, lapsedNew, writes>>
  BY <1>5 DEF StartHandoff, CancelHandoff, FinishOldHandoff, PollNew, FinishNewHandoff, AbandonPull
<1>6. ASSUME (\E e \in OldEpoch : WriteOld(e)) \/ (\E n \in TargetNode : WriteNew(n))
      PROVE  writes' = writes + 1 /\ UNCHANGED <<lapsedOld, lapsedNew>>
  BY <1>6 DEF WriteOld, WriteNew, Acknowledge
<1>7. ASSUME (\E e \in OldEpoch : FollowOld(e)) \/ (\E m \in TargetNode : Replicate(m))
      PROVE  UNCHANGED <<lapsedOld, lapsedNew, writes>>
  BY <1>7 DEF FollowOld, Replicate
<1>8. CASE LapseOld
  BY <1>8 DEF LapseOld
<1>9. CASE LapseNew
  BY <1>9 DEF LapseNew
<1> QED
  BY <1>1, <1>2, <1>3, <1>4, <1>5, <1>6, <1>7, <1>8, <1>9 DEF Next

LEMMA LapsedGrows == ASSUME [Next]_vars PROVE lapsedOld \subseteq lapsedOld' /\ lapsedNew \subseteq lapsedNew'
  BY GhostStep

LEMMA OtherTypesStep ==
  ASSUME Types, Order, [Next]_vars
  PROVE  OtherTypes'
<1>0. OtherTypes
  BY DEF Types
<1>1. checked' \subseteq OldEpoch
  BY <1>0
  DEF OtherTypes, Next, Apply, PullStep, vars, ApplyOld, ApplyNew, Check, WriteOld, Acknowledge, Refuse,
      FreezeExpires, FollowOld, WriteNew, Replicate, StartHandoff, CancelHandoff, FinishOldHandoff, LapseOld,
      PollNew, FinishNewHandoff, AbandonPull, LapseNew, StartPull, ReceivePull, FetchSnapshot,
      ImportSnapshot, DeleteStale, FreezeSource, FetchFrozen, ImportLog, Import, GiveUp, MarkDone, FailPull
<1>2. poll' \in {poll, NoPoll} \/ PollNew
  BY DEF Next, Apply, PullStep, vars, ApplyOld, ApplyNew, Check, WriteOld, Acknowledge, Refuse,
      FreezeExpires, FollowOld, WriteNew, Replicate, StartHandoff, CancelHandoff, FinishOldHandoff, LapseOld,
      FinishNewHandoff, AbandonPull, LapseNew, StartPull, ReceivePull, FetchSnapshot,
      ImportSnapshot, DeleteStale, FreezeSource, FetchFrozen, ImportLog, Import, GiveUp, MarkDone, FailPull
<1>3. poll' \in PollRec
  BY <1>0, <1>2, PollNewIs, NoPollIs DEF OtherTypes
<1>4. truth' \in TruthRec
  <2>1. \A e \in OldEpoch : WriteOld(e) \/ FollowOld(e) => truth' \in TruthRec
    BY WriteOldIs, FollowOldIs
  <2>2. \A n \in TargetNode : WriteNew(n) \/ Replicate(n) => truth' \in TruthRec
    BY WriteNewIs, ReplicateIs
  <2>3. truth \in TruthRec
    BY <1>0 DEF OtherTypes
  <2> QED
    BY <2>1, <2>2, <2>3, GhostStep
<1>5. writes' \in Nat /\ lapsedOld' \subseteq OldEpoch /\ lapsedNew' \subseteq Nat
  <2>1. Latest.oldEpoch \in OldEpoch /\ Latest.newEpoch \in Nat
    BY LatestIs, LayoutFields DEF Types
  <2>2. writes \in Nat /\ lapsedOld \subseteq OldEpoch /\ lapsedNew \subseteq Nat
    BY <1>0 DEF OtherTypes
  <2>3. writes + 1 \in Nat
    BY <2>2
  <2>4. writes' \in {writes, writes + 1}
    BY GhostStep
  <2>5. lapsedOld' \in {lapsedOld, lapsedOld \cup {Latest.oldEpoch}}
    BY GhostStep
  <2>6. lapsedNew' \in {lapsedNew, lapsedNew \cup {Latest.newEpoch}}
    BY GhostStep
  <2> QED
    BY <2>1, <2>2, <2>3, <2>4, <2>5, <2>6
<1>6. events' \in {events, events + 1}
  BY DEF Next, Apply, PullStep, vars, ApplyOld, ApplyNew, Check, WriteOld, Acknowledge, Refuse, Event,
      FreezeExpires, FollowOld, WriteNew, Replicate, StartHandoff, CancelHandoff, FinishOldHandoff, LapseOld,
      PollNew, FinishNewHandoff, AbandonPull, LapseNew, StartPull, ReceivePull, FetchSnapshot,
      ImportSnapshot, DeleteStale, FreezeSource, FetchFrozen, ImportLog, Import, GiveUp, MarkDone, FailPull
<1>7. events' \in Nat
  BY <1>0, <1>6 DEF OtherTypes
<1> QED
  BY <1>1, <1>3, <1>4, <1>5, <1>7 DEF OtherTypes

LEMMA TypesStep ==
  ASSUME Types, Order, [Next]_vars
  PROVE  Types' /\ Order'
  BY LayoutStep, OldTypesStep, NewTypesStep, PullTypesStep, OtherTypesStep DEF Types

LEMMA TypesInit ==
  ASSUME Init
  PROVE  Types /\ Order
<1> DEFINE n == CHOOSE n \in TargetNode : TRUE
           l == [oldEpoch |-> 1, oldHandoff |-> 0, newLeader |-> n, newEpoch |-> 1, newHandoff |-> 0,
                 done |-> FALSE]
<1>0. n \in TargetNode /\ 1 \in OldEpoch
  BY TargetAssumption, MigrationBounds DEF OldEpoch
<1>1. PICK log \in {<<>>, <<1>>} :
        /\ layouts = <<l>>
        /\ old = [e \in OldEpoch |->
                    IF e = 1 THEN [NoLeader EXCEPT !.role = "leader", !.log = log] ELSE NoLeader]
        /\ new = [m \in TargetNode |-> [role |-> IF m = n THEN "leader" ELSE "follower", epoch |-> 1,
                                        dataEpoch |-> IF m = n THEN 1 ELSE 0,
                                        log |-> <<>>, sealed |-> FALSE, view |-> 1]]
        /\ checked = {} /\ poll = NoPoll /\ pull = [p \in Pull |-> Idle] /\ waiting = NoPull
        /\ truth = [value |-> ValueOf(log), side |-> "old"] /\ lapsedOld = {} /\ lapsedNew = {}
        /\ writes = 1 /\ events = 0
  BY Zenon DEF Init
<1>2. l \in LayoutRec /\ l.oldEpoch = 1 /\ l.oldHandoff = 0 /\ l.newHandoff = 0
  BY <1>0 DEF LayoutRec
<1> HIDE DEF l
<1>3. /\ LayoutTypes /\ Len(layouts) = 1 /\ Latest = l /\ Version = {1} /\ layouts[1] = l
  BY <1>1, <1>2 DEF LayoutTypes, Latest, Last, Version
<1>4. log \in Seq(Nat)
  <2>1. <<>> \in Seq(Nat) /\ <<1>> \in Seq(Nat)
    OBVIOUS
  <2>2. log = <<>> \/ log = <<1>>
    OBVIOUS
  <2> QED
    BY <2>1, <2>2, Zenon
<1>5. OldTypes
  <2> DEFINE r == [NoLeader EXCEPT !.role = "leader", !.log = log]
  <2>1. r \in OldRec /\ r.view = 1
    BY <1>4, NoLeaderIs DEF OldRec
  <2> HIDE DEF r
  <2>2. old = [e \in OldEpoch |-> IF e = 1 THEN r ELSE NoLeader]
    BY <1>1 DEF r
  <2> QED
    BY <1>3, <2>1, <2>2, NoLeaderIs DEF OldTypes
<1>6. NewTypes
  <2>1. <<>> \in Seq(Nat)
    OBVIOUS
  <2>2. \A m \in TargetNode : new[m] \in NewRec /\ new[m].view = 1
    BY <1>1, <2>1 DEF NewRec
  <2>3. new \in [TargetNode -> NewRec]
    BY <1>1, <2>2
  <2> QED
    BY <1>3, <2>2, <2>3 DEF NewTypes
<1>7. PullTypes
  BY <1>1, IdleIs DEF PullTypes
<1>8. OtherTypes
  <2>1. truth \in TruthRec
    BY <1>1, <1>4, ValueIs DEF TruthRec
  <2> QED
    BY <1>1, <2>1, NoPollIs DEF OtherTypes
<1>9. Order
  <2>1. \A i, j \in Version : Precedes(layouts[i], layouts[j])
    BY <1>2, <1>3, PrecedesItself
  <2>2. EventsSuffice
    BY <1>1, <1>2, <1>3, MigrationBounds DEF EventsSuffice
  <2> QED
    BY <1>2, <1>3, <2>1, <2>2 DEF Order, OldHandoffLasts, NewHandoffLasts
<1> QED
  BY <1>3, <1>5, <1>6, <1>7, <1>8, <1>9 DEF Types

----------------------------------------------------------------------------
(* The source keeps its invariant.                                         *)

LEMMA Later ==
  ASSUME Types, Order, Types', Order', Grown
  PROVE  /\ Precedes(Latest, Latest') /\ Len(layouts) \in Version
         /\ \A i \in Version' : i \notin Version => i > Len(layouts) /\ Precedes(Latest, layouts'[i])
         /\ Latest.oldEpoch \in Nat /\ Latest'.oldEpoch \in Nat
         /\ Latest.newEpoch \in Nat /\ Latest'.newEpoch \in Nat
         /\ \A i \in Version' : layouts'[i].oldEpoch \in Nat /\ layouts'[i].newEpoch \in Nat
<1>1. /\ LayoutTypes /\ LayoutTypes'
      /\ \A i, j \in Version' : i <= j => Precedes(layouts'[i], layouts'[j])
  BY DEF Types, Order
<1>2. Len(layouts) \in Nat /\ Len(layouts) \in Version /\ Latest = layouts[Len(layouts)] /\ Latest \in LayoutRec
  BY <1>1, LatestIs
<1>3. /\ Len(layouts') \in Nat /\ Len(layouts') \in Version' /\ Latest' = layouts'[Len(layouts')]
      /\ Latest' \in LayoutRec /\ \A i \in Version' : layouts'[i] \in LayoutRec
  BY <1>1, LatestIs DEF LayoutTypes, Version, Latest, Last
<1>4. Len(layouts) \in Version' /\ layouts'[Len(layouts)] = Latest
  BY <1>2 DEF Grown
<1>5. Len(layouts) <= Len(layouts')
  BY <1>2, <1>3, <1>4 DEF Version
<1>6. \A i \in Version' : i \notin Version => i > Len(layouts) /\ i \in Nat
  BY <1>2 DEF Version
<1>7. \A i \in Version' : i \notin Version => Precedes(Latest, layouts'[i])
  BY <1>1, <1>2, <1>4, <1>6
<1> QED
  BY <1>1, <1>2, <1>3, <1>4, <1>5, <1>6, <1>7, LayoutFields

\* Nothing happens to the leader of epoch e.
LEMMA OldFrame ==
  ASSUME Types, Order, Types', Order', Grown, NEW e \in OldEpoch, OldOf(e), old'[e] = old[e],
         e \in checked' => e \in checked, lapsedOld \subseteq lapsedOld',
         Latest'.oldEpoch = Latest.oldEpoch \/ e # Latest.oldEpoch \/ e \in lapsedOld'
  PROVE  OldOf(e)'
<1>1. /\ Latest.oldEpoch \in Nat /\ Latest'.oldEpoch \in Nat /\ Latest.oldEpoch <= Latest'.oldEpoch
      /\ e \in Nat
  BY Later DEF Precedes, OldEpoch
<1>2. old[e].view \in Version /\ layouts'[old[e].view] = layouts[old[e].view]
  BY DEF Types, OldTypes, Grown
<1>3. Deposed(e)'
  <2> SUFFICES ASSUME old[e].role = "leader", e < Latest'.oldEpoch, e \notin lapsedOld',
                      NEW i \in Version', i >= old[e].view, layouts'[i].oldEpoch <= e
               PROVE  layouts'[i].oldHandoff # 0
    BY DEF Deposed
  <2>1. e < Latest.oldEpoch
    BY <1>1 DEF OldOf
  <2>2. i \in Version
    BY <1>1, <2>1, Later DEF Precedes
  <2>3. layouts'[i] = layouts[i]
    BY <2>2 DEF Grown
  <2> QED
    BY <2>1, <2>2, <2>3 DEF OldOf, Deposed
<1>4. /\ e > Latest'.oldEpoch => old[e].role = "none"
      /\ old[e].role = "follower" => e \in lapsedOld' \cup {Latest'.oldEpoch} /\ e \notin checked
      /\ e \in checked => e <= Latest'.oldEpoch
  BY <1>1 DEF OldOf
<1> QED
  BY <1>2, <1>3, <1>4 DEF OldOf

LEMMA ApplyOldOld ==
  ASSUME Types, Order, Types', Old, NEW e \in OldEpoch, NEW v \in Version, ApplyOld(e, v)
  PROVE  OldOf(e)'
<1>1. OldOf(e) /\ UNCHANGED <<layouts, checked, lapsedOld>>
  BY DEF Old, ApplyOld, ghost, lapsed
<1>2. /\ Latest' = Latest /\ Version' = Version /\ Latest.oldEpoch \in Nat /\ e \in Nat /\ v \in Nat
      /\ layouts[v].oldEpoch \in Nat /\ old[e].view \in Nat
  BY <1>1, LatestIs, LayoutFields DEF Latest, Version, Types, OldEpoch, OldTypes
<1>3. CASE layouts[v].oldEpoch > e
  <2>1. old'[e] = NoLeader
    BY <1>3, ApplyOldIs
  <2> QED
    BY <1>1, <1>2, <2>1, NoLeaderIs DEF OldOf, Deposed
<1>4. CASE ~(layouts[v].oldEpoch > e)
  <2>1. /\ old'[e].role = "leader" /\ old'[e].view = v /\ v > old[e].view
        /\ old'[e].sealed = (layouts[v].oldHandoff # 0) /\ old[e].role \in {"follower", "leader"}
    BY <1>4, ApplyOldIs
  <2>2. e <= Latest.oldEpoch
    BY <1>1, <1>2, <2>1 DEF OldOf
  <2>3. Deposed(e)'
    <3> SUFFICES ASSUME e < Latest.oldEpoch, e \notin lapsedOld, NEW i \in Version, i >= v, layouts[i].oldEpoch <= e
                 PROVE  layouts[i].oldHandoff # 0
      BY <1>1, <1>2, <2>1 DEF Deposed
    <3>1. old[e].role = "leader"
      BY <1>1, <1>2, <2>1 DEF OldOf
    <3>2. i >= old[e].view
      BY <1>2, <2>1 DEF Version
    <3> QED
      BY <1>1, <3>1, <3>2 DEF OldOf, Deposed
  <2> QED
    BY <1>1, <1>2, <1>4, <2>1, <2>2, <2>3 DEF OldOf
<1> QED
  BY <1>3, <1>4

\* Only the log, the freeze or the checks change.
LEMMA OldTouched ==
  ASSUME Types, Order, Old, NEW e \in OldEpoch, UNCHANGED <<layouts, lapsedOld>>, old[e].role = "leader",
         old'[e].role = "leader", old'[e].view = old[e].view, old'[e].sealed = old[e].sealed
  PROVE  OldOf(e)'
<1>1. OldOf(e) /\ Latest' = Latest /\ Version' = Version /\ Latest.oldEpoch \in Nat /\ e \in Nat
  BY LatestIs, LayoutFields DEF Old, Latest, Version, Types, OldEpoch
<1>2. e <= Latest.oldEpoch
  BY <1>1 DEF OldOf
<1> QED
  BY <1>1, <1>2 DEF OldOf, Deposed

LEMMA LeadOldOld ==
  ASSUME Types, Order, Types', Order', Old, FinishOldHandoff \/ LapseOld
  PROVE  Old'
<1>0. PICK e \in OldEpoch : e = Latest.oldEpoch
  BY LatestIs, LayoutFields DEF Types
<1>1. /\ e \in OldEpoch /\ e \in Nat /\ e + 1 \in OldEpoch /\ Latest'.oldEpoch = e + 1 /\ Grown
      /\ Len(layouts) \in Nat /\ Len(layouts) + 1 \in Version' /\ layouts'[Len(layouts) + 1].oldEpoch = e + 1
      /\ Len(layouts) \in Version
      /\ \A i \in Version' : i \in Version \/ i = Len(layouts) + 1
  <2>1. LayoutTypes /\ OtherTypes
    BY DEF Types
  <2> DEFINE l == [Latest EXCEPT !.oldEpoch = @ + 1, !.oldHandoff = 0]
  <2>2. LeadOldPut(l)
    BY <2>1, LeadOldPuts
  <2> HIDE DEF l
  <2>3. /\ l \in LayoutRec /\ PutLayout(l) /\ l.oldEpoch = e + 1 /\ e + 1 \in OldEpoch /\ Follows(l)
    BY <1>0, <2>2 DEF LeadOldPut, Follows
  <2>4. /\ Len(layouts') = Len(layouts) + 1 /\ Latest' = l
        /\ \A i \in Version' : i \in Version \/ i = Len(layouts) + 1
        /\ layouts'[Len(layouts) + 1] = l
    BY <2>1, <2>3, PutIs
  <2>5. Grown /\ e \in OldEpoch /\ e \in Nat /\ Len(layouts) \in Nat /\ Len(layouts) \in Version
    BY <1>0, <2>1, <2>3, GrownPut, LatestIs, LayoutFields
  <2> QED
    BY <2>3, <2>4, <2>5 DEF Version
<1>2. OldLed /\ lapsedOld \subseteq lapsedOld' /\ UNCHANGED checked
  BY LeadsOldIs DEF FinishOldHandoff, LapseOld, ghost, lapsed
<1>3. \A x \in OldEpoch : x # e + 1 => old'[x] = old[x]
  BY <1>0, <1>2 DEF OldLed, OldChanges
<1>4. \A x \in OldEpoch : OldOf(x)
  BY DEF Old
<1>5. ASSUME NEW x \in OldEpoch, x # e, x # e + 1 PROVE OldOf(x)'
  BY <1>0, <1>1, <1>2, <1>3, <1>4, <1>5, OldFrame
<1>6. OldOf(e + 1)'
  <2>1. /\ old'[e + 1].role = "follower" /\ ~old'[e + 1].frozen /\ ~old'[e + 1].sealed
    BY <1>0, <1>2 DEF OldLed
  <2>2. e + 1 \notin checked
    BY <1>0, <1>1, <1>4 DEF OldOf
  <2> QED
    BY <1>1, <1>2, <2>1, <2>2 DEF OldOf, Deposed
<1>7. OldOf(e)'
  <2>1. CASE LapseOld
    <3>1. old'[e] = old[e] /\ e \in lapsedOld'
      BY <1>0, <1>1, <1>3, <2>1 DEF LapseOld
    <3> QED
      BY <1>1, <1>2, <1>4, <3>1, OldFrame
  <2>2. CASE FinishOldHandoff
    <3>1. old'[e] = old[e]
      BY <1>1, <1>3
    <3>2. /\ Latest.oldHandoff # 0 /\ old[e].sealed /\ old[e].view >= Latest.oldHandoff
          /\ old[e].view \in Version /\ Latest.oldHandoff \in Nat
      BY <1>0, <1>1, <2>2, LatestIs, LayoutFields DEF FinishOldHandoff, Types, OldTypes
    <3>3. old[e].role = "leader"
      BY <1>1, <1>4, <3>2 DEF OldOf
    <3>4. Deposed(e)'
      <4> SUFFICES ASSUME NEW i \in Version', i >= old[e].view, layouts'[i].oldEpoch <= e
                   PROVE  layouts'[i].oldHandoff # 0
        BY <3>1 DEF Deposed
      <4>1. i \in Version
        BY <1>1
      <4>2. layouts'[i] = layouts[i] /\ i >= Latest.oldHandoff
        BY <1>1, <3>2, <4>1 DEF Grown, Version
      <4> QED
        BY <1>0, <3>2, <4>1, <4>2 DEF Order, OldHandoffLasts
    <3>5. layouts'[old[e].view] = layouts[old[e].view]
      BY <1>1, <3>2 DEF Grown
    <3> QED
      BY <1>1, <1>2, <1>4, <3>1, <3>3, <3>4, <3>5 DEF OldOf
  <2> QED
    BY <2>1, <2>2
<1> QED
  BY <1>5, <1>6, <1>7 DEF Old

\* What a step changes in the latest layout.
LEMMA LatestStep ==
  ASSUME Types, Order, [Next]_vars
  PROVE  /\ Latest'.oldEpoch = Latest.oldEpoch \/ FinishOldHandoff \/ LapseOld
         /\ \/ Latest'.newEpoch = Latest.newEpoch /\ Latest'.newLeader = Latest.newLeader
            \/ FinishNewHandoff \/ LapseNew
         /\ \/ Latest'.done = Latest.done
            \/ \E p \in Pull : MarkDone(p) /\ SameLeaders(p) /\ Latest'.oldEpoch = Latest.oldEpoch
                               /\ Latest'.newEpoch = Latest.newEpoch /\ Latest'.newLeader = Latest.newLeader
<1>0. LayoutTypes /\ OtherTypes
  BY DEF Types
<1>1. CASE Writeless
  BY <1>1, WritelessIs DEF Latest
<1>2. CASE StartHandoff \/ CancelHandoff
  BY <1>0, <1>2, HandoffPuts, GrownPut DEF HandoffPut, SameOld, SameNew
<1>3. CASE FinishOldHandoff \/ LapseOld
  BY <1>0, <1>3, LeadOldPuts, GrownPut DEF LeadOldPut, SameNew
<1>4. ASSUME NEW m \in TargetNode, LeadNew(Latest, m), Event \/ UNCHANGED events
      PROVE  Latest'.oldEpoch = Latest.oldEpoch /\ Latest'.done = Latest.done
  BY <1>0, <1>4, LeadNewPuts, GrownPut DEF LeadNewPut, SameOld
<1>5. CASE FinishNewHandoff /\ \E m \in TargetNode \ {Latest.newLeader} : LeadNew(Latest, m)
  BY <1>4, <1>5 DEF FinishNewHandoff
<1>6. CASE LapseNew
  BY <1>4, <1>6 DEF LapseNew
<1>7. ASSUME NEW p \in Pull, MarkDone(p), PutLayout([Latest EXCEPT !.done = TRUE])
      PROVE  /\ Latest'.oldEpoch = Latest.oldEpoch /\ Latest'.newEpoch = Latest.newEpoch
             /\ Latest'.newLeader = Latest.newLeader
             /\ Latest'.done = Latest.done \/ SameLeaders(p)
  <2>1. PICK l : DonePut(l)
    BY <1>0, <1>7, DonePuts DEF MarkDone
  <2>2. Latest' = l /\ SameOld(l) /\ SameNew(l)
    BY <1>0, <2>1, GrownPut DEF DonePut
  <2>3. SameLeaders(p) \/ UNCHANGED layouts
    BY <1>7 DEF MarkDone
  <2> QED
    BY <2>2, <2>3 DEF SameOld, SameNew, Latest
<1> QED
  BY <1>1, <1>2, <1>3, <1>5, <1>6, <1>7, NextCases

LEMMA OldStep ==
  ASSUME Types, Order, Types', Order', Old, [Next]_vars
  PROVE  Old'
<1>0. Grown /\ lapsedOld \subseteq lapsedOld' /\ \A e \in OldEpoch : OldOf(e)
  BY LayoutStep, LapsedGrows DEF Old
<1>1. ASSUME UNCHANGED old, checked' \subseteq checked, Latest'.oldEpoch = Latest.oldEpoch
      PROVE  Old'
  BY <1>0, <1>1, OldFrame DEF Old
<1>2. ASSUME NEW e \in OldEpoch, OldChanges(e), UNCHANGED layouts, checked' \subseteq checked, OldOf(e)'
      PROVE  Old'
  <2> SUFFICES ASSUME NEW x \in OldEpoch, x # e PROVE OldOf(x)'
    BY <1>2 DEF Old
  <2>1. old'[x] = old[x] /\ Latest' = Latest
    BY <1>2 DEF OldChanges, Latest
  <2> QED
    BY <1>0, <1>2, <2>1, OldFrame
<1>3. ASSUME NEW e \in OldEpoch, NEW v \in Version, ApplyOld(e, v) PROVE Old'
  BY <1>2, <1>3, ApplyOldIs, ApplyOldOld DEF ApplyOld
<1>4. ASSUME NEW e \in OldEpoch, Check(e) PROVE Old'
  <2>1. /\ UNCHANGED <<layouts, old, lapsedOld>> /\ Latest' = Latest /\ old[e].role = "leader"
        /\ checked' = checked \cup {e}
    BY <1>4 DEF Check, TargetOld, Latest, ghost, lapsed
  <2>2. OldOf(e)'
    BY <2>1, OldTouched
  <2>3. ASSUME NEW x \in OldEpoch, x # e PROVE OldOf(x)'
    BY <1>0, <2>1, <2>3, OldFrame
  <2> QED
    BY <2>2, <2>3 DEF Old
<1>5. ASSUME NEW e \in OldEpoch, WriteOld(e) PROVE Old'
  <2>1. UNCHANGED <<layouts, lapsedOld>>
    BY <1>5 DEF WriteOld, Acknowledge, lapsed
  <2>2. OldOf(e)'
    BY <1>5, <2>1, WriteOldIs, OldTouched DEF TakesOld
  <2> QED
    BY <1>2, <1>5, <2>1, <2>2, WriteOldIs
<1>6. ASSUME NEW e \in OldEpoch, FreezeExpires(e) PROVE Old'
  <2>1. UNCHANGED <<layouts, checked, lapsedOld>> /\ old' = [old EXCEPT ![e].frozen = FALSE] /\ old[e].frozen
    BY <1>6 DEF FreezeExpires, ghost, lapsed
  <2>2. old[e].role = "leader"
    BY <1>0, <2>1 DEF OldOf
  <2>3. OldOf(e)'
    BY <2>1, <2>2, FreezeIs, OldTouched
  <2> QED
    BY <1>2, <2>1, <2>3, FreezeIs
<1>7. ASSUME NEW p \in Pull, FreezeSource(p) PROVE Old'
  <2>1. PICK e \in OldEpoch : e = pull[p].sEpoch
    BY <1>7, Ends DEF FreezeSource
  <2>2. /\ UNCHANGED <<layouts, checked, lapsedOld>> /\ old' = [old EXCEPT ![e].frozen = TRUE]
        /\ old[e].role = "leader"
    BY <1>7, <2>1 DEF FreezeSource, Source, ghost, lapsed
  <2>3. OldOf(e)'
    BY <2>2, FreezeIs, OldTouched
  <2> QED
    BY <1>2, <2>2, <2>3, FreezeIs
<1>8. CASE FinishOldHandoff \/ LapseOld
  BY <1>8, LeadOldOld
<1>10. ASSUME NEW e \in OldEpoch, FollowOld(e) PROVE Old'
  <2>1. UNCHANGED <<layouts, checked, lapsedOld>> /\ Latest' = Latest /\ Version' = Version
    BY <1>10 DEF FollowOld, lapsed, Latest, Version
  <2>2. /\ OldChanges(e) /\ old[e].role = "follower" /\ old'[e].role = "follower"
        /\ old'[e].frozen = old[e].frozen /\ old'[e].sealed = old[e].sealed
    BY <1>10, FollowOldIs
  <2>3. OldOf(e)'
    BY <1>0, <2>1, <2>2 DEF OldOf, Deposed
  <2> QED
    BY <1>2, <2>1, <2>2, <2>3
<1>9. CASE Latest'.oldEpoch = Latest.oldEpoch
  BY <1>1, <1>3, <1>4, <1>5, <1>6, <1>7, <1>8, <1>9, <1>10
  DEF Next, Apply, PullStep, Version, vars, ApplyNew, Refuse, WriteNew, Replicate, StartHandoff,
      CancelHandoff, PollNew, FinishNewHandoff, LapseNew, AbandonPull, StartPull, ReceivePull,
      FetchSnapshot, ImportSnapshot, DeleteStale, FetchFrozen, ImportLog, Import, GiveUp, MarkDone,
      FailPull
<1> QED
  BY <1>8, <1>9, LatestStep

----------------------------------------------------------------------------
(* The freeze of the source lasts for as long as it is needed.             *)

\* A pull that runs was started, or is the one that ran before.
LEMMA PullOrigin ==
  ASSUME Types, [Next]_vars, NEW p \in Pull, pull'[p].pc # "idle"
  PROVE  StartPull(p) \/ (pull[p].pc # "idle" /\ SamePull(p))
<1>1. ASSUME NEW x \in Pull, PullChanges(x), x # p PROVE pull[p].pc # "idle" /\ SamePull(p)
  BY <1>1 DEF PullChanges, SamePull
<1>2. CASE UNCHANGED pull
  BY <1>2 DEF SamePull
<1>3. ASSUME NEW x \in Pull, StartPull(x) PROVE StartPull(p) \/ (pull[p].pc # "idle" /\ SamePull(p))
  BY <1>1, <1>3, StartPullIs
<1>4. ASSUME NEW x \in Pull, pull' = [pull EXCEPT ![x] = Idle] PROVE pull[p].pc # "idle" /\ SamePull(p)
  BY <1>1, <1>4, IdlePullIs, IdleIs
<1>5. ASSUME NEW x \in Pull, PullChanges(x), SamePull(x), pull[x].pc # "idle"
      PROVE  pull[p].pc # "idle" /\ SamePull(p)
  BY <1>1, <1>5
<1>6. ASSUME NEW x \in Pull, ReceivePull(x) PROVE pull[p].pc # "idle" /\ SamePull(p)
  BY <1>5, <1>6, ReceivePullIs DEF ReceivePull
<1>7. ASSUME NEW x \in Pull, FetchSnapshot(x) PROVE pull[p].pc # "idle" /\ SamePull(p)
  BY <1>5, <1>7, FetchSnapshotIs, Ends DEF FetchSnapshot
<1>8. ASSUME NEW x \in Pull, FreezeSource(x) PROVE pull[p].pc # "idle" /\ SamePull(p)
  BY <1>5, <1>8, FreezeSourceIs, Ends DEF FreezeSource
<1>9. ASSUME NEW x \in Pull, FetchFrozen(x) PROVE pull[p].pc # "idle" /\ SamePull(p)
  BY <1>5, <1>9, FetchFrozenIs, Ends DEF FetchFrozen
<1>10. ASSUME NEW x \in Pull, ImportSnapshot(x) \/ DeleteStale(x) \/ ImportLog(x)
       PROVE  pull[p].pc # "idle" /\ SamePull(p)
  <2>1. pull[x].pc # "idle"
    BY <1>10 DEF ImportSnapshot, DeleteStale, ImportLog
  <2>2. PullChanges(x) /\ SamePull(x)
    BY <1>10, ImportCases, ImportIs
  <2> QED
    BY <1>5, <2>1, <2>2
<1>11. ASSUME NEW x \in Pull, GiveUp(x) \/ FailPull(x) \/ MarkDone(x)
       PROVE  pull[p].pc # "idle" /\ SamePull(p)
  BY <1>4, <1>11 DEF GiveUp, FailPull, MarkDone
<1> QED
  BY <1>2, <1>3, <1>6, <1>7, <1>8, <1>9, <1>10, <1>11
  DEF Next, Apply, PullStep, vars, ApplyOld, ApplyNew, Check, WriteOld, Acknowledge, Refuse,
      FreezeExpires, FollowOld, WriteNew, Replicate, StartHandoff, CancelHandoff, FinishOldHandoff,
      LapseOld, LapseNew, PollNew, FinishNewHandoff, AbandonPull

LEMMA AskedStep ==
  ASSUME Types, Order, Types', Order', Asked, [Next]_vars
  PROVE  Asked'
<1> SUFFICES ASSUME NEW p \in Pull, pull'[p].pc # "idle"
             PROVE  pull'[p].sEpoch <= Latest'.oldEpoch /\ pull'[p].tEpoch <= Latest'.newEpoch
  BY DEF Asked
<1>1. /\ Latest.oldEpoch <= Latest'.oldEpoch /\ Latest.newEpoch <= Latest'.newEpoch
      /\ Latest.oldEpoch \in Nat /\ Latest'.oldEpoch \in Nat
      /\ Latest.newEpoch \in Nat /\ Latest'.newEpoch \in Nat
  BY LayoutStep, Later DEF Precedes
<1>2. pull[p].sEpoch \in Nat /\ pull[p].tEpoch \in Nat
  BY PullFields DEF Types, PullTypes
<1>3. CASE StartPull(p)
  BY <1>1, <1>3, StartPullIs
<1>4. CASE pull[p].pc # "idle" /\ SamePull(p)
  BY <1>1, <1>2, <1>4 DEF Asked, SamePull
<1> QED
  BY <1>3, <1>4, PullOrigin

\* A pull that relies on the freeze of its source.
Relies(p) == pull[p].pc \in {"fallback", "replay", "answer"}

LEMMA ReliesOrigin ==
  ASSUME Types, [Next]_vars, waiting' # NoPull, waiting' \in Pull, Relies(waiting)'
  PROVE  waiting' = waiting /\ (Relies(waiting) \/ FreezeSource(waiting))
<1>1. CASE UNCHANGED pull /\ waiting' \in {waiting, NoPull}
  BY <1>1 DEF Relies
<1>2. ASSUME NEW x \in Pull, PullChanges(x), waiting' \in {waiting, NoPull}, ~Relies(x)' \/ Relies(x)
      PROVE  waiting' = waiting /\ Relies(waiting)
  BY <1>2 DEF PullChanges, Relies
<1>3. ASSUME NEW x \in Pull, StartPull(x) PROVE FALSE
  BY <1>3, StartPullIs DEF StartPull, Relies
<1>4. ASSUME NEW x \in Pull, ReceivePull(x) PROVE waiting' = waiting /\ Relies(waiting)
  BY <1>2, <1>4, ReceivePullIs DEF ReceivePull, Relies
<1>5. ASSUME NEW x \in Pull, FetchSnapshot(x) PROVE waiting' = waiting /\ Relies(waiting)
  BY <1>2, <1>5, FetchSnapshotIs, Ends DEF FetchSnapshot, Relies
<1>6. ASSUME NEW x \in Pull, FreezeSource(x)
      PROVE  waiting' = waiting /\ (Relies(waiting) \/ FreezeSource(waiting))
  <2>1. PullChanges(x) /\ waiting' = waiting
    BY <1>6, FreezeSourceIs, Ends DEF FreezeSource
  <2> QED
    BY <1>6, <2>1 DEF PullChanges, Relies
<1>7. ASSUME NEW x \in Pull, FetchFrozen(x) PROVE waiting' = waiting /\ Relies(waiting)
  BY <1>2, <1>7, FetchFrozenIs, Ends DEF FetchFrozen, Relies
<1>8. ASSUME NEW x \in Pull, ImportSnapshot(x) \/ DeleteStale(x) PROVE waiting' = waiting /\ Relies(waiting)
  <2>1. PICK ops \in Seq(Nat), next \in {"stale", "freeze"} : Import(x, ops, next)
    <3>1. pull[x].pc # "idle" /\ pull[x].ops \in Seq(Nat) /\ <<0>> \in Seq(Nat) /\ <<>> \in Seq(Nat)
      BY <1>8, PullFields DEF ImportSnapshot, DeleteStale, Types, PullTypes
    <3>2. (IF pull[x].existing /\ ~pull[x].seen THEN <<0>> ELSE <<>>) \in Seq(Nat)
      BY <3>1
    <3> QED
      BY <1>8, <3>1, <3>2 DEF ImportSnapshot, DeleteStale
  <2>2. pull[x].node \in TargetNode /\ next \in {"stale", "freeze", "answer"}
    BY <1>8, ImportCases
  <2>3. PullChanges(x) /\ pull'[x].pc = next
    BY <2>1, <2>2, ImportIs
  <2> QED
    BY <1>2, <2>1, <2>3 DEF Import, Relies
<1>9. ASSUME NEW x \in Pull, ImportLog(x) PROVE waiting' = waiting /\ Relies(waiting)
  <2>1. PullChanges(x)
    BY <1>9, ImportCases, ImportIs
  <2>2. Relies(x) /\ waiting' = waiting
    BY <1>9 DEF ImportLog, Relies, Import
  <2> QED
    BY <1>2, <2>1, <2>2
<1>10. ASSUME NEW x \in Pull, GiveUp(x) \/ FailPull(x) \/ MarkDone(x)
       PROVE  waiting' = waiting /\ Relies(waiting)
  <2>1. pull' = [pull EXCEPT ![x] = Idle] /\ waiting' \in {waiting, NoPull}
    BY <1>10 DEF GiveUp, FailPull, MarkDone
  <2>2. PullChanges(x) /\ ~Relies(x)'
    BY <2>1, IdlePullIs, IdleIs DEF Relies
  <2> QED
    BY <1>2, <2>1, <2>2
<1> QED
  BY <1>1, <1>3, <1>4, <1>5, <1>6, <1>7, <1>8, <1>9, <1>10
  DEF Next, Apply, PullStep, vars, ApplyOld, ApplyNew, Check, WriteOld, Acknowledge, Refuse,
      FreezeExpires, FollowOld, WriteNew, Replicate, StartHandoff, CancelHandoff, FinishOldHandoff,
      LapseOld, LapseNew, PollNew, FinishNewHandoff, AbandonPull

\* The freeze of the latest leader stays while it is needed.
LEMMA FreezeStays ==
  ASSUME Types, Order, Old, FreezeOutlasts, [Next]_vars, NEW e \in OldEpoch, e = Latest.oldEpoch,
         e = Latest'.oldEpoch, old[e].role = "leader", old[e].frozen, FreezeNeeded(e)
  PROVE  old'[e].role = "leader" /\ old'[e].frozen
<1>1. CASE UNCHANGED old
  BY <1>1
<1>2. ASSUME NEW x \in OldEpoch, OldChanges(x), x # e PROVE UNCHANGED old[e]
  BY <1>2 DEF OldChanges
<1>3. ASSUME NEW x \in OldEpoch, NEW v \in Version, ApplyOld(x, v)
      PROVE  old'[e].role = "leader" /\ old'[e].frozen
  <2>0. v <= Len(layouts) /\ Len(layouts) \in Version /\ Latest = layouts[Len(layouts)]
    BY LatestIs DEF Types, Version
  <2>1. layouts[v].oldEpoch <= Latest.oldEpoch
    BY <2>0 DEF Order, Precedes
  <2>2. layouts[v].oldEpoch \in Nat /\ e \in Nat
    BY LatestIs, LayoutFields DEF Types
  <2> QED
    BY <1>2, <1>3, <2>1, <2>2, ApplyOldIs
<1>4. ASSUME NEW x \in OldEpoch, WriteOld(x) PROVE old'[e].role = "leader" /\ old'[e].frozen
  BY <1>2, <1>4, WriteOldIs
<1>5. ASSUME NEW x \in OldEpoch, FreezeExpires(x) PROVE old'[e].role = "leader" /\ old'[e].frozen
  BY <1>2, <1>5, FreezeIs DEF FreezeExpires
<1>6. ASSUME NEW p \in Pull, FreezeSource(p) PROVE old'[e].role = "leader" /\ old'[e].frozen
  <2>1. pull[p].sEpoch \in OldEpoch /\ old' = [old EXCEPT ![pull[p].sEpoch].frozen = TRUE]
    BY <1>6, Ends DEF FreezeSource
  <2> QED
    BY <1>2, <2>1, FreezeIs
<1>7. ~FinishOldHandoff /\ ~LapseOld
  <2>1. FinishOldHandoff \/ LapseOld => Latest'.oldEpoch = Latest.oldEpoch + 1
    BY LeadOldPuts, GrownPut DEF Types, LeadOldPut
  <2>2. e \in Nat
    BY LatestIs, LayoutFields DEF Types
  <2> QED
    BY <2>1, <2>2
<1>8. ASSUME NEW x \in OldEpoch, FollowOld(x) PROVE old'[e].role = "leader" /\ old'[e].frozen
  BY <1>2, <1>8, FollowOldIs
<1> QED
  BY <1>1, <1>3, <1>4, <1>5, <1>6, <1>7, <1>8
  DEF Next, Apply, PullStep, Version, vars, ApplyNew, Check, Refuse, WriteNew, Replicate, StartHandoff,
      CancelHandoff, PollNew, FinishNewHandoff, LapseNew, AbandonPull, StartPull, ReceivePull,
      FetchSnapshot, ImportSnapshot, DeleteStale, FetchFrozen, ImportLog, Import, GiveUp, MarkDone,
      FailPull

LEMMA PullFrozenStep ==
  ASSUME Types, Order, Types', Order', Old, Asked, FreezeOutlasts, PullFrozen, [Next]_vars
  PROVE  PullFrozen'
<1> SUFFICES ASSUME waiting' # NoPull, Relies(waiting)', pull'[waiting'].sEpoch = Latest'.oldEpoch
             PROVE  old'[pull'[waiting'].sEpoch].role = "leader" /\ old'[pull'[waiting'].sEpoch].frozen
  BY DEF PullFrozen, Relies, Source
<1>1. waiting' \in Pull
  BY DEF Types, PullTypes
<1>2. waiting' = waiting /\ (Relies(waiting) \/ FreezeSource(waiting))
  BY <1>1, ReliesOrigin
<1>3. PICK p \in Pull : p = waiting
  BY <1>1, <1>2
<1>4. pull[p].pc # "idle" /\ (Relies(p) \/ FreezeSource(p))
  BY <1>2, <1>3 DEF Relies, FreezeSource
<1>5. PICK e \in OldEpoch : e = pull[p].sEpoch
  BY <1>4, Ends
<1>6. pull'[p].sEpoch = e
  <2>1. pull'[p].pc # "idle" /\ ~StartPull(p)
    BY <1>2, <1>3, <1>4 DEF Relies, StartPull
  <2> QED
    BY <1>5, <2>1, PullOrigin DEF SamePull
<1>7. e = Latest'.oldEpoch
  BY <1>2, <1>3, <1>6
<1>8. e = Latest.oldEpoch
  <2>1. /\ Latest.oldEpoch \in Nat /\ Latest'.oldEpoch \in Nat /\ Latest.oldEpoch <= Latest'.oldEpoch
    BY LayoutStep, Later DEF Precedes
  <2>2. e <= Latest.oldEpoch
    BY <1>4, <1>5 DEF Asked
  <2> QED
    BY <1>7, <2>1, <2>2
<1>9. CASE FreezeSource(p)
  <2>1. old' = [old EXCEPT ![e].frozen = TRUE] /\ old[e].role = "leader"
    BY <1>5, <1>9 DEF FreezeSource, Source
  <2>2. old'[e].role = "leader" /\ old'[e].frozen
    BY <2>1, FreezeIs
  <2> QED
    BY <1>2, <1>3, <1>6, <2>2
<1>10. CASE Relies(p)
  <2>1. old[e].role = "leader" /\ old[e].frozen
    BY <1>2, <1>3, <1>5, <1>8, <1>10 DEF PullFrozen, Relies, Source
  <2>2. FreezeNeeded(e)
    BY <1>2, <1>3, <1>5, <1>10 DEF FreezeNeeded, Relies
  <2> QED
    BY <1>2, <1>3, <1>6, <1>7, <1>8, <2>1, <2>2, FreezeStays
<1> QED
  BY <1>4, <1>9, <1>10

\* The versions before the latest one.
LEMMA DoneLasts ==
  ASSUME Types, Order, NEW i \in Version, NEW j \in Version, i <= j, layouts[i].done
  PROVE  layouts[j].done /\ Latest.done
<1>1. Len(layouts) \in Version /\ Latest = layouts[Len(layouts)] /\ j <= Len(layouts) /\ i \in Nat /\ j \in Nat
  BY LatestIs DEF Types, Version
<1> QED
  BY <1>1 DEF Order, Precedes

LEMMA GuardedStep ==
  ASSUME Types, Order, Types', Order', Old, Old', FreezeOutlasts, PullFrozen,
         \A x \in OldEpoch : Guarded(x), [Next]_vars, NEW e \in OldEpoch
  PROVE  Guarded(e)'
<1> USE DEF Guarded
<1>0. /\ Guarded(e) /\ OldOf(e) /\ OldOf(e)' /\ Grown /\ old[e].view \in Version
      /\ layouts'[old[e].view] = layouts[old[e].view] /\ Latest.oldEpoch \in Nat /\ e \in Nat
  BY LayoutStep, LatestIs, LayoutFields DEF Old, Types, OldTypes, Grown, OldEpoch
<1>1. CASE \E p \in Pull : MarkDone(p) /\ SameLeaders(p)
  <2>1. PICK p \in Pull : MarkDone(p) /\ SameLeaders(p)
    BY <1>1
  <2>2. /\ UNCHANGED <<old, checked>> /\ waiting = p /\ pull[p].pc = "answer"
        /\ pull[p].sEpoch = Latest.oldEpoch
    BY <2>1 DEF MarkDone, SameLeaders
  <2>3. old[Latest.oldEpoch].role = "leader" /\ old[Latest.oldEpoch].frozen
    BY <2>2, PullAssumption DEF PullFrozen, Source
  <2>4. Latest'.oldEpoch = Latest.oldEpoch
    <3>1. PutLayout([Latest EXCEPT !.done = TRUE]) /\ UNCHANGED events
      BY <2>1 DEF MarkDone
    <3> QED
      BY <3>1, DonePuts, GrownPut DEF Types, DonePut, SameOld
  <2> QED
    BY <1>0, <2>2, <2>3, <2>4 DEF OldOf
<1>2. CASE Latest'.done = Latest.done
  <2>1. CASE FinishOldHandoff \/ LapseOld
    <3>2. OldLed
      BY <2>1, LeadsOldIs
    <3>3. Latest'.oldEpoch = Latest.oldEpoch + 1
      BY <2>1, LeadOldPuts, GrownPut DEF Types, LeadOldPut
    <3>4. Len(layouts) \in Version /\ layouts'[Len(layouts)] = Latest
      BY <1>0, LatestIs DEF Grown, Types
    <3>5. CASE e = Latest.oldEpoch + 1
      <4>1. old'[e].role = "follower" /\ old'[e].view = Len(layouts)
        BY <3>2, <3>5 DEF OldLed
      <4> QED
        BY <1>2, <3>4, <4>1
    <3>6. CASE e # Latest.oldEpoch + 1
      BY <1>0, <3>3, <3>6 DEF OldOf
    <3> QED
      BY <3>5, <3>6
  <2>2. CASE Latest'.oldEpoch = Latest.oldEpoch
    <3>1. ASSUME old'[e] = old[e], e \in checked' => e \in checked PROVE Guarded(e)'
      BY <1>0, <1>2, <2>2, <3>1
    <3>2. ASSUME NEW x \in OldEpoch, OldChanges(x), checked' \subseteq checked, x # e PROVE Guarded(e)'
      BY <3>1, <3>2 DEF OldChanges
    <3>3. ASSUME NEW x \in OldEpoch, NEW v \in Version, ApplyOld(x, v) PROVE Guarded(e)'
      <4>1. CASE x # e
        BY <3>2, <3>3, <4>1, ApplyOldIs DEF ApplyOld
      <4>2. CASE x = e
        <5>1. /\ checked' = checked /\ v > old[e].view /\ old[e].role \in {"follower", "leader"}
              /\ layouts'[v] = layouts[v] /\ old[e].view <= v
          <6>1. v \in Nat /\ old[e].view \in Nat /\ layouts'[v] = layouts[v]
            BY <1>0, OldFields DEF Types, OldTypes, Version, Grown
          <6>2. checked' = checked
            BY <3>3 DEF ApplyOld
          <6>3. v > old[e].view /\ old[e].role \in {"follower", "leader"}
            BY <3>3, <4>2, ApplyOldIs
          <6> QED
            BY <6>1, <6>2, <6>3
        <5>2. layouts[old[e].view].done => layouts[v].done
          BY <1>0, <3>3, <5>1, DoneLasts
        <5>3. CASE layouts[v].oldEpoch > e
          BY <3>3, <4>2, <5>3, ApplyOldIs, NoLeaderIs
        <5>4. CASE ~(layouts[v].oldEpoch > e)
          <6>1. old'[e].role = "leader" /\ old'[e].view = v /\ old'[e].frozen = old[e].frozen
            BY <3>3, <4>2, <5>4, ApplyOldIs
          <6>2. CASE old[e].role = "leader"
            BY <1>0, <1>2, <2>2, <5>1, <5>2, <6>1, <6>2
          <6>3. CASE old[e].role = "follower"
            BY <1>0, <1>2, <2>2, <5>1, <5>2, <6>1, <6>3 DEF OldOf
          <6> QED
            BY <5>1, <6>2, <6>3
        <5> QED
          BY <5>3, <5>4
      <4> QED
        BY <4>1, <4>2
    <3>4. ASSUME NEW x \in OldEpoch, Check(x) PROVE Guarded(e)'
      <4>1. CASE x # e
        BY <3>1, <3>4, <4>1 DEF Check
      <4>2. CASE x = e
        <5>1. UNCHANGED <<layouts, old>> /\ ~layouts[old[e].view].done
          BY <3>4, <4>2 DEF Check, TargetOld, OwnsOld
        <5> QED
          BY <1>0, <1>2, <2>2, <5>1
      <4> QED
        BY <4>1, <4>2
    <3>5. ASSUME NEW x \in OldEpoch, WriteOld(x) PROVE Guarded(e)'
      <4>1. CASE x # e
        BY <3>2, <3>5, <4>1, WriteOldIs
      <4>2. CASE x = e
        BY <1>0, <1>2, <2>2, <3>5, <4>2, WriteOldIs DEF TakesOld
      <4> QED
        BY <4>1, <4>2
    <3>6. ASSUME NEW x \in OldEpoch, FreezeExpires(x) PROVE Guarded(e)'
      <4>0. UNCHANGED <<layouts, checked>> /\ old' = [old EXCEPT ![x].frozen = FALSE] /\ ~FreezeNeeded(x)
        BY <3>6 DEF FreezeExpires
      <4>1. CASE x # e
        BY <3>2, <4>0, <4>1, FreezeIs
      <4>2. CASE x = e
        BY <1>0, <1>2, <4>0, <4>2, FreezeIs DEF FreezeNeeded
      <4> QED
        BY <4>1, <4>2
    <3>7. ASSUME NEW p \in Pull, FreezeSource(p) PROVE Guarded(e)'
      <4>0. PICK x \in OldEpoch : x = pull[p].sEpoch
        BY <3>7, Ends DEF FreezeSource
      <4>1. UNCHANGED <<layouts, checked>> /\ old' = [old EXCEPT ![x].frozen = TRUE]
        BY <3>7, <4>0 DEF FreezeSource
      <4>2. CASE x # e
        BY <3>2, <4>1, <4>2, FreezeIs
      <4>3. CASE x = e
        <5>1. old'[e].frozen /\ old'[e].role = old[e].role /\ old'[e].view = old[e].view
          BY <4>1, <4>3, FreezeIs
        <5> QED
          BY <1>0, <1>2, <2>2, <4>1, <5>1
      <4> QED
        BY <4>2, <4>3
    <3>8. CASE UNCHANGED old /\ checked' \subseteq checked
      BY <3>1, <3>8
    <3>9. ASSUME NEW x \in OldEpoch, FollowOld(x) PROVE Guarded(e)'
      <4>0. UNCHANGED <<layouts, checked>>
        BY <3>9 DEF FollowOld
      <4>1. CASE x # e
        BY <3>2, <3>9, <4>0, <4>1, FollowOldIs
      <4>2. CASE x = e
        BY <1>0, <1>2, <2>2, <3>9, <4>0, <4>2, FollowOldIs
      <4> QED
        BY <4>1, <4>2
    <3> QED
      BY <2>1, <3>3, <3>4, <3>5, <3>6, <3>7, <3>8, <3>9
      DEF Next, Apply, PullStep, Version, vars, ApplyNew, Refuse, WriteNew, Replicate, StartHandoff,
          CancelHandoff, PollNew, FinishNewHandoff, LapseNew, AbandonPull, StartPull, ReceivePull,
          FetchSnapshot, ImportSnapshot, DeleteStale, FetchFrozen, ImportLog, Import, GiveUp, MarkDone,
          FailPull
  <2> QED
    BY <2>1, <2>2, LatestStep
<1> QED
  BY <1>1, <1>2, LatestStep

----------------------------------------------------------------------------
(* The source and the target never both take writes.                       *)

LEMMA SafeInit ==
  ASSUME Init
  PROVE  Safe
<1>1. Types /\ Order
  BY TypesInit
<1> DEFINE n == CHOOSE n \in TargetNode : TRUE
           l == [oldEpoch |-> 1, oldHandoff |-> 0, newLeader |-> n, newEpoch |-> 1, newHandoff |-> 0,
                 done |-> FALSE]
<1>2. PICK log \in {<<>>, <<1>>} :
        /\ layouts = <<l>>
        /\ old = [e \in OldEpoch |->
                    IF e = 1 THEN [NoLeader EXCEPT !.role = "leader", !.log = log] ELSE NoLeader]
        /\ checked = {} /\ pull = [p \in Pull |-> Idle] /\ waiting = NoPull
        /\ lapsedOld = {} /\ lapsedNew = {}
  BY Zenon DEF Init
<1>3. Latest = layouts[1] /\ Version = {1}
  <2>1. Latest = layouts[Len(layouts)] /\ Version = 1..Len(layouts)
    BY <1>1, LatestIs DEF Types, Version
  <2> QED
    BY <1>2, <2>1
<1>6. Latest.oldEpoch = 1 /\ Latest.oldHandoff = 0 /\ ~Latest.done
  BY <1>2, <1>3
<1>4. ASSUME NEW e \in OldEpoch PROVE OldOf(e)
  <2> DEFINE r == [NoLeader EXCEPT !.role = "leader", !.log = log]
  <2>1. r.role = "leader" /\ r.sealed = FALSE /\ r.view = 1
    BY DEF NoLeader
  <2>2. old[e] = IF e = 1 THEN r ELSE NoLeader
    BY <1>2
  <2> HIDE DEF r
  <2>3. e \in Nat /\ e >= 1
    BY DEF OldEpoch
  <2>4. CASE e = 1
    <3>1. /\ old[e].role = "leader" /\ old[e].sealed = FALSE
          /\ layouts[old[e].view].oldHandoff = 0 /\ layouts[old[e].view].oldEpoch = 1
      BY <1>3, <1>6, <2>1, <2>2, <2>4
    <3>2. e \notin checked
      BY <1>2
    <3>3. e = Latest.oldEpoch /\ ~(e > Latest.oldEpoch) /\ ~(e < Latest.oldEpoch)
          /\ layouts[old[e].view].oldEpoch <= e
      BY <1>6, <2>4, <3>1
    <3>4. Deposed(e)
      BY <3>3 DEF Deposed
    <3>5. old[e].sealed = (layouts[old[e].view].oldHandoff # 0)
      BY <3>1
    <3> QED
      BY <3>1, <3>2, <3>3, <3>4, <3>5 DEF OldOf
  <2>5. CASE e # 1
    BY <1>2, <1>6, <2>2, <2>3, <2>5, NoLeaderIs DEF OldOf, Deposed
  <2> QED
    BY <2>4, <2>5
<1>5. Past /\ Asked /\ Frozen
  BY <1>2, <1>6, IdleIs DEF Past, Asked, Frozen, Guarded, PullFrozen
<1> QED
  BY <1>1, <1>4, <1>5 DEF Safe, Old

LEMMA PastStep ==
  ASSUME Types, Order, Types', Order', Past, [Next]_vars
  PROVE  Past'
<1>1. /\ Latest.oldEpoch <= Latest'.oldEpoch /\ Latest.newEpoch <= Latest'.newEpoch
      /\ Latest.oldEpoch \in Nat /\ Latest'.oldEpoch \in Nat
      /\ Latest.newEpoch \in Nat /\ Latest'.newEpoch \in Nat
  BY LayoutStep, Later DEF Precedes
<1>2. LapseOld => Latest'.oldEpoch = Latest.oldEpoch + 1
  BY LeadOldPuts, GrownPut DEF Types, LeadOldPut
<1>3. LapseNew => Latest'.newEpoch = Latest.newEpoch + 1
  <2> SUFFICES ASSUME LapseNew PROVE Latest'.newEpoch = Latest.newEpoch + 1
    OBVIOUS
  <2>1. PICK m \in TargetNode : LeadNew(Latest, m) /\ Event
    BY DEF LapseNew
  <2> QED
    BY <2>1, LeadNewPuts, GrownPut DEF Types, LeadNewPut
<1>4. \A e \in lapsedOld' : e \in Nat /\ e < Latest'.oldEpoch
  BY <1>1, <1>2, GhostStep, MigrationBounds DEF Past, Types, OtherTypes, OldEpoch
<1>5. \A e \in lapsedNew' : e \in Nat /\ e < Latest'.newEpoch
  BY <1>1, <1>3, GhostStep DEF Past, Types, OtherTypes
<1> QED
  BY <1>4, <1>5 DEF Past

LEMMA SafeStep ==
  ASSUME Safe, [Next]_vars
  PROVE  Safe'
<1>1. Types /\ Order /\ Types' /\ Order'
  BY TypesStep DEF Safe
<1>2. Old' /\ Asked' /\ Past'
  BY <1>1, OldStep, AskedStep, PastStep DEF Safe
<1>3. Frozen'
  BY <1>1, <1>2, PullFrozenStep, GuardedStep DEF Safe, Frozen
<1> QED
  BY <1>1, <1>2, <1>3 DEF Safe

\* A leader of the source that takes a write has lost its lease, or leads the
\* latest epoch while the target is not done.
LEMMA TakesOldIs ==
  ASSUME Safe, FreezeOutlasts, NEW e \in OldEpoch, TakesOld(e), TargetOld(e) \/ e \in checked
  PROVE  e \in lapsedOld \/ (e = Latest.oldEpoch /\ ~Latest.done)
<1>1. OldOf(e) /\ Guarded(e) /\ old[e].view \in Version
  BY DEF Safe, Old, Frozen, Types, OldTypes
<1>2. old[e].role = "leader" /\ ~old[e].sealed /\ ~old[e].frozen
  BY DEF TakesOld
<1>3. e \in Nat /\ Latest.oldEpoch \in Nat
  BY LatestIs, LayoutFields DEF Safe, Types, OldEpoch
<1>4. CASE e > Latest.oldEpoch
  BY <1>1, <1>2, <1>4 DEF OldOf
<1>5. CASE e = Latest.oldEpoch
  BY <1>1, <1>2, <1>5 DEF Guarded, TargetOld, OwnsOld
<1>6. CASE e < Latest.oldEpoch
  <2>1. old[e].sealed = FALSE /\ old[e].view >= old[e].view
    BY <1>1, <1>2, OldFields DEF Safe, Types, OldTypes, Version
  <2> QED
    BY <1>1, <1>2, <1>6, <2>1 DEF OldOf, Deposed
<1> QED
  BY <1>3, <1>4, <1>5, <1>6

\* A node that takes a write for the target has seen that the target is done.
LEMMA TargetIsDone ==
  ASSUME Types, Order, NEW n \in TargetNode, TargetNew(n)
  PROVE  Latest.done
<1>1. new[n].view \in Version /\ layouts[new[n].view].done
  BY DEF Types, NewTypes, TargetNew, OwnsNew
<1>2. new[n].view <= new[n].view
  BY <1>1 DEF Version
<1> QED
  BY <1>1, <1>2, DoneLasts

LEMMA SafeTwoWriters ==
  ASSUME Safe, FreezeOutlasts
  PROVE  NoTwoWriters
  BY TakesOldIs, TargetIsDone DEF Safe, NoTwoWriters, AcceptsOld, AcceptsNew

\* The source and the target never take writes for the key at the same time,
\* whatever the layouts the nodes have seen, as long as the freeze that Export
\* sets lasts until the controller has written the layout and the source's
\* leader has applied it (partition.go frozenLocked).  The one exception is a
\* leader of the source that lost its lease and has not noticed (node.go
\* keepMembership): nothing stops its writes, and they are lost.  The number of
\* replicas, of events and of pulls at the same time is arbitrary.
THEOREM OneWriter == Spec => [](FreezeOutlasts => NoTwoWriters)
<1>1. Init => Safe
  BY SafeInit
<1>2. Safe /\ [Next]_vars => Safe'
  BY SafeStep
<1>3. Safe => (FreezeOutlasts => NoTwoWriters)
  BY SafeTwoWriters
<1> QED
  BY <1>1, <1>2, <1>3, PTL DEF Spec

----------------------------------------------------------------------------
(* The target keeps its invariant.                                         *)

LEMMA BeginsGrows ==
  ASSUME NEW r \in Seq(Nat), NEW s \in Seq(Nat), NEW t \in Seq(Nat), Begins(r, s)
  PROVE  Begins(r, s \o t)
<1>1. Len(s \o t) = Len(s) + Len(t) /\ Len(r) \in Nat /\ Len(s) \in Nat /\ Len(t) \in Nat
  OBVIOUS
<1>2. \A i \in 1..Len(s) : (s \o t)[i] = s[i]
  OBVIOUS
<1> QED
  BY <1>1, <1>2 DEF Begins

LEMMA BeginsSame ==
  ASSUME NEW s \in Seq(Nat), NEW t \in Seq(Nat), Begins(s, t), Len(s) >= Len(t)
  PROVE  s = t
<1>1. Len(s) = Len(t)
  BY DEF Begins
<1> QED
  BY <1>1, SeqEqual DEF Begins

LEMMA EpochsGrow ==
  ASSUME Types, Order, NEW i \in Version, NEW j \in Version
  PROVE  /\ layouts[i].newEpoch \in Nat /\ Latest.newEpoch \in Nat /\ layouts[i].newEpoch <= Latest.newEpoch
         /\ layouts[i].newEpoch = Latest.newEpoch => layouts[i].newLeader = Latest.newLeader
         /\ layouts[i].newEpoch = layouts[j].newEpoch => layouts[i].newLeader = layouts[j].newLeader
         /\ i <= j => layouts[i].newEpoch <= layouts[j].newEpoch
         /\ layouts[i].newLeader \in TargetNode /\ Latest.newLeader \in TargetNode
<1>1. /\ Len(layouts) \in Version /\ Latest = layouts[Len(layouts)] /\ i <= Len(layouts) /\ i \in Nat /\ j \in Nat
      /\ layouts[i] \in LayoutRec /\ layouts[j] \in LayoutRec /\ Latest \in LayoutRec
  BY LatestIs DEF Types, Version
<1>2. Precedes(layouts[i], Latest)
  BY <1>1 DEF Order
<1>3. Precedes(layouts[i], layouts[j]) \/ Precedes(layouts[j], layouts[i])
  BY <1>1 DEF Order
<1>4. i <= j => Precedes(layouts[i], layouts[j])
  BY DEF Order
<1> QED
  BY <1>1, <1>2, <1>3, <1>4, LayoutFields DEF Precedes

\* The replica's role is the one its view of the layout gives it.
LEMMA ViewIs ==
  ASSUME Types, Order, NEW n \in TargetNode, NewOf(n), NEW i \in Version
  PROVE  /\ new[n].view \in Version /\ new[n].epoch \in Nat /\ new[n].dataEpoch \in Nat
         /\ new[n].epoch <= Latest.newEpoch
         /\ layouts[i].newEpoch = new[n].epoch => (new[n].role = "leader" <=> layouts[i].newLeader = n)
         /\ i >= new[n].view => layouts[i].newEpoch >= new[n].epoch
<1>1. new[n].view \in Version /\ new[n] \in NewRec
  BY DEF Types, NewTypes
<1>2. new[n].view \in Nat /\ i \in Nat
  BY <1>1 DEF Version
<1>3. /\ layouts[i].newEpoch = layouts[new[n].view].newEpoch =>
           layouts[i].newLeader = layouts[new[n].view].newLeader
      /\ layouts[i].newEpoch \in Nat
  BY <1>1, EpochsGrow
<1>4. /\ new[n].view <= i => layouts[new[n].view].newEpoch <= layouts[i].newEpoch
      /\ layouts[new[n].view].newEpoch <= Latest.newEpoch
  BY <1>1, EpochsGrow
<1> QED
  BY <1>1, <1>2, <1>3, <1>4, NewFields DEF NewOf

\* The replicas stay as they are, and so does the leader.
LEMMA NewFrame ==
  ASSUME Types, Order, Types', Order', Grown, New, UNCHANGED new, lapsedNew \subseteq lapsedNew',
         Latest'.newEpoch = Latest.newEpoch, Latest'.newLeader = Latest.newLeader
  PROVE  New'
<1>1. ASSUME NEW i \in Version'
      PROVE  /\ layouts'[i].newEpoch \in Nat /\ layouts'[i].newEpoch <= Latest.newEpoch
             /\ \/ i \in Version /\ layouts'[i] = layouts[i]
                \/ layouts'[i].newEpoch = Latest.newEpoch /\ layouts'[i].newLeader = Latest.newLeader
  <2>0. (layouts'[i].newEpoch \in Nat /\ layouts'[i].newEpoch <= Latest'.newEpoch /\ Latest'.newEpoch \in Nat
         /\ (layouts'[i].newEpoch = Latest'.newEpoch => layouts'[i].newLeader = Latest'.newLeader))
    <3>1. Len(layouts') \in Version' /\ Latest' = layouts'[Len(layouts')] /\ i <= Len(layouts')
      BY LatestIs DEF Types, LayoutTypes, Version, Latest, Last
    <3>2. Precedes(layouts'[i], Latest')
      BY <3>1 DEF Order
    <3> QED
      BY <3>2, Later DEF Precedes
  <2>1. CASE i \in Version
    BY <2>0, <2>1 DEF Grown
  <2>2. CASE i \notin Version
    <3>1. Precedes(Latest, layouts'[i])
      BY <2>2, Later
    <3> QED
      BY <2>0, <3>1 DEF Precedes
  <2> QED
    BY <2>1, <2>2
<1>2. /\ Len(layouts) \in Version /\ Latest = layouts[Len(layouts)] /\ Latest.newEpoch \in Nat
      /\ \A n \in TargetNode : new[n].view \in Version /\ layouts'[new[n].view] = layouts[new[n].view]
  BY LatestIs, LayoutFields DEF Types, NewTypes, Grown
<1>3. ASSUME NEW n \in TargetNode PROVE NewOf(n)'
  <2>1. NewOf(n)
    BY DEF New
  <2>2. ASSUME new[n].role = "leader", new[n].epoch < Latest.newEpoch, new[n].epoch \notin lapsedNew',
               NEW i \in Version', i >= new[n].view, layouts'[i].newEpoch = new[n].epoch
        PROVE  layouts'[i].newHandoff # 0
    <3>1. i \in Version /\ layouts'[i] = layouts[i]
      BY <1>1, <1>2, <2>2
    <3> QED
      BY <2>1, <2>2, <3>1 DEF NewOf
  <2> QED
    BY <1>2, <2>1, <2>2 DEF NewOf
<1>4. ASSUME NEW m \in TargetNode, NEW n \in TargetNode PROVE FollowsOf(m, n)'
  <2>1. FollowsOf(m, n)
    BY DEF New
  <2>2. ASSUME NEW i \in Version', layouts'[i].newLeader = n, layouts'[i].newEpoch = new[m].dataEpoch
        PROVE  new[n].epoch >= new[m].dataEpoch
    <3>1. PICK j \in Version : layouts[j].newLeader = n /\ layouts[j].newEpoch = new[m].dataEpoch
      BY <1>1, <1>2, <2>2
    <3> QED
      BY <2>1, <3>1 DEF FollowsOf
  <2> QED
    BY <2>1, <2>2 DEF FollowsOf
<1>5. Ended'
  BY <1>1, <1>2 DEF Ended, New
<1> QED
  BY <1>3, <1>4, <1>5 DEF New

\* Only the replica x changes, and its epoch does not shrink.
LEMMA NodeChanges ==
  ASSUME Types, Order, Types', New, UNCHANGED <<layouts, lapsedNew>>, NEW x \in TargetNode, NewChanges(x), NewOf(x)',
         new'[x].epoch >= new[x].epoch,
         \A m \in TargetNode \ {x} : FollowsOf(m, x)' /\ FollowsOf(x, m)'
  PROVE  New'
<1>1. Latest' = Latest /\ Version' = Version
  BY DEF Latest, Version
<1>2. \A n \in TargetNode : n # x => new'[n] = new[n]
  BY DEF NewChanges
<1>3. ASSUME NEW n \in TargetNode PROVE NewOf(n)'
  BY <1>1, <1>2 DEF NewOf, New
<1>4. ASSUME NEW m \in TargetNode, NEW n \in TargetNode PROVE FollowsOf(m, n)'
  <2>1. CASE m = x /\ n = x
    BY <2>1 DEF FollowsOf, NewOf
  <2>2. CASE m # x /\ n # x
    BY <1>1, <1>2, <2>2 DEF FollowsOf, New
  <2> QED
    BY <2>1, <2>2
<1>5. Ended'
  <2> SUFFICES ASSUME NEW i \in Version, layouts[i].newEpoch < Latest.newEpoch, layouts[i].newEpoch \notin lapsedNew
               PROVE  new'[layouts[i].newLeader].epoch >= layouts[i].newEpoch
    BY <1>1 DEF Ended
  <2>1. new[layouts[i].newLeader].epoch >= layouts[i].newEpoch
    BY DEF New, Ended
  <2>2. layouts[i].newLeader \in TargetNode /\ layouts[i].newEpoch \in Nat
    BY EpochsGrow
  <2>3. new[x].epoch \in Nat /\ new'[x].epoch \in Nat
    BY NewFields DEF Types, NewTypes
  <2> QED
    BY <1>2, <2>1, <2>2, <2>3
<1> QED
  BY <1>3, <1>4, <1>5 DEF New

\* A leader logs more.
LEMMA LogGrows ==
  ASSUME Types, Order, Types', New, UNCHANGED <<layouts, lapsedNew>>, NEW x \in TargetNode, new[x].role = "leader",
         NEW ops \in Seq(Nat), new[x].log \o ops \in Seq(Nat),
         new' = [new EXCEPT ![x].log = new[x].log \o ops]
  PROVE  New'
<1>1. /\ NewChanges(x) /\ new'[x].log = new[x].log \o ops
      /\ new'[x].role = new[x].role /\ new'[x].epoch = new[x].epoch /\ new'[x].view = new[x].view
      /\ new'[x].dataEpoch = new[x].dataEpoch /\ new'[x].sealed = new[x].sealed
  BY LogIs
<1>2. Latest' = Latest /\ Version' = Version
  BY DEF Latest, Version
<1>3. NewOf(x)'
  BY <1>1, <1>2 DEF New, NewOf
<1>4. \A n \in TargetNode : new[n].log \in Seq(Nat) /\ new[n].epoch \in Nat
  BY NewFields DEF Types, NewTypes
<1>5. ASSUME NEW m \in TargetNode, m # x PROVE FollowsOf(m, x)' /\ FollowsOf(x, m)'
  <2>1. new'[m] = new[m]
    BY <1>1, <1>5 DEF NewChanges
  <2>2. Begins(new[m].log, new[x].log) => Begins(new[m].log, new'[x].log)
    BY <1>1, <1>4, BeginsGrows
  <2>3. FollowsOf(m, x) /\ FollowsOf(x, m)
    BY DEF New
  <2> QED
    BY <1>1, <1>2, <2>1, <2>2, <2>3 DEF FollowsOf
<1>6. \A m \in TargetNode \ {x} : FollowsOf(m, x)' /\ FollowsOf(x, m)'
  BY <1>5
<1>7. new'[x].epoch >= new[x].epoch
  BY <1>1, <1>4
<1> QED
  BY <1>1, <1>3, <1>6, <1>7, NodeChanges

LEMMA ReplicateNew ==
  ASSUME Types, Order, Types', New, NEW m \in TargetNode, Replicate(m)
  PROVE  New'
<1>0. UNCHANGED <<layouts, lapsedNew>> /\ Latest' = Latest /\ Version' = Version
  BY DEF Replicate, Latest, Version, lapsed
<1>1. PICK n \in TargetNode : n = layouts[new[m].view].newLeader
  BY ReplicateIs
<1>2. /\ new[m].role = "follower" /\ new[n].role = "leader" /\ new[n].epoch = new[m].epoch
      /\ NewChanges(m) /\ new'[m].log = new[n].log /\ new'[m].dataEpoch = new[n].epoch
      /\ new'[m].role = "follower" /\ new'[m].epoch = new[m].epoch
      /\ new'[m].view = new[m].view /\ new'[m].sealed = new[m].sealed
  BY <1>1, ReplicateIs
<1>3. \A x \in TargetNode : NewOf(x)
  BY DEF New
<1>4. \A x \in TargetNode : new[x].epoch \in Nat /\ new[x].log \in Seq(Nat) /\ Len(new[x].log) \in Nat
  BY NewFields DEF Types, NewTypes
<1>5. NewOf(m)'
  BY <1>0, <1>2, <1>3, <1>4 DEF NewOf
<1>6. ASSUME NEW x \in TargetNode, x # m PROVE FollowsOf(m, x)' /\ FollowsOf(x, m)'
  <2>1. new'[x] = new[x]
    BY <1>2, <1>6 DEF NewChanges
  <2>2. new[n].view \in Version /\ layouts[new[n].view].newLeader = n /\ layouts[new[n].view].newEpoch = new[n].epoch
    BY <1>2, <1>3 DEF NewOf, Types, NewTypes
  <2>3. new[x].role = "leader" /\ new[x].epoch = new[n].epoch => x = n
    BY <1>3, <2>2, ViewIs
  <2>4. \A i \in Version : layouts[i].newLeader = x /\ layouts[i].newEpoch = new[n].epoch => x = n
    BY <2>2, EpochsGrow
  <2>5. Begins(new[n].log, new[n].log)
    BY <1>4 DEF Begins
  <2>6. FollowsOf(m, x)'
    BY <1>0, <1>2, <1>4, <2>1, <2>3, <2>4, <2>5 DEF FollowsOf
  <2>7. FollowsOf(x, m)'
    BY <1>0, <1>2, <2>1 DEF FollowsOf, New
  <2> QED
    BY <2>6, <2>7
<1> QED
  BY <1>0, <1>2, <1>4, <1>5, <1>6, NodeChanges

LEMMA ApplyNewNew ==
  ASSUME Types, Order, Types', New, NEW x \in TargetNode, NEW v \in Version, ApplyNew(x, v)
  PROVE  New'
<1>0. UNCHANGED <<layouts, lapsedNew>> /\ Latest' = Latest /\ Version' = Version
  BY DEF ApplyNew, Latest, Version, ghost, lapsed
<1>1. /\ NewChanges(x) /\ v > new[x].view /\ new'[x].view = v /\ new'[x].epoch = layouts[v].newEpoch
      /\ layouts[v].newLeader = x => /\ new'[x].role = "leader" /\ new'[x].log = new[x].log
                                     /\ new'[x].dataEpoch = layouts[v].newEpoch
                                     /\ new'[x].sealed = (layouts[v].newHandoff # 0)
      /\ layouts[v].newLeader # x =>
           /\ new'[x].role = "follower" /\ ~new'[x].sealed
           /\ new[x].role = "leader" => new'[x].log = <<>> /\ new'[x].dataEpoch = 0
           /\ new[x].role = "follower" => new'[x].log = new[x].log /\ new'[x].dataEpoch = new[x].dataEpoch
  BY ApplyNewIs
<1>2. /\ NewOf(x) /\ new[x].role \in {"follower", "leader"} /\ v \in Nat /\ new[x].view \in Nat
      /\ \A y \in TargetNode : new[y].epoch \in Nat /\ new[y].dataEpoch \in Nat /\ new[y].log \in Seq(Nat)
  BY NewFields DEF New, Types, NewTypes, Version
<1>3. /\ layouts[v].newEpoch >= new[x].epoch /\ layouts[v].newEpoch \in Nat
      /\ layouts[v].newEpoch = new[x].epoch => (new[x].role = "leader" <=> layouts[v].newLeader = x)
  BY <1>1, <1>2, ViewIs, EpochsGrow
<1>4. new[x].dataEpoch <= new[x].epoch
  BY <1>2 DEF NewOf
<1>5. NewOf(x)'
  <2>1. CASE layouts[v].newLeader = x
    <3>1. ASSUME layouts[v].newEpoch < Latest.newEpoch, layouts[v].newEpoch \notin lapsedNew, NEW i \in Version, i >= v,
                 layouts[i].newEpoch = layouts[v].newEpoch
          PROVE  layouts[i].newHandoff # 0
      <4>1. new[x].epoch >= layouts[v].newEpoch
        BY <2>1, <3>1 DEF New, Ended
      <4>2. new[x].epoch = layouts[v].newEpoch /\ new[x].role = "leader"
        BY <1>2, <1>3, <2>1, <4>1
      <4>3. i >= new[x].view
        BY <1>1, <1>2, <3>1 DEF Version
      <4> QED
        BY <1>2, <3>1, <4>2, <4>3 DEF NewOf
    <3>2. Latest.newEpoch \in Nat
      BY EpochsGrow
    <3> QED
      BY <1>0, <1>1, <1>3, <2>1, <3>1 DEF NewOf
  <2>2. CASE layouts[v].newLeader # x
    <3>1. new'[x].dataEpoch <= layouts[v].newEpoch
      BY <1>1, <1>2, <1>3, <1>4, <2>2
    <3> QED
      BY <1>0, <1>1, <2>2, <3>1 DEF NewOf
  <2> QED
    BY <2>1, <2>2
<1>6. ASSUME NEW m \in TargetNode, m # x PROVE FollowsOf(m, x)'
  <2>1. new'[m] = new[m] /\ FollowsOf(m, x)
    BY <1>1, <1>6 DEF NewChanges, New
  <2>2. ASSUME new[m].role = "follower", layouts[v].newLeader = x, new[m].dataEpoch = layouts[v].newEpoch
        PROVE  Begins(new[m].log, new'[x].log)
    <3>1. new[x].epoch >= new[m].dataEpoch
      BY <2>1, <2>2 DEF FollowsOf
    <3>2. new[x].epoch = new[m].dataEpoch /\ new[x].role = "leader"
      BY <1>2, <1>3, <2>2, <3>1
    <3> QED
      BY <1>1, <2>1, <2>2, <3>2 DEF FollowsOf
  <2>3. ASSUME NEW i \in Version, layouts[i].newLeader = x, layouts[i].newEpoch = new[m].dataEpoch
        PROVE  new'[x].epoch >= new[m].dataEpoch
    <3>1. new[x].epoch >= new[m].dataEpoch
      BY <2>1, <2>3 DEF FollowsOf
    <3> QED
      BY <1>1, <1>2, <1>3, <3>1
  <2>4. new'[x].role = "leader" => layouts[v].newLeader = x
    BY <1>1
  <2> QED
    BY <1>0, <1>1, <2>1, <2>2, <2>3, <2>4 DEF FollowsOf
<1>7. ASSUME NEW m \in TargetNode, m # x PROVE FollowsOf(x, m)'
  <2>1. new'[m] = new[m] /\ FollowsOf(x, m)
    BY <1>1, <1>7 DEF NewChanges, New
  <2>2. CASE layouts[v].newLeader = x
    <3>1. \A i \in Version : layouts[i].newEpoch = layouts[v].newEpoch => layouts[i].newLeader = x
      BY <2>2, EpochsGrow
    <3> QED
      BY <1>0, <1>1, <1>7, <2>2, <3>1 DEF FollowsOf
  <2>3. CASE layouts[v].newLeader # x /\ new[x].role = "leader"
    <3>1. Begins(new'[x].log, new[m].log) /\ new'[x].dataEpoch = 0 /\ new[m].epoch >= 0
      BY <1>1, <1>2, <2>3 DEF Begins
    <3> QED
      BY <1>0, <2>1, <3>1 DEF FollowsOf
  <2>4. CASE layouts[v].newLeader # x /\ new[x].role = "follower"
    BY <1>0, <1>1, <2>1, <2>4 DEF FollowsOf
  <2> QED
    BY <1>2, <2>2, <2>3, <2>4
<1> QED
  BY <1>0, <1>1, <1>3, <1>5, <1>6, <1>7, NodeChanges

\* The leader n has sealed for the handoff in progress.
SealedFor(n) == new[n].role = "leader" /\ Latest.newHandoff # 0 /\ new[n].view >= Latest.newHandoff

\* The leader that has sealed for a handoff leads the latest epoch.
LEMMA SealedLeads ==
  ASSUME Types, Order, NEW n \in TargetNode, NewOf(n), SealedFor(n)
  PROVE  new[n].epoch = Latest.newEpoch /\ n = Latest.newLeader
<1>1. new[n].view \in Version /\ layouts[new[n].view].newEpoch = Latest.newEpoch
  BY DEF Order, NewHandoffLasts, SealedFor, Types, NewTypes
<1> QED
  BY <1>1, EpochsGrow DEF NewOf, SealedFor

LEMMA LeadNewNew ==
  ASSUME Types, Order, Types', Order', New, NEW n \in TargetNode, n = Latest.newLeader,
         NEW m \in TargetNode, m # n, NEW l, LeadNewPut(l, m),
         UNCHANGED new, lapsedNew \subseteq lapsedNew', SealedFor(n) \/ Latest.newEpoch \in lapsedNew'
  PROVE  New'
<1>1. /\ Latest' = l /\ l.newEpoch = Latest.newEpoch + 1 /\ l.newLeader = m
      /\ Len(layouts) + 1 \in Version' /\ layouts'[Len(layouts) + 1] = l
      /\ \A i \in Version' : i \in Version \/ i = Len(layouts) + 1
      /\ \A i \in Version : i \in Version' /\ layouts'[i] = layouts[i]
  <2>1. LayoutTypes /\ PutLayout(l) /\ l \in LayoutRec
    BY DEF Types, LeadNewPut, Follows
  <2>2. Len(layouts') = Len(layouts) + 1 /\ Len(layouts) \in Nat
    BY <2>1, PutIs, LatestIs
  <2> QED
    BY <2>1, <2>2, PutIs DEF LeadNewPut, Version
<1>2. /\ Latest.newEpoch \in Nat /\ Len(layouts) \in Version
      /\ \A i \in Version : /\ layouts[i].newEpoch \in Nat /\ layouts[i].newEpoch <= Latest.newEpoch
                            /\ layouts[i].newEpoch = Latest.newEpoch => layouts[i].newLeader = n
  BY EpochsGrow, LatestIs DEF Types
<1>3. \A x \in TargetNode : /\ NewOf(x) /\ new[x].view \in Version /\ new[x].epoch \in Nat
                            /\ new[x].dataEpoch \in Nat /\ new[x].epoch <= Latest.newEpoch
                            /\ new[x].dataEpoch <= new[x].epoch
  BY <1>2, ViewIs DEF New, NewOf
<1>5. ASSUME NEW x \in TargetNode, NEW i \in Version', new[x].role = "leader",
             new[x].epoch \notin lapsedNew', i >= new[x].view, layouts'[i].newEpoch = new[x].epoch
      PROVE  layouts'[i].newHandoff # 0
  <2>1. i \in Version /\ layouts'[i] = layouts[i]
    BY <1>1, <1>2, <1>3, <1>5
  <2>2. CASE new[x].epoch < Latest.newEpoch
    BY <1>3, <1>5, <2>1, <2>2 DEF NewOf
  <2>3. CASE new[x].epoch = Latest.newEpoch
    <3>1. x = n
      BY <1>2, <1>3, <1>5, <2>3 DEF NewOf
    <3>2. SealedFor(n)
      BY <1>5, <2>3
    <3>3. i >= Latest.newHandoff
      <4>1. i \in Nat /\ new[n].view \in Nat /\ Latest.newHandoff \in Nat
        BY <1>3, <2>1, LatestIs, LayoutFields DEF Types, Version
      <4> QED
        BY <1>5, <3>1, <3>2, <4>1 DEF SealedFor
    <3> QED
      BY <2>1, <3>2, <3>3 DEF Order, NewHandoffLasts, SealedFor
  <2> QED
    BY <1>2, <1>3, <2>2, <2>3
<1>6. ASSUME NEW x \in TargetNode PROVE NewOf(x)'
  <2>1. layouts'[new[x].view] = layouts[new[x].view] /\ NewOf(x)
    BY <1>1, <1>3
  <2> QED
    BY <1>5, <2>1 DEF NewOf
<1>7. ASSUME NEW a \in TargetNode, NEW b \in TargetNode PROVE FollowsOf(a, b)'
  <2>0. FollowsOf(a, b)
    BY DEF New
  <2>1. ASSUME NEW i \in Version', layouts'[i].newLeader = b, layouts'[i].newEpoch = new[a].dataEpoch
        PROVE  new[b].epoch >= new[a].dataEpoch
    <3>1. i \in Version /\ layouts'[i] = layouts[i]
      BY <1>1, <1>2, <1>3, <2>1
    <3> QED
      BY <2>0, <2>1, <3>1 DEF FollowsOf
  <2> QED
    BY <2>0, <2>1 DEF FollowsOf
<1>8. Ended'
  <2> SUFFICES ASSUME NEW i \in Version', layouts'[i].newEpoch < Latest.newEpoch + 1,
                      layouts'[i].newEpoch \notin lapsedNew'
               PROVE  new[layouts'[i].newLeader].epoch >= layouts'[i].newEpoch
    BY <1>1 DEF Ended
  <2>1. i \in Version /\ layouts'[i] = layouts[i]
    BY <1>1, <1>2
  <2>2. layouts[i].newLeader \in TargetNode
    BY <2>1, EpochsGrow
  <2>3. CASE layouts[i].newEpoch = Latest.newEpoch
    <3>1. SealedFor(n) /\ layouts[i].newLeader = n
      BY <1>2, <2>1, <2>3
    <3> QED
      BY <1>3, <2>1, <2>3, <3>1, SealedLeads
  <2>4. CASE layouts[i].newEpoch # Latest.newEpoch
    <3>1. layouts[i].newEpoch < Latest.newEpoch
      BY <1>2, <2>1, <2>4
    <3> QED
      BY <2>1, <3>1 DEF New, Ended
  <2> QED
    BY <2>3, <2>4
<1> QED
  BY <1>6, <1>7, <1>8 DEF New

\* The steps that change no replica of the target.
LEMMA NewUnchanged ==
  ASSUME [Next]_vars
  PROVE  \/ UNCHANGED new
         \/ \E n \in TargetNode, v \in Version : ApplyNew(n, v)
         \/ \E n \in TargetNode : WriteNew(n) \/ Replicate(n)
         \/ \E p \in Pull : ImportSnapshot(p) \/ DeleteStale(p) \/ ImportLog(p)
  BY DEF Next, Apply, PullStep, Version, vars, ApplyOld, Check, WriteOld, Refuse, StartHandoff,
      CancelHandoff, FinishOldHandoff, LapseOld, LapseNew, PollNew, FinishNewHandoff, AbandonPull, StartPull,
      ReceivePull, FetchSnapshot, FreezeSource, FetchFrozen, GiveUp, MarkDone, FailPull, FreezeExpires,
      FollowOld

LEMMA AppendIs ==
  ASSUME NEW s \in Seq(Nat), NEW v \in Nat
  PROVE  Append(s, v) = s \o <<v>> /\ <<v>> \in Seq(Nat)
  OBVIOUS

\* A step that makes another replica the target's leader.
LEMMA LeadsNewIs ==
  ASSUME Types, Order, New, Polled,
         LapseNew \/ (FinishNewHandoff /\ \E m \in TargetNode \ {Latest.newLeader} : LeadNew(Latest, m))
  PROVE  \E n \in TargetNode, m \in TargetNode, l \in LayoutRec :
           /\ n = Latest.newLeader /\ m # n /\ LeadNewPut(l, m) /\ UNCHANGED new
           /\ \/ LapseNew /\ Latest.newEpoch \in lapsedNew'
              \/ FinishNewHandoff /\ SealedFor(n)
           /\ LapseNew => Registered(m)
           /\ LapseNew => (Latest.done /\ CaughtUpCrash =>
                             new[m].epoch = Latest.newEpoch /\ new[m].log = new[n].log)
           /\ FinishNewHandoff =>
                 /\ poll # NoPoll /\ poll.version = Latest.newHandoff /\ poll.follower[m] >= poll.seq
                 /\ FreshPoll => Len(new[n].log) = poll.seq
<1>1. PICK n \in TargetNode : n = Latest.newLeader
  BY LatestIs, LayoutFields DEF Types
<1>2. CASE LapseNew
  <2>1. PICK m \in TargetNode : /\ m # n /\ LeadNew(Latest, m)
                                /\ Latest.done /\ CaughtUpCrash =>
                                     new[m].epoch = Latest.newEpoch /\ new[m].log = new[n].log
                                /\ Registered(m)
    BY <1>1, <1>2 DEF LapseNew
  <2>2. PICK l : LeadNewPut(l, m)
    BY <1>2, <2>1, LeadNewPuts DEF LapseNew, Types
  <2>5. l \in LayoutRec
    BY <2>2 DEF LeadNewPut, Follows
  <2>3. UNCHANGED new /\ Latest.newEpoch \in lapsedNew'
    BY <1>2 DEF LapseNew
  <2>4. ~FinishNewHandoff
    BY <1>2, <2>2 DEF LapseNew, FinishNewHandoff, Event
  <2> QED
    BY <1>1, <1>2, <2>1, <2>2, <2>3, <2>4, <2>5
<1>3. CASE FinishNewHandoff /\ \E m \in TargetNode \ {Latest.newLeader} : LeadNew(Latest, m)
  <2>1. layouts' # layouts
    <3>1. PICK m \in TargetNode : LeadNew(Latest, m)
      BY <1>3
    <3>2. PICK l : PutLayout(l) /\ Follows(l)
      BY <1>3, <3>1, LeadNewPuts DEF LeadNewPut, Types, FinishNewHandoff
    <3>3. Len(layouts') = Len(layouts) + 1 /\ Len(layouts) \in Nat
      BY <3>2, PutIs, LatestIs DEF Follows, Types
    <3> QED
      BY <3>3
  <2>2. PICK m \in TargetNode : /\ m # n /\ LeadNew(Latest, m) /\ poll.follower[m] >= poll.seq
                                /\ poll # NoPoll /\ poll.version = Latest.newHandoff
                                /\ FreshPoll => Len(new[n].log) = poll.seq
    BY <1>1, <1>3, <2>1 DEF FinishNewHandoff
  <2>3. PICK l : LeadNewPut(l, m)
    BY <1>3, <2>2, LeadNewPuts DEF FinishNewHandoff, Types
  <2>6. l \in LayoutRec
    BY <2>3 DEF LeadNewPut, Follows
  <2>4. UNCHANGED new /\ SealedFor(n)
    BY <1>1, <1>3, <2>2 DEF FinishNewHandoff, Polled, SealedFor
  <2>5. ~LapseNew
    <3>1. LapseNew => events' = events + 1
      BY DEF LapseNew, Event
    <3>2. events \in Nat /\ events' = events
      BY <1>3 DEF FinishNewHandoff, Types, OtherTypes
    <3> QED
      BY <3>1, <3>2
  <2> QED
    BY <1>1, <1>3, <2>2, <2>3, <2>4, <2>5, <2>6
<1> QED
  BY <1>2, <1>3

LEMMA NewStep ==
  ASSUME Types, Order, Types', Order', New, Polled, [Next]_vars
  PROVE  New'
<1>0. Grown /\ lapsedNew \subseteq lapsedNew' /\ \A n \in TargetNode : new[n].log \in Seq(Nat)
  BY LayoutStep, LapsedGrows, NewFields DEF Types, NewTypes
<1>1. CASE LapseNew \/ (FinishNewHandoff /\ \E m \in TargetNode \ {Latest.newLeader} : LeadNew(Latest, m))
  BY <1>0, <1>1, LeadsNewIs, LeadNewNew
<1>2. CASE FinishNewHandoff /\ UNCHANGED layouts
  BY <1>0, <1>2, NewFrame DEF FinishNewHandoff, Latest
<1>3. CASE UNCHANGED new /\ Latest'.newEpoch = Latest.newEpoch /\ Latest'.newLeader = Latest.newLeader
  BY <1>0, <1>3, NewFrame
<1>4. ASSUME NEW n \in TargetNode, NEW v \in Version, ApplyNew(n, v) PROVE New'
  BY <1>4, ApplyNewNew
<1>5. ASSUME NEW n \in TargetNode, WriteNew(n) PROVE New'
  <2>1. PICK v \in Nat : /\ Append(new[n].log, v) \in Seq(Nat)
                         /\ new' = [new EXCEPT ![n].log = Append(new[n].log, v)]
    BY <1>5, WriteNewIs
  <2>2. PICK ops \in Seq(Nat) : Append(new[n].log, v) = new[n].log \o ops
    BY <1>0, AppendIs
  <2>3. UNCHANGED <<layouts, lapsedNew>> /\ new[n].role = "leader"
    BY <1>5 DEF WriteNew, Acknowledge, TakesNew, lapsed
  <2> QED
    BY <2>1, <2>2, <2>3, LogGrows
<1>6. ASSUME NEW n \in TargetNode, Replicate(n) PROVE New'
  BY <1>6, ReplicateNew
<1>7. ASSUME NEW p \in Pull, ImportSnapshot(p) \/ DeleteStale(p) \/ ImportLog(p) PROVE New'
  <2>1. PICK ops \in Seq(Nat), next \in {"stale", "freeze", "answer"} : Import(p, ops, next)
    BY <1>7, ImportCases
  <2>2. PICK n \in TargetNode : n = pull[p].node
    BY <1>7, ImportCases
  <2>3. /\ new[n].role = "leader" /\ new[n].log \o ops \in Seq(Nat)
        /\ new' = [new EXCEPT ![n].log = new[n].log \o ops]
    BY <2>1, <2>2, ImportIs DEF Into
  <2>4. UNCHANGED <<layouts, lapsedNew>>
    BY <2>1 DEF Import, ghost, lapsed
  <2> QED
    BY <2>3, <2>4, LogGrows
<1>8. CASE FinishNewHandoff
  BY <1>1, <1>2, <1>8 DEF FinishNewHandoff
<1>9. CASE Latest'.newEpoch = Latest.newEpoch /\ Latest'.newLeader = Latest.newLeader
  BY <1>1, <1>3, <1>4, <1>5, <1>6, <1>7, <1>9, NewUnchanged
<1> QED
  BY <1>1, <1>8, <1>9, LatestStep

\* A handoff that is not new was in progress before.
LEMMA HandoffStays ==
  ASSUME Types, Order, [Next]_vars, Latest'.newHandoff # 0, Latest'.newHandoff <= Len(layouts)
  PROVE  /\ Latest'.newHandoff = Latest.newHandoff /\ Latest'.newEpoch = Latest.newEpoch
         /\ Latest'.newLeader = Latest.newLeader
<1>0. LayoutTypes /\ OtherTypes /\ Len(layouts) \in Nat
  BY LatestIs DEF Types
<1>1. CASE Writeless
  BY <1>1, WritelessIs DEF Latest
<1>2. CASE StartHandoff \/ CancelHandoff
  BY <1>0, <1>2, HandoffPuts, GrownPut DEF HandoffPut, SameOld, SameNew
<1>3. CASE FinishOldHandoff \/ LapseOld
  BY <1>0, <1>3, LeadOldPuts, GrownPut DEF LeadOldPut, SameNew
<1>4. ASSUME NEW m \in TargetNode, LeadNew(Latest, m), Event \/ UNCHANGED events
      PROVE  FALSE
  BY <1>0, <1>4, LeadNewPuts, GrownPut DEF LeadNewPut
<1>5. CASE FinishNewHandoff /\ \E m \in TargetNode \ {Latest.newLeader} : LeadNew(Latest, m)
  BY <1>4, <1>5 DEF FinishNewHandoff
<1>6. CASE LapseNew
  BY <1>4, <1>6 DEF LapseNew
<1>7. CASE \E p \in Pull : MarkDone(p) /\ PutLayout([Latest EXCEPT !.done = TRUE])
  <2>1. UNCHANGED events
    BY <1>7 DEF MarkDone
  <2> QED
    BY <1>0, <1>7, <2>1, DonePuts, GrownPut DEF DonePut, SameNew
<1> QED
  BY <1>1, <1>2, <1>3, <1>5, <1>6, <1>7, NextCases

\* What a round knows of the replica x, and that the leader n has sealed.
PollKnows(n, x) ==
  /\ new[n].role = "leader" /\ new[n].view >= Latest.newHandoff
  /\ x # n /\ poll.follower[x] >= poll.seq =>
       new[x].dataEpoch = Latest.newEpoch /\ Len(new[x].log) >= poll.seq

LEMMA PollKept ==
  ASSUME Types, Order, Types', New, [Next]_vars, UNCHANGED poll, NEW n \in TargetNode, NEW x \in TargetNode,
         n = Latest.newLeader, PollKnows(n, x), Latest.newHandoff # 0, ~LapseNew,
         Latest'.newHandoff = Latest.newHandoff, Latest'.newEpoch = Latest.newEpoch
  PROVE  PollKnows(n, x)'
<1>0. /\ \A y \in TargetNode : /\ NewOf(y) /\ new[y] \in NewRec /\ new[y].log \in Seq(Nat) /\ new[y].view \in Nat
                               /\ new[y].view \in Version
                               /\ Len(new[y].log) \in Nat /\ new[y].role \in {"follower", "leader"}
                               /\ new[y].epoch \in Nat /\ new[y].dataEpoch \in Nat
      /\ poll.seq \in Nat /\ Latest.newHandoff \in Nat /\ Latest.newEpoch \in Nat
  BY NewFields, LatestIs, LayoutFields DEF Types, NewTypes, OtherTypes, PollRec, New
<1>1. ASSUME NEW y \in TargetNode, NewChanges(y), new'[y].role = new[y].role, new'[y].view = new[y].view,
             new'[y].dataEpoch = new[y].dataEpoch, Len(new'[y].log) >= Len(new[y].log)
      PROVE  PollKnows(n, x)'
  <2>1. Len(new'[y].log) \in Nat
    BY NewFields DEF Types, NewTypes
  <2>2. new'[n].role = "leader" /\ new'[n].view = new[n].view
    BY <1>1 DEF PollKnows, NewChanges
  <2>3. new'[x].dataEpoch = new[x].dataEpoch /\ Len(new'[x].log) >= Len(new[x].log) /\ Len(new'[x].log) \in Nat
    <3>1. CASE x = y
      BY <1>1, <2>1, <3>1
    <3>2. CASE x # y
      <4>1. new'[x] = new[x] /\ Len(new[x].log) \in Nat
        BY <1>0, <1>1, <3>2 DEF NewChanges
      <4> QED
        BY <4>1
    <3> QED
      BY <3>1, <3>2
  <2> QED
    BY <1>0, <2>2, <2>3 DEF PollKnows
<1>2. SealedFor(n) /\ new[n].epoch = Latest.newEpoch
  BY <1>0, SealedLeads DEF PollKnows, SealedFor
<1>3. CASE UNCHANGED new
  BY <1>3 DEF PollKnows
<1>4. ASSUME NEW y \in TargetNode, NEW v \in Version, ApplyNew(y, v) PROVE PollKnows(n, x)'
  <2>1. NewChanges(y) /\ v > new[y].view /\ new'[y].view = v /\ v \in Nat
    BY <1>4, ApplyNewIs DEF Version
  <2>2. /\ layouts[v].newEpoch >= new[y].epoch /\ layouts[v].newEpoch <= Latest.newEpoch
        /\ layouts[v].newEpoch \in Nat
        /\ layouts[v].newEpoch = Latest.newEpoch => layouts[v].newLeader = n
    BY <1>0, <2>1, ViewIs, EpochsGrow
  <2>3. CASE y = n
    <3>1. layouts[v].newLeader = n
      BY <1>0, <1>2, <2>2, <2>3
    <3>2. new'[n].role = "leader"
      BY <1>4, <2>3, <3>1, ApplyNewIs
    <3> QED
      BY <1>0, <2>1, <2>3, <3>2 DEF PollKnows, NewChanges
  <2>4. CASE y # n /\ y = x /\ poll.follower[x] >= poll.seq
    <3>1. new[x].dataEpoch = Latest.newEpoch /\ new[x].dataEpoch <= new[x].epoch
      BY <1>0, <2>4 DEF PollKnows, NewOf
    <3>2. new[x].epoch = Latest.newEpoch /\ layouts[v].newEpoch = Latest.newEpoch
      BY <1>0, <2>2, <2>4, <3>1
    <3>3. layouts[v].newLeader # x /\ new[x].role = "follower"
      BY <1>0, <2>2, <2>4, <3>2, ViewIs
    <3>4. new'[x].log = new[x].log /\ new'[x].dataEpoch = new[x].dataEpoch
      BY <1>4, <2>4, <3>3, ApplyNewIs
    <3> QED
      BY <2>1, <2>4, <3>4 DEF PollKnows, NewChanges
  <2>5. CASE y # n /\ ~(y = x /\ poll.follower[x] >= poll.seq)
    BY <2>1, <2>5 DEF PollKnows, NewChanges
  <2> QED
    BY <2>3, <2>4, <2>5
<1>5. ASSUME NEW y \in TargetNode, WriteNew(y) PROVE PollKnows(n, x)'
  <2>1. PICK v \in Nat : /\ Append(new[y].log, v) \in Seq(Nat)
                         /\ new' = [new EXCEPT ![y].log = Append(new[y].log, v)]
    BY <1>5, WriteNewIs
  <2>2. Len(Append(new[y].log, v)) >= Len(new[y].log)
    BY <1>0, <2>1
  <2> QED
    BY <1>1, <2>1, <2>2, LogIs
<1>6. ASSUME NEW y \in TargetNode, Replicate(y) PROVE PollKnows(n, x)'
  <2>1. PICK z \in TargetNode : z = layouts[new[y].view].newLeader
    BY <1>6, ReplicateIs
  <2>2. /\ new[y].role = "follower" /\ new[z].role = "leader" /\ new[z].epoch = new[y].epoch
        /\ NewChanges(y) /\ new'[y].log = new[z].log /\ new'[y].dataEpoch = new[z].epoch
    BY <1>6, <2>1, ReplicateIs
  <2>3. y # n
    BY <2>2 DEF PollKnows
  <2>4. CASE y = x /\ poll.follower[x] >= poll.seq
    <3>1. new[x].dataEpoch = Latest.newEpoch /\ new[x].dataEpoch <= new[x].epoch /\ Len(new[x].log) >= poll.seq
      BY <1>0, <2>3, <2>4 DEF PollKnows, NewOf
    <3>2. new[x].epoch <= Latest.newEpoch
      BY <1>0, ViewIs
    <3>3. new[z].epoch = new[x].dataEpoch /\ new[x].dataEpoch = Latest.newEpoch
      BY <1>0, <2>2, <2>4, <3>1, <3>2
    <3>4. Begins(new[x].log, new[z].log)
      BY <2>2, <2>4, <3>3 DEF New, FollowsOf
    <3>5. Len(new[z].log) >= poll.seq
      <4>1. Len(new[x].log) <= Len(new[z].log) /\ Len(new[x].log) \in Nat /\ Len(new[z].log) \in Nat
        BY <1>0, <3>4 DEF Begins
      <4>2. poll.seq \in Nat
        BY DEF Types, OtherTypes, PollRec
      <4> QED
        BY <3>1, <4>1, <4>2
    <3>6. new'[n] = new[n]
      BY <2>2, <2>3 DEF NewChanges
    <3>7. new'[x].log = new[z].log /\ new'[x].dataEpoch = Latest.newEpoch
      BY <2>2, <2>4, <3>3
    <3> QED
      BY <3>5, <3>6, <3>7 DEF PollKnows
  <2>5. CASE ~(y = x /\ poll.follower[x] >= poll.seq)
    BY <2>2, <2>3, <2>5 DEF PollKnows, NewChanges
  <2> QED
    BY <2>4, <2>5
<1>7. ASSUME NEW p \in Pull, ImportSnapshot(p) \/ DeleteStale(p) \/ ImportLog(p) PROVE PollKnows(n, x)'
  <2>1. PICK y \in TargetNode, ops \in Seq(Nat) :
          /\ new[y].log \o ops \in Seq(Nat) /\ new' = [new EXCEPT ![y].log = new[y].log \o ops]
    BY <1>7, ImportNew
  <2>2. Len(new[y].log \o ops) >= Len(new[y].log)
    BY <1>0
  <2>3. /\ NewChanges(y) /\ new'[y].log = new[y].log \o ops /\ new'[y].role = new[y].role
        /\ new'[y].view = new[y].view /\ new'[y].epoch = new[y].epoch /\ new'[y].dataEpoch = new[y].dataEpoch
    BY <2>1, LogIs
  <2> QED
    BY <1>1, <2>2, <2>3
<1> QED
  BY <1>3, <1>4, <1>5, <1>6, <1>7, NewUnchanged

LEMMA PolledStep ==
  ASSUME Types, Order, Types', Order', New, Polled, [Next]_vars
  PROVE  Polled'
<1>0. /\ Len(layouts) \in Nat /\ Len(layouts') \in Nat /\ Len(layouts) <= Len(layouts')
      /\ Latest.newHandoff \in Nat /\ Latest.newHandoff <= Len(layouts)
  <2>1. /\ Len(layouts) \in Nat /\ Len(layouts) \in Version /\ Latest.newHandoff \in Nat
        /\ Latest.newHandoff <= Len(layouts) /\ Len(layouts') \in Nat
    BY LatestIs, LayoutFields DEF Types, LayoutTypes, Order
  <2>2. Len(layouts) \in Version'
    BY <2>1, LayoutStep DEF Grown
  <2> QED
    BY <2>1, <2>2 DEF Version
<1>1. \/ UNCHANGED poll /\ ~PollNew /\ ~LapseNew
      \/ UNCHANGED poll /\ LapseNew
      \/ poll' = NoPoll
      \/ PollNew
  BY DEF Next, Apply, PullStep, vars, ApplyOld, ApplyNew, Check, WriteOld, Acknowledge, Refuse,
      FreezeExpires, FollowOld, WriteNew, Replicate, StartHandoff, CancelHandoff, FinishOldHandoff, LapseOld,
      FinishNewHandoff, AbandonPull, LapseNew, StartPull, ReceivePull, FetchSnapshot,
      ImportSnapshot, DeleteStale, FreezeSource, FetchFrozen, ImportLog, Import, GiveUp, MarkDone, FailPull
<1>2. CASE poll' = NoPoll
  <2>1. NoPoll' = NoPoll
    BY DEF NoPoll
  <2> QED
    BY <1>0, <1>2, <2>1, NoPollIs DEF Polled
<1>3. CASE PollNew
  <2>1. PICK n \in TargetNode : n = Latest.newLeader
    BY LatestIs, LayoutFields DEF Types
  <2>2. /\ UNCHANGED <<layouts, new>> /\ Latest' = Latest /\ Latest.newHandoff # 0
        /\ new[n].role = "leader" /\ new[n].view >= Latest.newHandoff
    BY <1>3, <2>1 DEF PollNew, Sealed, Latest
  <2>3. /\ poll'.version = Latest.newHandoff /\ poll'.seq = Len(new[n].log)
        /\ \A m \in TargetNode : poll'.follower[m] = IF new[m].dataEpoch = Latest.newEpoch
                                                       THEN Len(new[m].log) ELSE -1
    BY <1>3, <2>1, PollNewIs
  <2>4. Len(new[n].log) \in Nat
    BY NewFields DEF Types, NewTypes
  <2> QED
    BY <1>0, <2>1, <2>2, <2>3, <2>4 DEF Polled
<1>4. CASE UNCHANGED poll /\ LapseNew
  <2>1. Latest'.newHandoff = 0
    <3>1. PICK m \in TargetNode : LeadNew(Latest, m)
      BY <1>4 DEF LapseNew
    <3> QED
      BY <1>4, <3>1, LeadNewPuts, GrownPut DEF LapseNew, Types, LeadNewPut
  <2>2. poll'.version <= Len(layouts') /\ (poll' # NoPoll => poll'.version # 0) /\ NoPoll' = NoPoll
    BY <1>0, <1>4 DEF Polled, Types, OtherTypes, PollRec, NoPoll
  <2> QED
    BY <2>1, <2>2 DEF Polled
<1>5. CASE UNCHANGED poll /\ ~PollNew /\ ~LapseNew
  <2>1. poll'.version <= Len(layouts') /\ (poll' # NoPoll => poll'.version # 0) /\ NoPoll' = NoPoll
    BY <1>0, <1>5 DEF Polled, Types, OtherTypes, PollRec, NoPoll
  <2>2. ASSUME poll # NoPoll, poll.version = Latest'.newHandoff
        PROVE  LET n == Latest'.newLeader
               IN /\ new'[n].role = "leader" /\ new'[n].view >= Latest'.newHandoff
                  /\ \A m \in TargetNode \ {n} : poll.follower[m] >= poll.seq =>
                       new'[m].dataEpoch = Latest'.newEpoch /\ Len(new'[m].log) >= poll.seq
    <3>1. /\ Latest'.newHandoff = Latest.newHandoff /\ Latest'.newEpoch = Latest.newEpoch
          /\ Latest'.newLeader = Latest.newLeader /\ Latest.newHandoff # 0
      BY <2>2, HandoffStays DEF Polled
    <3>2. PICK n \in TargetNode : n = Latest.newLeader
      BY LatestIs, LayoutFields DEF Types
    <3>3. \A x \in TargetNode : PollKnows(n, x)
      BY <2>2, <3>1, <3>2 DEF Polled, PollKnows
    <3>4. \A x \in TargetNode : PollKnows(n, x)'
      BY <1>5, <3>1, <3>2, <3>3, PollKept
    <3> QED
      BY <1>5, <3>1, <3>2, <3>4 DEF PollKnows
  <2> QED
    BY <1>5, <2>1, <2>2 DEF Polled
<1> QED
  BY <1>1, <1>2, <1>3, <1>4, <1>5

----------------------------------------------------------------------------
(* A pull brings the key's value from stage to stage.                      *)

LEMMA AtIs == ASSUME NEW s \in Seq(Nat), NEW k \in Nat, k <= Len(s) PROVE At(s, k) \in Nat
  BY DEF At

LEMMA AtAppend ==
  ASSUME NEW s \in Seq(Nat), NEW v \in Nat, NEW k \in Nat, k <= Len(s)
  PROVE  At(Append(s, v), k) = At(s, k) /\ k <= Len(Append(s, v))
  BY DEF At

\* The log since a snapshot brings what the snapshot lacks.
LEMMA ValueTail ==
  ASSUME NEW s \in Seq(Nat), NEW t \in Seq(Nat), NEW k \in Nat, k <= Len(s), ValueOf(t) = At(s, k)
  PROVE  ValueOf(t \o SubSeq(s, k + 1, Len(s))) = ValueOf(s)
<1> DEFINE u == SubSeq(s, k + 1, Len(s))
<1>1. Len(s) \in Nat /\ k + 1 >= 1
  OBVIOUS
<1>2. u \in Seq(Nat) /\ Len(u) = Len(s) - k
  BY <1>1
<1>3. CASE k = Len(s)
  <2>1. u = <<>>
    BY <1>1, <1>2, <1>3
  <2> HIDE DEF u
  <2>2. ValueOf(t \o u) = ValueOf(t)
    BY <1>2, <2>1, ValueConcat
  <2> QED
    BY <1>3, <2>2, ValueIs DEF u
<1>4. CASE k < Len(s)
  <2>1. u[Len(s) - k] = s[Len(s)]
    BY <1>1, <1>4
  <2> HIDE DEF u
  <2>2. u # <<>> /\ Len(s) # 0
    BY <1>1, <1>2, <1>4
  <2>3. ValueOf(t \o u) = ValueOf(u)
    BY <1>2, <2>2, ValueConcat
  <2>4. ValueOf(u) = u[Len(u)]
    BY <2>2 DEF ValueOf, Last
  <2>5. s # <<>>
    BY <2>2
  <2>6. ValueOf(s) = s[Len(s)]
    BY <2>5 DEF ValueOf, Last
  <2> QED
    BY <1>2, <2>1, <2>3, <2>4, <2>6 DEF u
<1> QED
  BY <1>1, <1>3, <1>4

\* The source is written while a pull copies it.
LEMMA BroughtWrite ==
  ASSUME NEW q \in PullRec, NEW s \in Seq(Nat), NEW t \in Seq(Nat), NEW v \in Nat, Brought(q, s, t),
         q.pc \notin {"fallback", "replay", "answer"}
  PROVE  Brought(q, Append(s, v), t)
<1>1. q.after \in Nat
  BY PullFields
<1>2. q.after <= Len(s) => At(Append(s, v), q.after) = At(s, q.after) /\ q.after <= Len(Append(s, v))
  BY <1>1, AtAppend
<1> QED
  BY <1>2 DEF Brought

LEMMA BroughtSnapshot ==
  ASSUME NEW q \in PullRec, NEW r \in PullRec, NEW s \in Seq(Nat), NEW t \in Seq(Nat), Brought(q, s, t),
         q.pc = "snapshot", r.pc = "copy", r.existing = q.existing, r.after = Len(s),
         r.seen = (ValueOf(s) # 0), r.ops = IF ValueOf(s) # 0 THEN <<ValueOf(s)>> ELSE <<>>
  PROVE  Brought(r, s, t)
<1>1. At(s, Len(s)) = ValueOf(s) /\ Len(s) \in Nat
  BY ValueIs
<1>2. r.existing = (ValueOf(t) # 0)
  BY DEF Brought
<1>3. r.ops = IF r.seen THEN <<At(s, r.after)>> ELSE <<>>
  BY <1>1
<1> QED
  BY <1>1, <1>2, <1>3 DEF Brought

LEMMA BroughtCopy ==
  ASSUME NEW q \in PullRec, NEW r \in PullRec, NEW s \in Seq(Nat), NEW t \in Seq(Nat), Brought(q, s, t),
         q.pc = "copy", r.pc = "stale", r.existing = q.existing, r.after = q.after, r.seen = q.seen
  PROVE  Brought(r, s, t \o q.ops)
<1>1. /\ q.after <= Len(s) /\ q.seen = (At(s, q.after) # 0) /\ q.existing = (ValueOf(t) # 0)
      /\ q.ops = IF q.seen THEN <<At(s, q.after)>> ELSE <<>>
      /\ q.after \in Nat /\ q.ops \in Seq(Nat)
  BY PullFields DEF Brought
<1>2. At(s, q.after) \in Nat
  BY <1>1, AtIs
<1>3. CASE q.seen
  <2>1. q.ops = <<At(s, q.after)>> /\ q.ops # <<>>
    BY <1>1, <1>3
  <2>2. ValueOf(t \o q.ops) = At(s, q.after)
    BY <1>1, <1>2, <2>1, ValueConcat, ValueOne
  <2> QED
    BY <1>1, <1>3, <2>2 DEF Brought
<1>4. CASE ~q.seen
  <2>1. q.ops = <<>>
    BY <1>1, <1>4
  <2>2. ValueOf(t \o q.ops) = ValueOf(t)
    BY <1>1, <2>1, ValueConcat
  <2> QED
    BY <1>1, <1>4, <2>2 DEF Brought
<1> QED
  BY <1>3, <1>4

LEMMA BroughtStale ==
  ASSUME NEW q \in PullRec, NEW r \in PullRec, NEW s \in Seq(Nat), NEW t \in Seq(Nat), Brought(q, s, t),
         q.pc = "stale", r.pc = "freeze", r.after = q.after, r.seen = q.seen
  PROVE  Brought(r, s, t \o (IF q.existing /\ ~q.seen THEN <<0>> ELSE <<>>))
<1>1. /\ q.after <= Len(s) /\ q.seen = (At(s, q.after) # 0)
      /\ IF q.seen THEN ValueOf(t) = At(s, q.after) ELSE q.existing \/ ValueOf(t) = 0
  BY DEF Brought
<1>2. CASE q.existing /\ ~q.seen
  <2>1. <<0>> \in Seq(Nat) /\ <<0>> # <<>>
    OBVIOUS
  <2>2. ValueOf(t \o <<0>>) = 0
    BY <2>1, ValueConcat, ValueOne
  <2>3. ValueOf(t \o <<0>>) = At(s, q.after)
    BY <1>1, <1>2, <2>2
  <2> QED
    BY <1>1, <1>2, <2>3 DEF Brought
<1>3. CASE ~(q.existing /\ ~q.seen)
  <2>1. <<>> \in Seq(Nat)
    OBVIOUS
  <2>2. ValueOf(t \o <<>>) = ValueOf(t)
    BY <2>1, ValueConcat
  <2>3. ValueOf(t) = At(s, q.after)
    BY <1>1, <1>3
  <2> QED
    BY <1>1, <1>3, <2>2, <2>3 DEF Brought
<1> QED
  BY <1>2, <1>3

LEMMA BroughtFreeze ==
  ASSUME NEW q \in PullRec, NEW r \in PullRec, NEW s \in Seq(Nat), NEW t \in Seq(Nat), Brought(q, s, t),
         q.pc = "freeze", r.after = q.after, r.seen = q.seen,
         \/ r.pc = "replay" /\ r.ops = SubSeq(s, q.after + 1, Len(s))
         \/ r.pc = "fallback"
  PROVE  Brought(r, s, t)
<1>1. /\ q.after <= Len(s) /\ q.seen = (At(s, q.after) # 0) /\ ValueOf(t) = At(s, q.after)
      /\ q.after \in Nat
  BY PullFields DEF Brought
<1>2. CASE r.pc = "replay" /\ r.ops = SubSeq(s, q.after + 1, Len(s))
  <2>1. ValueOf(t \o r.ops) = ValueOf(s)
    BY <1>1, <1>2, ValueTail
  <2> QED
    BY <1>2, <2>1 DEF Brought
<1>3. CASE r.pc = "fallback"
  BY <1>1, <1>3 DEF Brought
<1> QED
  BY <1>2, <1>3

LEMMA BroughtFallback ==
  ASSUME NEW q \in PullRec, NEW r \in PullRec, NEW s \in Seq(Nat), NEW t \in Seq(Nat), Brought(q, s, t),
         q.pc = "fallback", r.pc = "replay",
         r.ops = IF ValueOf(s) # 0 \/ q.seen THEN <<ValueOf(s)>> ELSE <<>>
  PROVE  Brought(r, s, t)
<1>1. q.seen = (At(s, q.after) # 0) /\ ValueOf(t) = At(s, q.after) /\ ValueOf(s) \in Nat /\ r.ops \in Seq(Nat)
  BY ValueIs, PullFields DEF Brought
<1>2. CASE ValueOf(s) # 0 \/ q.seen
  <2>1. r.ops = <<ValueOf(s)>> /\ r.ops # <<>>
    BY <1>2
  <2>2. ValueOf(t \o r.ops) = ValueOf(s)
    <3>1. ValueOf(r.ops) = ValueOf(s)
      BY <1>1, <2>1, ValueOne
    <3>2. ValueOf(t \o r.ops) = ValueOf(r.ops)
      BY <1>1, <2>1, ValueConcat
    <3> QED
      BY <3>1, <3>2
  <2> QED
    BY <2>2 DEF Brought
<1>3. CASE ~(ValueOf(s) # 0 \/ q.seen)
  <2>1. r.ops = <<>> /\ ValueOf(s) = 0
    BY <1>3
  <2>3. ValueOf(t) = 0
    BY <1>1, <1>3
  <2>2. ValueOf(t \o r.ops) = ValueOf(s)
    BY <1>1, <2>1, <2>3, ValueConcat
  <2> QED
    BY <2>2 DEF Brought
<1> QED
  BY <1>2, <1>3

----------------------------------------------------------------------------
(* Steps that matter to the key's value.                                   *)

LEMMA TakesNewIs ==
  ASSUME Types, Order, New, NEW n \in TargetNode, TakesNew(n), TargetNew(n)
  PROVE  new[n].epoch \in lapsedNew \/ (n = Latest.newLeader /\ new[n].epoch = Latest.newEpoch)
<1>1. NewOf(n) /\ new[n].view \in Version /\ new[n].role = "leader" /\ new[n].sealed = FALSE
  BY NewFields DEF New, Types, NewTypes, TakesNew
<1>2. new[n].view >= new[n].view /\ new[n].epoch \in Nat /\ new[n].epoch <= Latest.newEpoch /\ Latest.newEpoch \in Nat
  BY <1>1, ViewIs, EpochsGrow DEF Version
<1>3. new[n].epoch < Latest.newEpoch => new[n].epoch \in lapsedNew
  BY <1>1, <1>2 DEF NewOf
<1>4. new[n].epoch = Latest.newEpoch => n = Latest.newLeader
  BY <1>1, EpochsGrow DEF NewOf
<1> QED
  BY <1>2, <1>3, <1>4

LEMMA TruthIs ==
  ASSUME [Next]_vars
  PROVE  \/ UNCHANGED truth
         \/ \E e \in OldEpoch : WriteOld(e) \/ FollowOld(e)
         \/ \E n \in TargetNode : WriteNew(n) \/ Replicate(n)
  BY GhostStep

LEMMA WaitingOrigin ==
  ASSUME [Next]_vars
  PROVE  waiting' \in {waiting, NoPull} \/ \E p \in Pull : StartPull(p) /\ waiting' = p
  BY DEF Next, Apply, PullStep, vars, ApplyOld, ApplyNew, Check, WriteOld, Acknowledge, Refuse,
      FreezeExpires, FollowOld, WriteNew, Replicate, StartHandoff, CancelHandoff, FinishOldHandoff, LapseOld,
      PollNew, FinishNewHandoff, AbandonPull, LapseNew, StartPull, ReceivePull, FetchSnapshot,
      ImportSnapshot, DeleteStale, FreezeSource, FetchFrozen, ImportLog, Import, GiveUp, MarkDone, FailPull

\* The steps of a pull that goes on.
Proceeds(p) ==
  \/ ReceivePull(p) \/ FetchSnapshot(p) \/ ImportSnapshot(p) \/ DeleteStale(p)
  \/ FreezeSource(p) \/ FetchFrozen(p) \/ ImportLog(p)

\* The log of the source's leader, while it leads.
LEMMA SourceLog ==
  ASSUME Types, Order, [Next]_vars, NEW e \in OldEpoch, e = Latest.oldEpoch, e = Latest'.oldEpoch
  PROVE  /\ old'[e].log = old[e].log \/ WriteOld(e) \/ FollowOld(e)
         /\ old[e].role = "leader" => old'[e].role = "leader"
<1> DEFINE Leads == old[e].role = "leader" => old'[e].role = "leader"
<1>1. CASE UNCHANGED old
  BY <1>1
<1>2. ASSUME NEW x \in OldEpoch, OldChanges(x), x # e PROVE old'[e] = old[e]
  BY <1>2 DEF OldChanges
<1>3. ASSUME NEW x \in OldEpoch, NEW v \in Version, ApplyOld(x, v) PROVE old'[e].log = old[e].log /\ Leads
  <2>0. v <= Len(layouts) /\ Len(layouts) \in Version /\ Latest = layouts[Len(layouts)]
    BY LatestIs DEF Types, Version
  <2>1. layouts[v].oldEpoch <= Latest.oldEpoch
    BY <2>0 DEF Order, Precedes
  <2>2. layouts[v].oldEpoch \in Nat /\ e \in Nat
    BY LatestIs, LayoutFields DEF Types
  <2> QED
    BY <1>2, <1>3, <2>1, <2>2, ApplyOldIs
<1>4. ASSUME NEW x \in OldEpoch, WriteOld(x) PROVE (old'[e].log = old[e].log \/ WriteOld(e)) /\ Leads
  BY <1>2, <1>4, WriteOldIs
<1>5. ASSUME NEW x \in OldEpoch, FreezeExpires(x) PROVE old'[e].log = old[e].log /\ Leads
  BY <1>2, <1>5, FreezeIs DEF FreezeExpires
<1>6. ASSUME NEW p \in Pull, FreezeSource(p) PROVE old'[e].log = old[e].log /\ Leads
  <2>1. pull[p].sEpoch \in OldEpoch /\ old' = [old EXCEPT ![pull[p].sEpoch].frozen = TRUE]
    BY <1>6, Ends DEF FreezeSource
  <2> QED
    BY <1>2, <2>1, FreezeIs
<1>7. ~FinishOldHandoff /\ ~LapseOld
  <2>1. FinishOldHandoff \/ LapseOld => Latest'.oldEpoch = Latest.oldEpoch + 1
    BY LeadOldPuts, GrownPut DEF Types, LeadOldPut
  <2>2. e \in Nat
    BY LatestIs, LayoutFields DEF Types
  <2> QED
    BY <2>1, <2>2
<1>8. ASSUME NEW x \in OldEpoch, FollowOld(x) PROVE (old'[e].log = old[e].log \/ FollowOld(e)) /\ Leads
  BY <1>2, <1>8, FollowOldIs
<1> QED
  BY <1>1, <1>3, <1>4, <1>5, <1>6, <1>7, <1>8
  DEF Next, Apply, PullStep, Version, vars, ApplyNew, Check, Refuse, WriteNew, Replicate, StartHandoff,
      CancelHandoff, PollNew, FinishNewHandoff, LapseNew, AbandonPull, StartPull, ReceivePull,
      FetchSnapshot, ImportSnapshot, DeleteStale, FetchFrozen, ImportLog, Import, GiveUp, MarkDone,
      FailPull

\* The target's leader keeps its office and its log, while it leads.
LEMMA TargetLog ==
  ASSUME Types, Order, New, [Next]_vars, NEW n \in TargetNode, n = Latest.newLeader,
         Latest'.newEpoch = Latest.newEpoch, new[n].role = "leader", new[n].epoch = Latest.newEpoch
  PROVE  /\ new'[n].role = "leader" /\ new'[n].epoch = Latest.newEpoch
         /\ \/ new'[n].log = new[n].log
            \/ WriteNew(n)
            \/ \E p \in Pull : pull[p].node = n /\ (ImportSnapshot(p) \/ DeleteStale(p) \/ ImportLog(p))
<1>0. NewOf(n) /\ \A x \in TargetNode : new[x].log \in Seq(Nat)
  BY NewFields DEF New, Types, NewTypes
<1>1. CASE UNCHANGED new
  BY <1>1
<1>2. ASSUME NEW x \in TargetNode, NewChanges(x), x # n PROVE new'[n] = new[n]
  BY <1>2 DEF NewChanges
<1>3. ASSUME NEW x \in TargetNode, NEW v \in Version, ApplyNew(x, v)
      PROVE  new'[n].role = "leader" /\ new'[n].epoch = Latest.newEpoch /\ new'[n].log = new[n].log
  <2>1. CASE x # n
    BY <1>2, <1>3, <2>1, ApplyNewIs
  <2>2. CASE x = n
    <3>1. v > new[n].view /\ new[n].view \in Nat /\ v \in Nat
      BY <1>3, <2>2, ApplyNewIs, NewFields DEF Types, NewTypes, Version
    <3>2. layouts[v].newEpoch >= new[n].epoch
      BY <1>0, <3>1, ViewIs
    <3>3. layouts[v].newEpoch = Latest.newEpoch /\ layouts[v].newLeader = n
      BY <3>2, EpochsGrow
    <3> QED
      BY <1>3, <2>2, <3>3, ApplyNewIs
  <2> QED
    BY <2>1, <2>2
<1>4. ASSUME NEW x \in TargetNode, NEW log \in Seq(Nat), new' = [new EXCEPT ![x].log = log]
      PROVE  /\ new'[n].role = "leader" /\ new'[n].epoch = Latest.newEpoch
             /\ x # n => new'[n].log = new[n].log
  BY <1>2, <1>4, LogIs
<1>5. ASSUME NEW x \in TargetNode, WriteNew(x)
      PROVE  /\ new'[n].role = "leader" /\ new'[n].epoch = Latest.newEpoch
             /\ new'[n].log = new[n].log \/ WriteNew(n)
  BY <1>4, <1>5, WriteNewIs
<1>6. ASSUME NEW x \in TargetNode, Replicate(x)
      PROVE  new'[n].role = "leader" /\ new'[n].epoch = Latest.newEpoch /\ new'[n].log = new[n].log
  BY <1>2, <1>6, ReplicateIs
<1>7. ASSUME NEW p \in Pull, ImportSnapshot(p) \/ DeleteStale(p) \/ ImportLog(p)
      PROVE  /\ new'[n].role = "leader" /\ new'[n].epoch = Latest.newEpoch
             /\ new'[n].log = new[n].log \/ pull[p].node = n
  <2>1. PICK ops \in Seq(Nat), next \in {"stale", "freeze", "answer"} : Import(p, ops, next)
    BY <1>7, ImportCases
  <2>2. PICK y \in TargetNode : y = pull[p].node
    BY <1>7, ImportCases
  <2>3. new[y].log \o ops \in Seq(Nat) /\ new' = [new EXCEPT ![y].log = new[y].log \o ops]
    BY <2>1, <2>2, ImportIs DEF Into
  <2> QED
    BY <1>4, <2>2, <2>3
<1> QED
  BY <1>1, <1>3, <1>5, <1>6, <1>7, NewUnchanged

----------------------------------------------------------------------------
(* The value is with the source, then with the target.                     *)

LEMMA SourceStep ==
  ASSUME Safe, Safe', FreezeOutlasts, SourceHasTruth, [Next]_vars
  PROVE  SourceHasTruth'
<1> SUFFICES ASSUME ~Latest'.done PROVE truth'.value = ValueOf(old'[Latest'.oldEpoch].log)
  BY DEF SourceHasTruth
<1>0. Types /\ Order /\ Types' /\ Order' /\ \A x \in OldEpoch : old[x].log \in Seq(Nat)
  BY OldFields DEF Safe, Types, OldTypes
<1>1. ~Latest.done
  <2>1. Latest.done \in BOOLEAN /\ (Latest.done => Latest'.done)
    BY <1>0, LayoutStep, Later, LatestIs, LayoutFields DEF Precedes, Types
  <2> QED
    BY <2>1
<1>2. PICK e \in OldEpoch : e = Latest.oldEpoch
  BY <1>0, LatestIs, LayoutFields DEF Types
<1>3. truth.value = ValueOf(old[e].log)
  BY <1>1, <1>2 DEF SourceHasTruth
<1>4. e \notin lapsedOld
  <2>1. e \in Nat
    BY MigrationBounds DEF OldEpoch
  <2> QED
    BY <1>2, <2>1 DEF Safe, Past
<1>5. ASSUME NEW n \in TargetNode, WriteNew(n) \/ Replicate(n)
      PROVE  truth'.value = truth.value /\ UNCHANGED <<layouts, old>>
  <2>1. ~WriteNew(n)
    BY <1>0, <1>1, TargetIsDone DEF WriteNew
  <2> QED
    BY <1>0, <1>1, <1>5, <2>1, ReplicateIs DEF Replicate
<1>6. ASSUME NEW x \in OldEpoch, WriteOld(x)
      PROVE  truth'.value = ValueOf(old'[e].log) /\ UNCHANGED layouts
  <2>1. PICK v \in Nat : /\ OldChanges(x) /\ old'[x].log = Append(old[x].log, v)
                         /\ truth'.value = IF x \notin lapsedOld THEN v ELSE truth.value
    BY <1>0, <1>6, WriteOldIs
  <2>2. UNCHANGED layouts
    BY <1>6 DEF WriteOld, Acknowledge
  <2>3. x \in lapsedOld \/ x = e
    BY <1>2, <1>6, TakesOldIs DEF WriteOld
  <2>4. CASE x = e
    <3>1. ValueOf(Append(old[e].log, v)) = v
      BY <1>0, ValueAppend
    <3> QED
      BY <1>4, <2>1, <2>2, <2>4, <3>1
  <2>5. CASE x # e
    BY <1>3, <2>1, <2>2, <2>3, <2>5 DEF OldChanges
  <2> QED
    BY <2>4, <2>5
<1>7. ASSUME NEW x \in OldEpoch, FollowOld(x)
      PROVE  truth'.value = ValueOf(old'[e].log) /\ UNCHANGED layouts
  <2>1. /\ OldChanges(x) /\ UNCHANGED layouts
        /\ truth'.value = IF ~Latest.done /\ x = Latest.oldEpoch THEN ValueOf(old'[x].log) ELSE truth.value
    BY <1>0, <1>7, FollowOldIs DEF FollowOld
  <2>2. CASE x = e
    BY <1>1, <1>2, <2>1, <2>2
  <2>3. CASE x # e
    BY <1>2, <1>3, <2>1, <2>3 DEF OldChanges
  <2> QED
    BY <2>2, <2>3
<1>8. CASE \E x \in OldEpoch : WriteOld(x) \/ FollowOld(x)
  BY <1>2, <1>6, <1>7, <1>8 DEF Latest
<1>9. CASE \E n \in TargetNode : WriteNew(n) \/ Replicate(n)
  BY <1>2, <1>3, <1>5, <1>9 DEF Latest
<1>10. CASE UNCHANGED truth /\ ~WriteOld(e) /\ ~FollowOld(e) /\ Latest'.oldEpoch = Latest.oldEpoch
  BY <1>0, <1>2, <1>3, <1>10, SourceLog
<1>11. CASE FinishOldHandoff \/ LapseOld
  <2>1. OldLed /\ UNCHANGED truth
    BY <1>0, <1>11, LeadsOldIs DEF FinishOldHandoff, LapseOld, ghost
  <2>2. Latest'.oldEpoch = e + 1
    BY <1>0, <1>2, <1>11, LeadOldPuts, GrownPut DEF Types, LeadOldPut
  <2> QED
    BY <1>2, <1>3, <2>1, <2>2 DEF OldLed
<1> QED
  BY <1>0, <1>8, <1>9, <1>10, <1>11, LatestStep, TruthIs

\* A pull that runs in the next state proceeds or waits.
LEMMA PullMoves ==
  ASSUME Types, [Next]_vars, NEW p \in Pull, pull'[p].pc \notin {"idle", "sent"}, ~Proceeds(p)
  PROVE  pull'[p] = pull[p]
<1>1. ASSUME NEW x \in Pull, PullChanges(x), x # p PROVE pull'[p] = pull[p]
  BY <1>1 DEF PullChanges
<1>2. ASSUME NEW x \in Pull, StartPull(x) PROVE pull'[p] = pull[p]
  BY <1>1, <1>2, StartPullIs
<1>3. ASSUME NEW x \in Pull, pull' = [pull EXCEPT ![x] = Idle] PROVE pull'[p] = pull[p]
  BY <1>1, <1>3, IdlePullIs, IdleIs
<1>4. ASSUME NEW x \in Pull, Proceeds(x), x # p PROVE pull'[p] = pull[p]
  <2>1. CASE ReceivePull(x) \/ FetchSnapshot(x)
    BY <1>1, <1>4, <2>1, ReceivePullIs, FetchSnapshotIs, Ends DEF FetchSnapshot
  <2>2. CASE FreezeSource(x) \/ FetchFrozen(x)
    BY <1>1, <1>4, <2>2, FreezeSourceIs, FetchFrozenIs, Ends DEF FreezeSource, FetchFrozen
  <2>3. CASE ImportSnapshot(x) \/ DeleteStale(x) \/ ImportLog(x)
    BY <1>1, <1>4, <2>3, ImportCases, ImportIs
  <2> QED
    BY <1>4, <2>1, <2>2, <2>3 DEF Proceeds
<1>5. ASSUME NEW x \in Pull, GiveUp(x) \/ FailPull(x) \/ MarkDone(x) PROVE pull'[p] = pull[p]
  BY <1>3, <1>5 DEF GiveUp, FailPull, MarkDone
<1>6. CASE UNCHANGED pull
  BY <1>6
<1>7. ASSUME NEW x \in Pull, Proceeds(x) PROVE pull'[p] = pull[p]
  BY <1>4, <1>7
<1> QED
  BY <1>2, <1>5, <1>6, <1>7
  DEF Next, Apply, PullStep, Proceeds, vars, ApplyOld, ApplyNew, Check, WriteOld, Acknowledge, Refuse,
      FreezeExpires, FollowOld, WriteNew, Replicate, StartHandoff, CancelHandoff, FinishOldHandoff,
      LapseOld, LapseNew, PollNew, FinishNewHandoff, AbandonPull

\* The log of the target in a step of its pull.
LEMMA ImportBrings ==
  ASSUME Types, NEW p \in Pull, NEW n \in TargetNode, n = pull[p].node, NEW ops \in Seq(Nat),
         NEW next \in {"stale", "freeze", "answer"}, Import(p, ops, next)
  PROVE  /\ new'[n].log = new[n].log \o ops /\ new[n].log \o ops \in Seq(Nat)
         /\ pull'[p] \in PullRec /\ pull'[p].pc = next /\ SameTrace(p)
         /\ pull'[p].existing = (pull[p].existing /\ next = "stale")
<1>1. /\ PullChanges(p) /\ SameTrace(p) /\ pull'[p].pc = next
      /\ pull'[p].existing = (pull[p].existing /\ next = "stale")
      /\ new[n].log \o ops \in Seq(Nat) /\ new' = [new EXCEPT ![n].log = new[n].log \o ops]
  <2>1. pull[p].node \in TargetNode /\ Into(p) = new[n]
    BY DEF Into
  <2>2. /\ PullChanges(p) /\ SameTrace(p) /\ pull'[p].pc = next
        /\ pull'[p].existing = (pull[p].existing /\ next = "stale")
        /\ Into(p).log \o ops \in Seq(Nat)
        /\ new' = [new EXCEPT ![pull[p].node].log = Into(p).log \o ops]
    BY <2>1, ImportIs, Zenon
  <2>3. new[n].log \o ops \in Seq(Nat) /\ new' = [new EXCEPT ![n].log = new[n].log \o ops]
    BY <2>1, <2>2, Zenon
  <2> QED
    BY <2>2, <2>3, Zenon
<1>2. new'[n].log = new[n].log \o ops
  BY <1>1, LogIs
<1> QED
  BY <1>1, <1>2 DEF PullChanges

\* A pull that proceeds takes the next stage with what it brought.
LEMMA ProceedsBrings ==
  ASSUME Types, NEW p \in Pull, Proceeds(p), NEW e \in OldEpoch, e = pull[p].sEpoch,
         NEW n \in TargetNode, n = pull[p].node,
         pull[p].pc # "sent" => Brought(pull[p], old[e].log, new[n].log)
  PROVE  Brought(pull'[p], old'[e].log, new'[n].log)
<1> DEFINE q == pull[p]
           s == old[e].log
           t == new[n].log
<1>0. /\ q \in PullRec /\ s \in Seq(Nat) /\ t \in Seq(Nat) /\ Source(p).log = s /\ Into(p).log = t
      /\ q.ops \in Seq(Nat) /\ q.existing \in BOOLEAN /\ q.seen \in BOOLEAN
  BY OldFields, NewFields, PullFields DEF Types, OldTypes, NewTypes, PullTypes, Source, Into
<1>1. CASE ReceivePull(p)
  <2>1. pull'[p].pc = "snapshot" /\ pull'[p].existing = (ValueOf(t) # 0)
    BY <1>0, <1>1, ReceivePullIs
  <2>2. new'[n].log = t
    BY <1>1 DEF ReceivePull
  <2> HIDE DEF t
  <2> QED
    BY <2>1, <2>2 DEF Brought
<1>2. CASE FetchSnapshot(p)
  <2>1. /\ PullChanges(p) /\ q.pc = "snapshot" /\ pull'[p].pc = "copy"
        /\ pull'[p].existing = q.existing /\ pull'[p].seen = (ValueOf(s) # 0) /\ pull'[p].after = Len(s)
        /\ pull'[p].ops = IF ValueOf(s) # 0 THEN <<ValueOf(s)>> ELSE <<>>
    BY <1>0, <1>2, FetchSnapshotIs
  <2>2. pull'[p] \in PullRec /\ UNCHANGED <<old, new>> /\ Brought(q, s, t)
    BY <1>2, <2>1 DEF FetchSnapshot, PullChanges
  <2> QED
    BY <1>0, <2>1, <2>2, BroughtSnapshot
<1>3. CASE ImportSnapshot(p)
  <2>1. q.pc = "copy" /\ Import(p, q.ops, "stale") /\ UNCHANGED old
    BY <1>3 DEF ImportSnapshot, Import
  <2>2. /\ new'[n].log = t \o q.ops /\ pull'[p] \in PullRec /\ pull'[p].pc = "stale" /\ SameTrace(p)
        /\ pull'[p].existing = (q.existing /\ "stale" = "stale")
    BY <1>0, <2>1, ImportBrings
  <2>3. pull'[p].existing = q.existing
    BY <1>0, <2>2
  <2> QED
    BY <1>0, <2>1, <2>2, <2>3, BroughtCopy DEF SameTrace
<1>4. CASE DeleteStale(p)
  <2> DEFINE ops == IF q.existing /\ ~q.seen THEN <<0>> ELSE <<>>
  <2>1. q.pc = "stale" /\ Import(p, ops, "freeze") /\ UNCHANGED old
    BY <1>4 DEF DeleteStale, Import
  <2>2. ops \in Seq(Nat)
    <3>1. <<0>> \in Seq(Nat) /\ <<>> \in Seq(Nat)
      OBVIOUS
    <3> QED
      BY <3>1
  <2>3. Brought(q, s, t)
    BY <2>1
  <2> HIDE DEF ops
  <2>4. /\ new'[n].log = t \o ops /\ pull'[p] \in PullRec /\ pull'[p].pc = "freeze" /\ SameTrace(p)
    BY <1>0, <2>1, <2>2, ImportBrings
  <2>5. Brought(pull'[p], s, t \o ops)
    BY <1>0, <2>1, <2>3, <2>4, BroughtStale DEF SameTrace, ops
  <2> QED
    BY <2>1, <2>4, <2>5
<1>5. CASE FreezeSource(p)
  <2>1. /\ PullChanges(p) /\ SameTrace(p) /\ q.pc = "freeze"
        /\ old' = [old EXCEPT ![e].frozen = TRUE]
        /\ \/ pull'[p].pc = "replay" /\ pull'[p].ops = SubSeq(s, q.after + 1, Len(s))
           \/ pull'[p].pc = "fallback"
    BY <1>0, <1>5, FreezeSourceIs
  <2>2. old'[e].log = s /\ pull'[p] \in PullRec /\ UNCHANGED new /\ Brought(q, s, t)
    BY <1>5, <2>1, FreezeIs DEF FreezeSource, PullChanges
  <2>3. Brought(pull'[p], s, t)
    BY <1>0, <2>1, <2>2, BroughtFreeze DEF SameTrace
  <2> QED
    BY <2>2, <2>3
<1>6. CASE FetchFrozen(p)
  <2>1. /\ PullChanges(p) /\ q.pc = "fallback" /\ pull'[p].pc = "replay"
        /\ pull'[p].ops = IF ValueOf(s) # 0 \/ q.seen THEN <<ValueOf(s)>> ELSE <<>>
    BY <1>0, <1>6, FetchFrozenIs
  <2>2. pull'[p] \in PullRec /\ UNCHANGED <<old, new>> /\ Brought(q, s, t)
    BY <1>6, <2>1 DEF FetchFrozen, PullChanges
  <2> QED
    BY <1>0, <2>1, <2>2, BroughtFallback
<1>7. CASE ImportLog(p)
  <2>1. q.pc = "replay" /\ Import(p, q.ops, "answer") /\ UNCHANGED old
    BY <1>7 DEF ImportLog, Import
  <2>2. new'[n].log = t \o q.ops /\ pull'[p].pc = "answer"
    BY <1>0, <2>1, ImportBrings
  <2>3. ValueOf(t \o q.ops) = ValueOf(s)
    BY <2>1 DEF Brought
  <2> QED
    BY <2>1, <2>2, <2>3 DEF Brought
<1> QED
  BY <1>1, <1>2, <1>3, <1>4, <1>5, <1>6, <1>7 DEF Proceeds

LEMMA PullingStep ==
  ASSUME Inv, Inv', Calm, Pulling, Done', [Next]_vars
  PROVE  Pulling'
<1> SUFFICES ASSUME NEW p \in Pull, waiting' = p, SameLeaders(p)', pull'[p].pc \notin {"idle", "sent"}
             PROVE  /\ Into(p)'.role = "leader" /\ Into(p)'.epoch = pull'[p].tEpoch
                    /\ pull'[p].pc # "snapshot" => Source(p)'.role = "leader"
                    /\ Brought(pull'[p], Source(p)'.log, Into(p)'.log)
  BY DEF Pulling, Pulled
<1>0. Types /\ Order /\ Types' /\ Order' /\ Asked /\ Safe /\ New /\ FreezeOutlasts /\ Frozen
  BY DEF Inv, Safe, Calm
<1>1. ~StartPull(p)
  BY <1>0, StartPullIs
<1>2. pull[p].pc # "idle" /\ SamePull(p)
  BY <1>0, <1>1, PullOrigin
<1>3. waiting = p
  <2>1. waiting' \in {waiting, NoPull}
    BY <1>1, WaitingOrigin
  <2> QED
    BY <2>1, PullAssumption
<1>4. PICK e \in OldEpoch : e = pull[p].sEpoch
  BY <1>0, <1>2, Ends
<1>5. PICK n \in TargetNode : n = pull[p].node
  BY <1>0, <1>2, Ends
<1>6. /\ pull'[p].sEpoch = e /\ pull'[p].node = n /\ pull'[p].tEpoch = pull[p].tEpoch
      /\ Latest'.newLeader = n /\ Latest'.newEpoch = pull[p].tEpoch /\ Latest'.oldEpoch = e
  BY <1>2, <1>4, <1>5 DEF SamePull, SameLeaders
<1>7. /\ Latest.newLeader = n /\ Latest.newEpoch = pull[p].tEpoch /\ Latest.oldEpoch = e
  <2>1. /\ Precedes(Latest, Latest') /\ Latest.oldEpoch \in Nat /\ Latest'.oldEpoch \in Nat
        /\ Latest.newEpoch \in Nat /\ Latest'.newEpoch \in Nat
    BY <1>0, LayoutStep, Later
  <2>2. e <= Latest.oldEpoch /\ pull[p].tEpoch <= Latest.newEpoch
    BY <1>0, <1>2, <1>4 DEF Asked
  <2>3. Latest.newEpoch = Latest'.newEpoch /\ Latest.oldEpoch = Latest'.oldEpoch
    BY <1>6, <2>1, <2>2 DEF Precedes
  <2> QED
    BY <1>6, <2>1, <2>3 DEF Precedes
<1>8. SameLeaders(p) /\ Pulled(p)
  BY <1>3, <1>4, <1>5, <1>7 DEF SameLeaders, Pulling
<1>9. ~Latest'.done /\ ~Latest.done
  <2>1. ~Latest'.done
    BY DEF Done
  <2>2. Latest.done => Latest'.done
    BY <1>0, LayoutStep, Later DEF Precedes
  <2> QED
    BY <2>1, <2>2
<1>10. /\ pull[p].pc # "sent" => /\ new[n].role = "leader" /\ new[n].epoch = pull[p].tEpoch
                                 /\ pull[p].pc # "snapshot" => old[e].role = "leader"
                                 /\ Brought(pull[p], old[e].log, new[n].log)
       /\ Source(p)' = old'[e] /\ Into(p)' = new'[n]
  BY <1>2, <1>4, <1>5, <1>6, <1>8 DEF Pulled, Source, Into
<1>11. new[n].role = "leader" /\ new[n].epoch = pull[p].tEpoch
  <2>1. CASE pull[p].pc # "sent"
    BY <1>10, <2>1
  <2>2. CASE pull[p].pc = "sent"
    <3>1. pull'[p] # pull[p]
      BY <2>2
    <3>2. Proceeds(p)
      BY <1>0, <3>1, PullMoves
    <3>3. ReceivePull(p)
      BY <2>2, <3>2 DEF Proceeds, FetchSnapshot, ImportSnapshot, DeleteStale, FreezeSource, FetchFrozen, ImportLog
    <3> QED
      BY <1>5, <3>3 DEF ReceivePull, Into
  <2> QED
    BY <2>1, <2>2
<1>12. /\ new'[n].role = "leader" /\ new'[n].epoch = pull[p].tEpoch
       /\ \/ new'[n].log = new[n].log
          \/ WriteNew(n)
          \/ \E x \in Pull : pull[x].node = n /\ (ImportSnapshot(x) \/ DeleteStale(x) \/ ImportLog(x))
  BY <1>0, <1>6, <1>7, <1>11, TargetLog
<1>13. CASE Proceeds(p)
  <2>1. Brought(pull'[p], old'[e].log, new'[n].log)
    BY <1>0, <1>4, <1>5, <1>10, <1>13, ProceedsBrings
  <2>2. ASSUME pull'[p].pc # "snapshot" PROVE old'[e].role = "leader"
    <3>1. ~ReceivePull(p)
      BY <1>0, <2>2, ReceivePullIs
    <3>2. old[e].role = "leader"
      BY <1>4, <1>10, <1>13, <3>1
      DEF Proceeds, FetchSnapshot, ImportSnapshot, DeleteStale, FreezeSource, FetchFrozen, ImportLog, Source
    <3> QED
      BY <1>0, <1>6, <1>7, <3>2, SourceLog
  <2> QED
    BY <1>6, <1>10, <1>12, <2>1, <2>2
<1>14. CASE ~Proceeds(p)
  <2>1. pull'[p] = pull[p] /\ pull[p].pc # "sent"
    BY <1>0, <1>14, PullMoves
  <2>2. new'[n].log = new[n].log
    <3>1. ~WriteNew(n)
      BY <1>0, <1>9, TargetIsDone DEF WriteNew
    <3>2. \A x \in Pull : x = p
      BY DEF Calm
    <3> QED
      BY <1>12, <1>14, <3>1, <3>2 DEF Proceeds
  <2>3. Brought(pull[p], old'[e].log, new[n].log)
    <3>1. CASE old'[e].log = old[e].log
      BY <1>10, <2>1, <3>1
    <3>2. CASE WriteOld(e)
      <4>1. PICK v \in Nat : old'[e].log = Append(old[e].log, v) /\ TakesOld(e)
        BY <1>0, <3>2, WriteOldIs
      <4>2. ~Relies(p)
        BY <1>0, <1>3, <1>4, <1>7, <4>1, PullAssumption DEF Frozen, PullFrozen, Relies, TakesOld, Source
      <4>3. pull[p] \in PullRec /\ old[e].log \in Seq(Nat) /\ new[n].log \in Seq(Nat)
        BY <1>0, OldFields, NewFields DEF Types, PullTypes, OldTypes, NewTypes
      <4> QED
        BY <1>10, <2>1, <4>1, <4>2, <4>3, BroughtWrite DEF Relies
    <3>3. CASE FollowOld(e)
      <4>1. pull[p].pc = "snapshot"
        BY <1>0, <1>10, <2>1, <3>3, FollowOldIs
      <4> QED
        BY <1>10, <4>1 DEF Brought
    <3> QED
      BY <1>0, <1>6, <1>7, <3>1, <3>2, <3>3, SourceLog
  <2>4. pull'[p].pc # "snapshot" => old'[e].role = "leader"
    BY <1>0, <1>6, <1>7, <1>10, <2>1, SourceLog
  <2> QED
    BY <1>6, <1>10, <1>12, <2>1, <2>2, <2>3, <2>4
<1> QED
  BY <1>13, <1>14

\* The replica n is to lead the target and does not know yet.
LEMMA BackedStep ==
  ASSUME Types, Order, Types', Order', New, [Next]_vars, NEW n \in TargetNode, n = Latest.newLeader,
         Latest'.newLeader = n, Latest'.newEpoch = Latest.newEpoch, new[n].role = "follower", Backed(n),
         \/ UNCHANGED new
         \/ \E x \in TargetNode, v \in Version : ApplyNew(x, v)
         \/ \E x \in TargetNode : Replicate(x) \/ (WriteNew(x) /\ new[x].epoch \in lapsedNew),
         UNCHANGED lapsedNew
  PROVE  /\ new'[n].log = new[n].log \/ (Replicate(n) /\ new[n].epoch \in lapsedNew)
         /\ new'[n].role = "leader" => new'[n].epoch = Latest.newEpoch
         /\ new'[n].role = "follower" => Backed(n)'
<1>0. /\ Grown /\ NewOf(n) /\ new[n].view \in Version /\ Latest.newEpoch \in Nat
      /\ \A x \in TargetNode : new[x].epoch \in Nat /\ NewOf(x) /\ new[x].role \in {"follower", "leader"}
      /\ \A i \in Version : layouts[i].newEpoch \in Nat /\ layouts[i].newLeader \in TargetNode
  BY LayoutStep, EpochsGrow, NewFields DEF Types, NewTypes, New
<1>1. ASSUME NEW i \in Version', layouts'[i].newEpoch = new[n].epoch
      PROVE  i \in Version /\ layouts'[i] = layouts[i] /\ layouts[i].newEpoch = new[n].epoch
  <2>1. i \in Version
    BY <1>0, <1>1, Later DEF Precedes, Backed
  <2> QED
    BY <1>0, <1>1, <2>1 DEF Grown
<1>2. PICK b \in TargetNode : b = layouts[new[n].view].newLeader
  BY <1>0
<1>3. /\ b # n /\ new[n].epoch = layouts[new[n].view].newEpoch /\ new[n].epoch + 1 = Latest.newEpoch
      /\ new[n].epoch \notin lapsedNew =>
           /\ new[b].epoch >= new[n].epoch
           /\ new[b].role = "leader" /\ new[b].epoch = new[n].epoch => new[b].log = new[n].log
  BY <1>0, <1>2 DEF Backed, NewOf
<1>4. \A i \in Version : layouts[i].newEpoch = new[n].epoch => layouts[i].newLeader = b
  BY <1>0, <1>2, <1>3, EpochsGrow
<1>5. ASSUME new'[n].epoch = new[n].epoch,
             new[n].epoch \notin lapsedNew =>
               /\ new'[n].log = new[n].log /\ new'[b].epoch >= new[b].epoch /\ new'[b].epoch \in Nat
               /\ new'[b].role = "leader" /\ new'[b].epoch = new[n].epoch =>
                    new[b].role = "leader" /\ new[b].epoch = new[n].epoch /\ new'[b].log = new[b].log
      PROVE  Backed(n)'
  <2>1. ASSUME NEW i \in Version', layouts'[i].newEpoch = new[n].epoch
        PROVE  layouts'[i].newLeader = b
    BY <1>1, <1>4, <2>1
  <2>2. new[n].epoch \notin lapsedNew => new'[b].epoch >= new[n].epoch
    BY <1>0, <1>3, <1>5
  <2> QED
    BY <1>3, <1>5, <2>1, <2>2 DEF Backed
<1>6. CASE UNCHANGED new
  BY <1>0, <1>5, <1>6
<1>7. ASSUME NEW x \in TargetNode, Replicate(x)
      PROVE  /\ new'[n].log = new[n].log \/ (Replicate(n) /\ new[n].epoch \in lapsedNew)
             /\ new'[n].role = "follower" /\ Backed(n)'
  <2>1. PICK z \in TargetNode : z = layouts[new[x].view].newLeader
    BY <1>7, ReplicateIs
  <2>2. /\ new[x].role = "follower" /\ new[z].role = "leader" /\ new[z].epoch = new[x].epoch
        /\ NewChanges(x) /\ new'[x].log = new[z].log /\ new'[x].role = "follower"
        /\ new'[x].epoch = new[x].epoch
    BY <1>7, <2>1, ReplicateIs
  <2>3. /\ new'[n].log = new[n].log \/ (x = n /\ new[n].epoch \in lapsedNew)
        /\ new'[n].role = "follower" /\ new'[n].epoch = new[n].epoch
    <3>1. CASE x = n
      BY <1>2, <1>3, <2>1, <2>2, <3>1
    <3>2. CASE x # n
      BY <2>2, <3>2 DEF NewChanges
    <3> QED
      BY <3>1, <3>2
  <2>4. new'[b].epoch = new[b].epoch /\ (new'[b].role = "leader" => new'[b] = new[b])
    BY <2>2 DEF NewChanges
  <2>5. Backed(n)'
    BY <1>0, <1>5, <2>3, <2>4
  <2> QED
    BY <1>7, <2>3, <2>5
<1>8. ASSUME NEW x \in TargetNode, NEW v \in Version, ApplyNew(x, v)
      PROVE  /\ new'[n].log = new[n].log
             /\ new'[n].role = "leader" => new'[n].epoch = Latest.newEpoch
             /\ new'[n].role = "follower" => Backed(n)'
  <2>0. /\ NewChanges(x) /\ v > new[x].view /\ v \in Nat /\ new[x].view \in Nat
        /\ new'[x].epoch = layouts[v].newEpoch
    BY <1>8, ApplyNewIs, NewFields DEF Version, Types, NewTypes
  <2>1. /\ layouts[v].newEpoch >= new[x].epoch /\ layouts[v].newEpoch <= Latest.newEpoch
        /\ layouts[v].newEpoch = new[x].epoch => (new[x].role = "leader" <=> layouts[v].newLeader = x)
        /\ layouts[v].newEpoch = Latest.newEpoch => layouts[v].newLeader = n
    BY <1>0, <2>0, ViewIs, EpochsGrow
  <2>2. CASE x = n /\ layouts[v].newEpoch = Latest.newEpoch
    BY <1>8, <2>1, <2>2, ApplyNewIs
  <2>3. CASE x = n /\ layouts[v].newEpoch # Latest.newEpoch
    <3>1. layouts[v].newEpoch = new[n].epoch /\ layouts[v].newLeader # n
      BY <1>0, <1>3, <2>1, <2>3
    <3>2. new'[n].log = new[n].log /\ new'[n].role = "follower" /\ new'[n].epoch = new[n].epoch
      BY <1>8, <2>3, <3>1, ApplyNewIs
    <3>3. new'[b] = new[b]
      BY <1>3, <2>0, <2>3 DEF NewChanges
    <3> QED
      BY <1>0, <1>5, <3>2, <3>3
  <2>4. CASE x # n
    <3>1. new'[n] = new[n]
      BY <2>0, <2>4 DEF NewChanges
    <3>2. CASE x # b
      <4>1. new'[b] = new[b]
        BY <2>0, <3>2 DEF NewChanges
      <4> QED
        BY <1>0, <1>5, <3>1, <4>1
    <3>3. CASE x = b
      <4>1. new'[b].epoch >= new[b].epoch /\ new'[b].epoch \in Nat
        BY <1>0, <2>0, <2>1, <3>3
      <4>2. ASSUME new[n].epoch \notin lapsedNew, new'[b].role = "leader", new'[b].epoch = new[n].epoch
            PROVE  new[b].role = "leader" /\ new[b].epoch = new[n].epoch /\ new'[b].log = new[b].log
        <5>1. layouts[v].newEpoch = new[n].epoch /\ layouts[v].newLeader = b
          BY <1>4, <2>0, <3>3, <4>2
        <5>2. new[b].epoch = new[n].epoch
          BY <1>0, <1>3, <2>1, <3>3, <4>2, <5>1
        <5> QED
          BY <1>8, <2>1, <3>3, <5>1, <5>2, ApplyNewIs
      <4> QED
        BY <1>5, <3>1, <4>1, <4>2
    <3> QED
      BY <3>2, <3>3
  <2> QED
    BY <2>2, <2>3, <2>4
<1>9. ASSUME NEW x \in TargetNode, WriteNew(x), new[x].epoch \in lapsedNew
      PROVE  new'[n] = new[n] /\ Backed(n)'
  <2>1. PICK v \in Nat : /\ Append(new[x].log, v) \in Seq(Nat)
                         /\ new' = [new EXCEPT ![x].log = Append(new[x].log, v)]
    BY <1>9, WriteNewIs
  <2>2. /\ NewChanges(x) /\ new'[x].role = new[x].role /\ new'[x].epoch = new[x].epoch /\ x # n
    BY <1>9, <2>1, LogIs DEF WriteNew, TakesNew
  <2>3. new'[n] = new[n] /\ new'[b].epoch = new[b].epoch /\ new'[b].role = new[b].role
    BY <2>2 DEF NewChanges
  <2>4. new[b].epoch = new[n].epoch /\ new[n].epoch \notin lapsedNew => new'[b] = new[b]
    BY <1>9, <2>2 DEF NewChanges
  <2> QED
    BY <1>0, <1>5, <2>3, <2>4
<1> QED
  BY <1>6, <1>7, <1>8, <1>9

\* Another replica is made the target's leader when the target is done.
LEMMA DoneLead ==
  ASSUME Inv, Inv', Calm, Done, Latest.done, [Next]_vars,
         LapseNew \/ (FinishNewHandoff /\ \E m \in TargetNode \ {Latest.newLeader} : LeadNew(Latest, m))
  PROVE  \E m \in TargetNode : /\ m = Latest'.newLeader /\ ValueOf(new'[m].log) = truth.value
                               /\ new'[m].role = "follower" /\ Backed(m)'
<1>0. /\ Types /\ Order /\ Types' /\ Order' /\ New /\ Polled /\ FreshPoll /\ CaughtUpCrash
  BY DEF Inv, Safe, Calm
<1>1. PICK n \in TargetNode, m \in TargetNode, l \in LayoutRec :
        /\ n = Latest.newLeader /\ m # n /\ LeadNewPut(l, m) /\ UNCHANGED new
        /\ (LapseNew /\ Latest.newEpoch \in lapsedNew') \/ (FinishNewHandoff /\ SealedFor(n))
        /\ LapseNew => (Latest.done /\ CaughtUpCrash =>
                          new[m].epoch = Latest.newEpoch /\ new[m].log = new[n].log)
        /\ FinishNewHandoff =>
              /\ poll # NoPoll /\ poll.version = Latest.newHandoff /\ poll.follower[m] >= poll.seq
              /\ FreshPoll => Len(new[n].log) = poll.seq
  BY <1>0, LeadsNewIs
<1>2. /\ NewOf(m) /\ NewOf(n) /\ FollowsOf(m, n) /\ new[m].epoch \in Nat /\ new[m].dataEpoch \in Nat
      /\ new[m].log \in Seq(Nat) /\ new[n].log \in Seq(Nat) /\ new[m].role \in {"follower", "leader"}
  BY <1>0, NewFields DEF New, Types, NewTypes
<1>3. /\ Len(layouts) \in Version /\ Latest = layouts[Len(layouts)] /\ Latest.newEpoch \in Nat
  BY <1>0, LatestIs, LayoutFields DEF Types
<1>4. new[m].epoch <= Latest.newEpoch /\ (new[m].epoch = Latest.newEpoch => new[m].role = "follower")
  BY <1>0, <1>1, <1>2, <1>3, ViewIs
<1>5. new[m].epoch = Latest.newEpoch /\ new[m].log = new[n].log
  <2>1. CASE LapseNew
    BY <1>0, <1>1, <2>1
  <2>2. CASE FinishNewHandoff
    <3>1. /\ poll # NoPoll /\ poll.version = Latest.newHandoff /\ poll.follower[m] >= poll.seq
          /\ Len(new[n].log) = poll.seq
      BY <1>0, <1>1, <2>2
    <3>2. /\ new[m].dataEpoch = Latest.newEpoch /\ Len(new[m].log) >= poll.seq
          /\ new[n].role = "leader" /\ new[n].view >= Latest.newHandoff /\ Latest.newHandoff # 0
      BY <1>0, <1>1, <3>1 DEF Polled
    <3>3. new[n].epoch = Latest.newEpoch
      BY <1>0, <1>2, <3>2, SealedLeads DEF SealedFor
    <3>4. new[m].epoch = Latest.newEpoch
      BY <1>2, <1>3, <1>4, <3>2 DEF NewOf
    <3>5. Begins(new[m].log, new[n].log)
      BY <1>2, <1>4, <3>2, <3>3, <3>4 DEF FollowsOf
    <3> QED
      BY <1>2, <3>1, <3>2, <3>4, <3>5, BeginsSame
  <2> QED
    BY <1>1, <2>1, <2>2
<1>6. /\ Latest'.newLeader = m /\ Latest'.newEpoch = Latest.newEpoch + 1
      /\ \A i \in Version' : layouts'[i].newEpoch = Latest.newEpoch => layouts'[i].newLeader = n
  <2>1. LayoutTypes /\ PutLayout(l) /\ l \in LayoutRec /\ l.newEpoch = Latest.newEpoch + 1 /\ l.newLeader = m
    BY <1>0, <1>1 DEF Types, LeadNewPut, Follows
  <2>2. /\ Latest' = l /\ layouts'[Len(layouts) + 1] = l
        /\ \A i \in Version' : i \in Version \/ i = Len(layouts) + 1
        /\ \A i \in Version : layouts'[i] = layouts[i]
    BY <2>1, PutIs
  <2>3. \A i \in Version : layouts[i].newEpoch = Latest.newEpoch => layouts[i].newLeader = n
    BY <1>0, <1>1, EpochsGrow
  <2> QED
    BY <1>3, <2>1, <2>2, <2>3
<1>7. new'[m] = new[m]
  BY <1>1
<1>8. Latest.newEpoch \notin lapsedNew' =>
        /\ new'[n].epoch >= Latest.newEpoch
        /\ new'[n].role = "leader" => new'[n].log = new[m].log
  <2>1. CASE SealedFor(n)
    BY <1>0, <1>1, <1>2, <1>3, <1>5, <2>1, SealedLeads
  <2> QED
    BY <1>1, <2>1
<1>9. Backed(m)'
  <2>1. new'[m].epoch = Latest.newEpoch /\ new'[m].log = new[m].log
    BY <1>5, <1>7
  <2>2. ASSUME NEW i \in Version', layouts'[i].newEpoch = Latest.newEpoch
        PROVE  layouts'[i].newLeader = n
    BY <1>6, <2>2
  <2> QED
    BY <1>6, <1>8, <2>1, <2>2 DEF Backed
<1>10. ValueOf(new[n].log) = truth.value
  BY <1>1 DEF Done
<1> QED
  BY <1>4, <1>5, <1>6, <1>7, <1>9, <1>10

LEMMA DoneStep ==
  ASSUME Inv, Inv', Calm, SourceHasTruth, Pulling, Done, [Next]_vars
  PROVE  Done'
<1> SUFFICES ASSUME Latest'.done, NEW k \in TargetNode, k = Latest'.newLeader
             PROVE  /\ \A p \in Pull : pull'[p].pc = "idle"
                    /\ ValueOf(new'[k].log) = truth'.value
                    /\ new'[k].role = "leader" => new'[k].epoch = Latest'.newEpoch
                    /\ new'[k].role = "follower" => Backed(k)'
  <2>1. LayoutTypes'
    BY DEF Inv, Safe, Types
  <2>2. Latest' \in LayoutRec
    BY <2>1 DEF LayoutTypes, Latest, Last
  <2>3. Latest'.newLeader \in TargetNode
    BY <2>2, LayoutFields
  <2> QED
    BY <2>3 DEF Done, Backed
<1>0. Types /\ Order /\ Types' /\ Order' /\ Asked /\ Safe /\ New /\ FreezeOutlasts
  BY DEF Inv, Safe, Calm
<1>1. PICK n \in TargetNode : n = Latest.newLeader
  BY <1>0, LatestIs, LayoutFields DEF Types
<1>2. CASE ~Latest.done
  <2>1. PICK p \in Pull : /\ MarkDone(p) /\ SameLeaders(p)
                          /\ Latest'.newEpoch = Latest.newEpoch /\ Latest'.newLeader = Latest.newLeader
    BY <1>0, <1>2, LatestStep
  <2>2. waiting = p /\ pull[p].pc = "answer" /\ pull' = [pull EXCEPT ![p] = Idle] /\ UNCHANGED <<new, truth>>
    BY <2>1 DEF MarkDone, ghost
  <2>3. \A x \in Pull : x = p
    BY DEF Calm
  <2>4. \A x \in Pull : pull'[x].pc = "idle"
    BY <1>0, <2>2, <2>3, IdlePullIs, IdleIs
  <2>5. /\ new[n].role = "leader" /\ new[n].epoch = Latest.newEpoch
        /\ ValueOf(new[n].log) = ValueOf(old[Latest.oldEpoch].log)
    BY <1>1, <2>1, <2>2 DEF Pulling, Pulled, Brought, SameLeaders, Source, Into
  <2>6. ValueOf(new[n].log) = truth.value
    BY <1>2, <2>5 DEF SourceHasTruth
  <2> QED
    BY <1>1, <2>1, <2>2, <2>4, <2>5, <2>6
<1>3. CASE Latest.done
  <2>1. /\ \A p \in Pull : pull[p].pc = "idle"
        /\ ValueOf(new[n].log) = truth.value
        /\ new[n].role = "leader" => new[n].epoch = Latest.newEpoch
        /\ new[n].role = "follower" => Backed(n)
    BY <1>1, <1>3 DEF Done
  <2>2. ASSUME NEW p \in Pull PROVE pull'[p].pc = "idle" /\ ~Proceeds(p)
    <3>1. ~StartPull(p)
      BY <1>3 DEF StartPull
    <3>2. pull'[p].pc = "idle"
      BY <1>0, <2>1, <3>1, PullOrigin
    <3>3. ~Proceeds(p)
      BY <2>1 DEF Proceeds, ReceivePull, FetchSnapshot, ImportSnapshot, DeleteStale, FreezeSource,
                  FetchFrozen, ImportLog
    <3> QED
      BY <3>2, <3>3
  <2>3. truth'.value = truth.value \/ WriteNew(n) \/ Replicate(n)
    <3>1. ASSUME NEW e \in OldEpoch, WriteOld(e) \/ FollowOld(e) PROVE truth'.value = truth.value
      <4>1. WriteOld(e) => e \in lapsedOld
        BY <1>0, <1>3, TakesOldIs DEF WriteOld
      <4> QED
        BY <1>0, <1>3, <3>1, <4>1, WriteOldIs, FollowOldIs
    <3>2. ASSUME NEW x \in TargetNode, x # n, WriteNew(x) \/ Replicate(x) PROVE truth'.value = truth.value
      <4>1. WriteNew(x) => new[x].epoch \in lapsedNew
        BY <1>0, <1>1, <3>2, TakesNewIs DEF WriteNew
      <4> QED
        BY <1>0, <1>1, <3>2, <4>1, WriteNewIs, ReplicateIs
    <3> QED
      BY <3>1, <3>2, TruthIs
  <2>4. CASE WriteNew(n)
    <3>1. new[n].role = "leader" /\ Latest' = Latest
      BY <2>4 DEF WriteNew, TakesNew, Acknowledge, Latest
    <3>2. new[n].epoch \notin lapsedNew
      <4>1. Latest.newEpoch \in Nat
        BY <1>0, LatestIs, LayoutFields DEF Types
      <4> QED
        BY <1>0, <2>1, <3>1, <4>1 DEF Safe, Past
    <3>3. PICK v \in Nat : /\ Append(new[n].log, v) \in Seq(Nat) /\ truth'.value = v
                           /\ new' = [new EXCEPT ![n].log = Append(new[n].log, v)]
      BY <1>0, <2>4, <3>2, WriteNewIs
    <3>4. new[n].log \in Seq(Nat)
      BY <1>0, NewFields DEF Types, NewTypes
    <3>5. new'[n].log = Append(new[n].log, v) /\ new'[n].role = new[n].role /\ new'[n].epoch = new[n].epoch
      BY <1>0, <3>3, LogIs
    <3>6. ValueOf(new'[n].log) = truth'.value
      BY <3>3, <3>4, <3>5, ValueAppend
    <3> QED
      BY <1>1, <2>1, <2>2, <3>1, <3>5, <3>6
  <2>5. CASE ~WriteNew(n)
    <3>1. CASE LapseNew \/ (FinishNewHandoff /\ \E m \in TargetNode \ {Latest.newLeader} : LeadNew(Latest, m))
      <4>1. UNCHANGED truth
        BY <3>1 DEF LapseNew, FinishNewHandoff, ghost
      <4> QED
        BY <1>3, <2>2, <3>1, <4>1, DoneLead
    <3>2. CASE Latest'.newEpoch = Latest.newEpoch /\ Latest'.newLeader = Latest.newLeader /\ ~LapseNew
      <4>1. CASE new[n].role = "leader"
        <5>1. /\ new'[n].role = "leader" /\ new'[n].epoch = Latest.newEpoch /\ new'[n].log = new[n].log
          BY <1>0, <1>1, <2>1, <2>2, <2>5, <3>2, <4>1, TargetLog DEF Proceeds
        <5>2. truth'.value = truth.value
          BY <1>0, <2>3, <2>5, <4>1, ReplicateIs
        <5> QED
          BY <1>1, <2>1, <2>2, <3>2, <5>1, <5>2
      <4>2. CASE new[n].role = "follower"
        <5>1. \A x \in TargetNode : WriteNew(x) => new[x].epoch \in lapsedNew
          BY <1>0, <1>1, <2>5, TakesNewIs DEF WriteNew
        <5>2. \/ UNCHANGED new
              \/ \E x \in TargetNode, v \in Version : ApplyNew(x, v)
              \/ \E x \in TargetNode : Replicate(x) \/ (WriteNew(x) /\ new[x].epoch \in lapsedNew)
          BY <2>2, <5>1, NewUnchanged DEF Proceeds
        <5>3. UNCHANGED lapsedNew
          BY <3>2, GhostStep
        <5>4. /\ new'[n].log = new[n].log \/ (Replicate(n) /\ new[n].epoch \in lapsedNew)
              /\ new'[n].role = "leader" => new'[n].epoch = Latest.newEpoch
              /\ new'[n].role = "follower" => Backed(n)'
          BY <1>0, <1>1, <2>1, <3>2, <4>2, <5>2, <5>3, BackedStep
        <5>5. ValueOf(new'[n].log) = truth'.value
          <6>1. CASE Replicate(n) /\ new[n].epoch \in lapsedNew
            BY <1>0, <1>1, <1>3, <6>1, ReplicateIs
          <6>2. CASE ~(Replicate(n) /\ new[n].epoch \in lapsedNew)
            <7>1. truth'.value = truth.value
              BY <1>0, <2>3, <2>5, <6>2, ReplicateIs
            <7> QED
              BY <2>1, <5>4, <6>2, <7>1
          <6> QED
            BY <6>1, <6>2
        <5> QED
          BY <1>1, <2>2, <3>2, <5>4, <5>5
      <4> QED
        BY <1>0, <4>1, <4>2, NewFields DEF Types, NewTypes
    <3>3. FinishNewHandoff => \/ UNCHANGED layouts
                              \/ \E m \in TargetNode \ {Latest.newLeader} : LeadNew(Latest, m)
      BY DEF FinishNewHandoff
    <3> QED
      BY <1>0, <3>1, <3>2, <3>3, LatestStep DEF Latest
  <2> QED
    BY <2>3, <2>4, <2>5
<1> QED
  BY <1>2, <1>3

----------------------------------------------------------------------------
(* The whole invariant.                                                    *)

LEMMA TargetInit ==
  ASSUME Init
  PROVE  New /\ Polled
<1> DEFINE n == CHOOSE n \in TargetNode : TRUE
           l == [oldEpoch |-> 1, oldHandoff |-> 0, newLeader |-> n, newEpoch |-> 1, newHandoff |-> 0,
                 done |-> FALSE]
<1>0. n \in TargetNode
  BY TargetAssumption
<1>1. /\ layouts = <<l>> /\ poll = NoPoll
      /\ new = [m \in TargetNode |-> [role |-> IF m = n THEN "leader" ELSE "follower", epoch |-> 1,
                                      dataEpoch |-> IF m = n THEN 1 ELSE 0,
                                      log |-> <<>>, sealed |-> FALSE, view |-> 1]]
  BY Zenon DEF Init
<1>2. l.newLeader = n /\ l.newEpoch = 1 /\ l.newHandoff = 0
  OBVIOUS
<1> HIDE DEF l
<1>3. Len(layouts) = 1 /\ Latest = l /\ Version = {1} /\ layouts[1] = l
  BY <1>1 DEF Latest, Last, Version
<1>4. ASSUME NEW m \in TargetNode
      PROVE  /\ new[m].epoch = 1 /\ new[m].log = <<>> /\ new[m].view = 1 /\ new[m].sealed = FALSE
             /\ new[m].role = IF m = n THEN "leader" ELSE "follower"
  BY <1>1
<1>5. ASSUME NEW m \in TargetNode
      PROVE  new[m].epoch = 1 /\ new[m].dataEpoch \in {0, 1} /\ (m = n => new[m].dataEpoch = 1)
  BY <1>1
<1> HIDE DEF n
<1>6. ASSUME NEW m \in TargetNode PROVE NewOf(m)
  <2>1. /\ layouts[new[m].view].newEpoch = 1 /\ layouts[new[m].view].newLeader = n
        /\ layouts[new[m].view].newHandoff = 0 /\ Latest.newEpoch = 1
    BY <1>2, <1>3, <1>4
  <2>2. new[m].sealed = (layouts[new[m].view].newHandoff # 0)
    BY <1>4, <2>1
  <2>3. new[m].epoch = layouts[new[m].view].newEpoch /\ ~(new[m].epoch < Latest.newEpoch)
    BY <1>5, <2>1
  <2>4. new[m].dataEpoch <= new[m].epoch /\ (m = n => new[m].dataEpoch = new[m].epoch)
    BY <1>5
  <2>5. new[m].dataEpoch <= new[m].epoch /\ (new[m].role = "leader" => new[m].dataEpoch = new[m].epoch)
    BY <1>4, <2>4
  <2>6. new[m].role = "leader" <=> layouts[new[m].view].newLeader = m
    BY <1>4, <2>1
  <2> QED
    BY <2>2, <2>3, <2>5, <2>6 DEF NewOf
<1>7. ASSUME NEW m \in TargetNode, NEW k \in TargetNode PROVE FollowsOf(m, k)
  <2>1. Begins(<<>>, <<>>)
    BY DEF Begins
  <2>2. new[m].log = <<>> /\ new[k].log = <<>>
    BY <1>4
  <2>3. new[k].epoch >= new[m].dataEpoch
    BY <1>5
  <2> QED
    BY <2>1, <2>2, <2>3 DEF FollowsOf
<1>8. Ended
  BY <1>2, <1>3 DEF Ended
<1>9. Polled
  BY <1>1, <1>2, <1>3 DEF Polled, NoPoll
<1> QED
  BY <1>6, <1>7, <1>8, <1>9 DEF New

LEMMA ValuesInit ==
  ASSUME Init
  PROVE  SourceHasTruth /\ Pulling /\ Done
<1> DEFINE n == CHOOSE n \in TargetNode : TRUE
           l == [oldEpoch |-> 1, oldHandoff |-> 0, newLeader |-> n, newEpoch |-> 1, newHandoff |-> 0,
                 done |-> FALSE]
<1>1. PICK log \in {<<>>, <<1>>} :
        /\ layouts = <<l>> /\ waiting = NoPull
        /\ old = [e \in OldEpoch |->
                    IF e = 1 THEN [NoLeader EXCEPT !.role = "leader", !.log = log] ELSE NoLeader]
        /\ truth = [value |-> ValueOf(log), side |-> "old"]
  BY Zenon DEF Init
<1>2. l.oldEpoch = 1 /\ l.done = FALSE
  OBVIOUS
<1> HIDE DEF l
<1>3. Latest = l
  BY <1>1 DEF Latest, Last
<1>4. 1 \in OldEpoch
  BY MigrationBounds DEF OldEpoch
<1>5. old[1].log = log
  BY <1>1, <1>4 DEF NoLeader
<1>6. truth.value = ValueOf(log)
  BY <1>1
<1>7. SourceHasTruth
  BY <1>2, <1>3, <1>5, <1>6 DEF SourceHasTruth
<1>8. Pulling
  BY <1>1, PullAssumption DEF Pulling
<1>9. Done
  BY <1>2, <1>3 DEF Done
<1> QED
  BY <1>7, <1>8, <1>9

LEMMA InvStep ==
  ASSUME Inv, [Next]_vars
  PROVE  Inv'
<1>1. Safe' /\ Types /\ Order /\ Types' /\ Order'
  BY SafeStep DEF Inv, Safe
<1>2. New' /\ Polled'
  BY <1>1, NewStep, PolledStep DEF Inv
<1> QED
  BY <1>1, <1>2 DEF Inv

LEMMA ValuesStep ==
  ASSUME Inv, Values, [Next]_vars
  PROVE  Values'
<1> SUFFICES ASSUME Calm PROVE (SourceHasTruth /\ Pulling /\ Done)'
  BY DEF Values, Calm
<1>1. Inv' /\ Safe /\ Safe' /\ FreezeOutlasts /\ SourceHasTruth /\ Pulling /\ Done
  BY InvStep DEF Inv, Values, Calm
<1>2. SourceHasTruth'
  BY <1>1, SourceStep
<1>3. Done'
  BY <1>1, DoneStep
<1>4. Pulling'
  BY <1>1, <1>3, PullingStep
<1> QED
  BY <1>2, <1>3, <1>4

\* "Graceful handoffs and resharding lose nothing" (README): once reshardStep
\* (controller.go) has marked the target as done, its leader has the value that
\* the key was last given, whichever partition acknowledged it.  Leaders of both
\* partitions change and lose their leases and pulls fail any number of times
\* (partition.go Export and Import, node.go pull).  Of a leader without a lease
\* only what its successor still replicates counts: the rest is lost in every
\* failover.  Calm is what the run assumes too: freezes last, a round's poll is
\* of the log it plans with, a target that is done only loses a replicated
\* leader, and the pulls of a target do not overlap.
THEOREM MigrationSafe == Spec => [](Calm => MigrationLosesNothing)
<1>1. Init => Inv /\ Values
  BY SafeInit, TargetInit, ValuesInit DEF Inv, Values
<1>2. Inv /\ Values /\ [Next]_vars => Inv' /\ Values'
  BY InvStep, ValuesStep
<1>3. Inv /\ Values => (Calm => MigrationLosesNothing)
  BY DEF Values, Done, MigrationLosesNothing
<1> QED
  BY <1>1, <1>2, <1>3, PTL DEF Spec
============================================================================
