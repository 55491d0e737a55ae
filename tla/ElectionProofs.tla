--------------------------- MODULE ElectionProofs ---------------------------
(***************************************************************************)
(* Why a deposed controller cannot write, for any number of controllers.   *)
(*                                                                         *)
(* Whoever won was the owner of the oldest key, and keys are only created  *)
(* behind the existing ones.  So a fence whose key still exists names the  *)
(* oldest key, also when it was loaded long ago, and every office that has *)
(* written is at or before the oldest key.                                 *)
(***************************************************************************)
EXTENDS Election, TLAPS

\* f is not younger than any key in etcd.
Oldest(f) == \A k \in keys : f <= k

\* A stored fence that still has its key has the oldest one.
FenceInv == \A c \in Controller : fence[c] \in keys => Oldest(fence[c])

\* So has the fence an update works with; and a planned layout is numbered
\* after the revision it was read at.
UpdateInv ==
  \A c \in Controller, t \in Task :
    LET u == update[c][t]
    IN u.stage # "none" => /\ u.fence \in 1..newest
                           /\ u.fence \in keys => Oldest(u.fence)
                           /\ u.stage = "planned" => u.version = u.rev + 1

\* Offices that have written are not younger than any key, and both numbers of
\* the layout count the writes.
WrittenInv ==
  /\ \A i \in 1..Len(written) : written[i] <= newest /\ Oldest(written[i])
  /\ layout.version = Len(written) /\ layout.rev = Len(written)

Inv == TypeOK /\ FenceInv /\ UpdateInv /\ WrittenInv /\ OfficesInOrder

----------------------------------------------------------------------------
(* Facts about single updates.                                             *)

\* Nothing is in progress in NoUpdate.
LEMMA NoUpdateType == NoUpdate \in Update /\ NoUpdate.stage = "none"
BY ElectionAssumption DEF NoUpdate, Update

\* What an update is made of.
LEMMA UpdateFields ==
  ASSUME NEW u \in Update
  PROVE  /\ u.fence \in Nat /\ u.rev \in Nat /\ u.version \in Nat
         /\ u.tries \in Nat /\ u.tries <= Attempts - 1
BY ElectionAssumption DEF Update

\* An update that has loaded the fence f, at its n-th retry.
LEMMA FencedUpdate ==
  ASSUME NEW f \in Nat, NEW n \in 0..(Attempts - 1)
  PROVE  Fenced(f, n) \in Update /\ Fenced(f, n).stage = "fenced" /\ Fenced(f, n).fence = f
BY DEF Update, Fenced

\* An update that has read a layout.
LEMMA PlannedUpdate ==
  ASSUME NEW u \in Update, NEW l \in [version : Nat, rev : Nat]
  PROVE  /\ Planned(u, l) \in Update /\ Planned(u, l).stage = "planned"
         /\ Planned(u, l).fence = u.fence
         /\ Planned(u, l).rev = l.rev /\ Planned(u, l).version = l.version + 1
BY DEF Update, Planned

\* Replacing one update by a good one keeps the invariant of the updates.
LEMMA OneUpdate ==
  ASSUME Inv, NEW c \in Controller, NEW t \in Task, NEW u \in Update,
         update' = [update EXCEPT ![c][t] = u],
         UNCHANGED <<keys, newest>>,
         u.stage # "none" => /\ u.fence \in 1..newest
                             /\ u.fence \in keys => Oldest(u.fence)
                             /\ u.stage = "planned" => u.version = u.rev + 1
  PROVE  UpdateInv' /\ update' \in [Controller -> [Task -> Update]]
<1>1. update \in [Controller -> [Task -> Update]]
  BY DEF Inv, TypeOK
<1>2. update' \in [Controller -> [Task -> Update]]
  BY <1>1
<1>3. ASSUME NEW d \in Controller, NEW s \in Task
      PROVE  update'[d][s] = IF d = c /\ s = t THEN u ELSE update[d][s]
  BY <1>1
<1>4. UpdateInv'
  BY <1>3 DEF Inv, UpdateInv, Oldest
<1> QED
  BY <1>2, <1>4

\* Deleting keys keeps everything that is said about the oldest one.
LEMMA FewerKeys ==
  ASSUME Inv, keys' \subseteq keys, UNCHANGED <<newest, update, written, layout>>
  PROVE  UpdateInv' /\ WrittenInv' /\ keys' \subseteq 1..newest'
BY DEF Inv, TypeOK, UpdateInv, WrittenInv, Oldest

----------------------------------------------------------------------------
(* The invariant.                                                          *)

LEMMA InitInv == Init => Inv
<1> SUFFICES ASSUME Init PROVE Inv
  OBVIOUS
<1>1. TypeOK
  BY NoUpdateType, ElectionAssumption DEF Init, TypeOK
<1>2. FenceInv /\ WrittenInv /\ OfficesInOrder
  BY DEF Init, FenceInv, WrittenInv, OfficesInOrder
<1>3. UpdateInv
  BY DEF Init, UpdateInv, NoUpdate
<1> QED
  BY <1>1, <1>2, <1>3 DEF Inv

LEMMA CampaignKeepsInv ==
  ASSUME Inv, NEW c \in Controller, CampaignStep(c)
  PROVE  Inv'
<1> USE DEF Inv
<1>1. CASE Candidacy(c)
  <2> USE <1>1 DEF Candidacy
  <2>1. TypeOK'
    BY DEF TypeOK
  <2>2. FenceInv'
    BY DEF TypeOK, FenceInv, Oldest
  <2>3. UpdateInv'
    BY DEF TypeOK, UpdateInv, Oldest
  <2>4. WrittenInv' /\ OfficesInOrder'
    BY DEF TypeOK, WrittenInv, Oldest, OfficesInOrder
  <2> QED
    BY <2>1, <2>2, <2>3, <2>4
<1>2. CASE Win(c)
  <2> USE <1>2 DEF Win
  <2>1. TypeOK'
    BY DEF TypeOK
  <2>2. FenceInv'
    BY DEF TypeOK, FenceInv, Oldest, OlderKeys
  <2>3. UpdateInv' /\ WrittenInv' /\ OfficesInOrder'
    BY DEF UpdateInv, WrittenInv, Oldest, OfficesInOrder
  <2> QED
    BY <2>1, <2>2, <2>3
<1>3. CASE SessionDone(c)
  <2> USE <1>3 DEF SessionDone
  <2>a. pc' \in [Controller -> {"new", "waiting", "leading", "leaving"}]
    BY DEF TypeOK
  <2>b. fence' \in [Controller -> 0..newest]
    BY DEF TypeOK
  <2>1. TypeOK'
    BY <2>a, <2>b DEF TypeOK
  <2>2. FenceInv'
    BY DEF TypeOK, FenceInv, Oldest
  <2>3. UpdateInv' /\ WrittenInv' /\ OfficesInOrder'
    BY DEF UpdateInv, WrittenInv, Oldest, OfficesInOrder
  <2> QED
    BY <2>1, <2>2, <2>3
<1>4. CASE Leave(c)
  <2> USE <1>4 DEF Leave
  <2>1. keys' \subseteq keys
    OBVIOUS
  <2>2. UpdateInv' /\ WrittenInv' /\ keys' \subseteq 1..newest'
    BY <2>1, FewerKeys
  <2>3. TypeOK'
    BY <2>2 DEF TypeOK
  <2>4. FenceInv' /\ OfficesInOrder'
    BY <2>1 DEF FenceInv, Oldest, OfficesInOrder
  <2> QED
    BY <2>2, <2>3, <2>4
<1>5. CASE Shutdown(c)
  <2> USE <1>5 DEF Shutdown
  <2>1. TypeOK'
    BY ElectionAssumption DEF TypeOK
  <2>2. FenceInv'
    BY DEF TypeOK, FenceInv, Oldest
  <2>3. UpdateInv' /\ WrittenInv' /\ OfficesInOrder'
    BY DEF UpdateInv, WrittenInv, Oldest, OfficesInOrder
  <2> QED
    BY <2>1, <2>2, <2>3
<1>6. CASE Crash(c)
  <2> USE <1>6 DEF Crash
  <2>1. update \in [Controller -> [Task -> Update]]
    BY DEF TypeOK
  <2>2. update' \in [Controller -> [Task -> Update]]
    BY <2>1, NoUpdateType
  <2>3. \A d \in Controller, t \in Task :
          update'[d][t] = IF d = c THEN NoUpdate ELSE update[d][t]
    BY <2>1
  <2>4. TypeOK'
    BY <2>2, ElectionAssumption DEF TypeOK
  <2>5. FenceInv'
    BY DEF TypeOK, FenceInv, Oldest
  <2>6. UpdateInv'
    BY <2>3, NoUpdateType DEF UpdateInv, Oldest
  <2>7. WrittenInv' /\ OfficesInOrder'
    BY DEF WrittenInv, Oldest, OfficesInOrder
  <2> QED
    BY <2>4, <2>5, <2>6, <2>7
<1> QED
  BY <1>1, <1>2, <1>3, <1>4, <1>5, <1>6 DEF CampaignStep

LEMMA UpdateKeepsInv ==
  ASSUME Inv, NEW c \in Controller, NEW t \in Task, UpdateStep(c, t)
  PROVE  Inv'
<1> USE DEF Inv
<1> DEFINE u == update[c][t]
<1>0. /\ update \in [Controller -> [Task -> Update]]
      /\ u \in Update
  BY DEF TypeOK
\* An update that leaves etcd alone only has to be good itself.
<1>q. ASSUME NEW v \in Update, update' = [update EXCEPT ![c][t] = v],
             UNCHANGED <<keys, newest, layout, pc, own, fence, written, faults>>,
             v.stage # "none" => /\ v.fence \in 1..newest
                                 /\ v.fence \in keys => Oldest(v.fence)
                                 /\ v.stage = "planned" => v.version = v.rev + 1
      PROVE  Inv'
  <2>1. UpdateInv' /\ update' \in [Controller -> [Task -> Update]]
    BY <1>q, OneUpdate
  <2>2. TypeOK'
    BY <1>q, <2>1 DEF TypeOK
  <2>3. FenceInv' /\ WrittenInv' /\ OfficesInOrder'
    BY <1>q DEF FenceInv, WrittenInv, Oldest, OfficesInOrder
  <2> QED
    BY <2>1, <2>2, <2>3
<1>1. CASE LoadFence(c, t)
  <2>1. fence[c] \in 1..newest /\ (fence[c] \in keys => Oldest(fence[c]))
    BY <1>1 DEF LoadFence, TypeOK, FenceInv
  <2>2. fence[c] \in Nat /\ 0 \in 0..(Attempts - 1)
    BY <2>1, ElectionAssumption
  <2> QED
    BY <1>1, <1>q, <2>1, <2>2, FencedUpdate DEF LoadFence
<1>2. CASE ReadLayout(c, t)
  <2>1. layout \in [version : Nat, rev : Nat] /\ layout.version = layout.rev
    BY DEF TypeOK, WrittenInv
  <2>2. u.fence \in 1..newest /\ (u.fence \in keys => Oldest(u.fence))
    BY <1>2 DEF ReadLayout, UpdateInv
  <2> DEFINE v == Planned(update[c][t], layout)
  <2>3. v \in Update /\ v.fence = u.fence /\ v.version = v.rev + 1
    BY <1>0, <2>1, PlannedUpdate
  <2>4. update' = [update EXCEPT ![c][t] = v]
    BY <1>2 DEF ReadLayout
  <2> HIDE DEF v, u
  <2> QED
    BY <1>2, <1>q, <2>2, <2>3, <2>4 DEF ReadLayout
<1>3. CASE EndUpdate(c, t)
  BY <1>3, <1>q, NoUpdateType DEF EndUpdate
<1>4. CASE PutLayout(c, t)
  <2> USE <1>4 DEF PutLayout
  <2>1. /\ u.stage = "planned" /\ layout.rev = u.rev /\ u.fence \in keys
        /\ layout' = [version |-> u.version, rev |-> layout.rev + 1]
        /\ written' = Append(written, u.fence)
        /\ update' = [update EXCEPT ![c][t] = NoUpdate]
        /\ UNCHANGED <<keys, newest, pc, own, fence, faults>>
    BY DEF MayPut
  <2>2. u.fence \in 1..newest /\ Oldest(u.fence) /\ u.version = u.rev + 1
    BY <2>1 DEF UpdateInv
  <2>3. UpdateInv' /\ update' \in [Controller -> [Task -> Update]]
    BY <2>1, OneUpdate, NoUpdateType
  <2>4. TypeOK'
    BY <1>0, <2>1, <2>3 DEF TypeOK, Update
  <2>5. /\ Len(written') = Len(written) + 1
        /\ \A i \in 1..Len(written) : written'[i] = written[i]
        /\ written'[Len(written) + 1] = u.fence
    BY <2>1 DEF TypeOK
  <2>6. WrittenInv'
    BY <2>1, <2>2, <2>5 DEF WrittenInv, Oldest, TypeOK
  <2>7. OfficesInOrder'
    <3>1. \A i \in 1..Len(written) : written[i] <= u.fence
      BY <2>1 DEF WrittenInv, Oldest
    <3>2. SUFFICES ASSUME NEW i \in 1..(Len(written) + 1), NEW j \in 1..(Len(written) + 1), i <= j
                   PROVE  written'[i] <= written'[j]
      BY <2>5 DEF OfficesInOrder
    <3> QED
      BY <2>2, <2>5, <3>1, <3>2 DEF OfficesInOrder, TypeOK
  <2>8. FenceInv'
    BY <2>1 DEF FenceInv, Oldest
  <2> QED
    BY <2>3, <2>4, <2>6, <2>7, <2>8
<1>5. CASE Retry(c, t)
  <2>1. CASE fence[c] = 0 \/ u.tries + 1 = Attempts
    BY <1>5, <1>q, <2>1, NoUpdateType DEF Retry
  <2>2. CASE ~(fence[c] = 0 \/ u.tries + 1 = Attempts)
    <3>1. fence[c] \in 1..newest /\ (fence[c] \in keys => Oldest(fence[c]))
      BY <2>2 DEF TypeOK, FenceInv
    <3>2. fence[c] \in Nat /\ u.tries + 1 \in 0..(Attempts - 1)
      BY <1>0, <2>2, <3>1, UpdateFields, ElectionAssumption
    <3>3. update' = [update EXCEPT ![c][t] = Fenced(fence[c], u.tries + 1)]
      BY <1>5, <2>2 DEF Retry
    <3> QED
      BY <1>5, <1>q, <3>1, <3>2, <3>3, FencedUpdate DEF Retry
  <2> QED
    BY <2>1, <2>2
<1> QED
  BY <1>1, <1>2, <1>3, <1>4, <1>5 DEF UpdateStep

LEMMA ExpiryKeepsInv ==
  ASSUME Inv, NEW k \in keys, KeyExpires(k)
  PROVE  Inv'
<1> USE DEF Inv, KeyExpires
<1>1. keys' \subseteq keys
  OBVIOUS
<1>2. UpdateInv' /\ WrittenInv' /\ keys' \subseteq 1..newest'
  BY <1>1, FewerKeys
<1>3. faults' \in 0..MaxFaults
  BY ElectionAssumption DEF TypeOK
<1>4. TypeOK'
  BY <1>2, <1>3 DEF TypeOK
<1>5. FenceInv' /\ OfficesInOrder'
  BY <1>1 DEF FenceInv, Oldest, OfficesInOrder
<1> QED
  BY <1>2, <1>4, <1>5

\* The invariant holds in every reachable state.
THEOREM Invariance == Spec => []Inv
<1>1. ASSUME Inv, [Next]_vars PROVE Inv'
  <2>1. CASE UNCHANGED vars
    BY <1>1, <2>1 DEF vars, Inv, TypeOK, FenceInv, UpdateInv, WrittenInv, OfficesInOrder, Oldest
  <2>2. ASSUME NEW c \in Controller, CampaignStep(c) PROVE Inv'
    BY <1>1, <2>2, CampaignKeepsInv
  <2>3. ASSUME NEW c \in Controller, NEW t \in Task, UpdateStep(c, t) PROVE Inv'
    BY <1>1, <2>3, UpdateKeepsInv
  <2>4. ASSUME NEW k \in keys, KeyExpires(k) PROVE Inv'
    BY <1>1, <2>4, ExpiryKeepsInv
  <2> QED
    BY <1>1, <2>1, <2>2, <2>3, <2>4 DEF Next
<1> QED
  BY InitInv, <1>1, PTL DEF Spec

----------------------------------------------------------------------------
\* The state of etcd and of the controllers always has its type (TypeOK).
THEOREM TypeCorrect == Spec => []TypeOK
<1>1. Inv => TypeOK
  BY DEF Inv
<1> QED
  BY Invariance, <1>1, PTL

\* At most one office can write the layout (campaign, PutLayout): OneOffice.
THEOREM OneOfficeHolds == Spec => []OneOffice
<1>1. ASSUME Inv PROVE OneOffice
  <2> SUFFICES ASSUME NEW c \in Controller, NEW d \in Controller,
                      fence[c] \in keys, fence[d] \in keys
               PROVE  fence[c] = fence[d]
    BY DEF OneOffice
  <2>1. fence[c] <= fence[d] /\ fence[d] <= fence[c]
    BY <1>1 DEF Inv, FenceInv, Oldest
  <2> QED
    BY <1>1, <2>1 DEF Inv, TypeOK
<1> QED
  BY Invariance, <1>1, PTL

\* A deposed controller never writes after its successor (PutLayout's fence):
\* OfficesInOrder.
THEOREM FencingCorrect == Spec => []OfficesInOrder
<1>1. Inv => OfficesInOrder
  BY DEF Inv
<1> QED
  BY Invariance, <1>1, PTL

\* No concurrent layout update is lost (updateLayout): VersionCountsWrites.
THEOREM VersionCorrect == Spec => []VersionCountsWrites
<1>1. Inv => VersionCountsWrites
  BY DEF Inv, WrittenInv, VersionCountsWrites
<1> QED
  BY Invariance, <1>1, PTL
============================================================================
