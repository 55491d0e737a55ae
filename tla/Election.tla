------------------------------ MODULE Election ------------------------------
(***************************************************************************)
(* The controllers' election and the fenced layout writes                  *)
(* (internal/controller/controller.go: campaign, lead, updateLayout;       *)
(* internal/registry/etcd.go: GetLayout, PutLayout).                       *)
(*                                                                         *)
(* An election key is named by the revision that created it; holding the   *)
(* office means that no older key is left.  A controller updates the       *)
(* layout from its control loop and from the handlers of the admin API at  *)
(* once.  A layout is reduced to its version and the office it was written *)
(* in; what the writes contain is the business of module Replication.      *)
(***************************************************************************)
EXTENDS Integers, Sequences, FiniteSets

CONSTANTS Controller,
          Attempts,  \* tries of updateLayout before it gives up
          MaxFaults, \* bound: sessions lost
          MaxWrites  \* bound: layouts written

ASSUME ElectionAssumption ==
  Attempts \in Nat \ {0} /\ MaxFaults \in Nat /\ MaxWrites \in Nat

VARIABLES
  keys,    \* the election keys in etcd
  newest,  \* revision of the key created last
  layout,  \* [version, rev] in etcd; rev is its mod revision
  pc,      \* controller -> where its campaign is
  own,     \* controller -> revision of its session's key
  fence,   \* controller -> the fence it stored when it won, 0 when none
  update,  \* controller, "round" or "api" -> the layout update in progress
  written, \* ghost: the offices the layouts were written in
  faults

vars == <<keys, newest, layout, pc, own, fence, update, written, faults>>

Task == {"round", "api"}

Update == [stage : {"none", "fenced", "planned"}, fence : Nat, rev : Nat, version : Nat,
           tries : 0..(Attempts - 1)]

NoUpdate == [stage |-> "none", fence |-> 0, rev |-> 0, version |-> 0, tries |-> 0]

Init ==
  /\ keys = {} /\ newest = 0
  /\ layout = [version |-> 0, rev |-> 0]
  /\ pc = [c \in Controller |-> "new"]
  /\ own = [c \in Controller |-> 0] /\ fence = [c \in Controller |-> 0]
  /\ update = [c \in Controller |-> [t \in Task |-> NoUpdate]]
  /\ written = <<>> /\ faults = 0

----------------------------------------------------------------------------
(* The campaign.                                                           *)

\* A new session puts its key behind the ones that exist.
Candidacy(c) ==
  /\ pc[c] = "new"
  /\ newest' = newest + 1 /\ keys' = keys \cup {newest + 1}
  /\ own' = [own EXCEPT ![c] = newest + 1]
  /\ pc' = [pc EXCEPT ![c] = "waiting"]
  /\ UNCHANGED <<layout, fence, update, written, faults>>

\* Mutant: the first candidate to look wins.
OlderKeysIgnored(c) == FALSE

OlderKeys(c) == \E k \in keys : k < own[c]

\* Campaign returns when the older keys are gone; it does not look at its own.
Win(c) ==
  /\ pc[c] = "waiting" /\ ~OlderKeys(c)
  /\ fence' = [fence EXCEPT ![c] = own[c]]
  /\ pc' = [pc EXCEPT ![c] = "leading"]
  /\ UNCHANGED <<keys, newest, layout, own, update, written, faults>>

\* Mutant: the control loop does not watch its session.
SessionDoneUnnoticed(c) ==
  /\ own[c] \notin keys
  /\ pc[c] = "waiting" /\ pc' = [pc EXCEPT ![c] = "new"]
  /\ fence' = [fence EXCEPT ![c] = 0]
  /\ UNCHANGED <<keys, newest, layout, own, update, written, faults>>

\* session.Done ends a campaign, or the control loop between two rounds.
SessionDone(c) ==
  /\ own[c] \notin keys
  /\ \/ pc[c] = "waiting" /\ pc' = [pc EXCEPT ![c] = "new"]
     \/ /\ pc[c] = "leading" /\ update[c]["round"] = NoUpdate
        /\ pc' = [pc EXCEPT ![c] = "leaving"]
  /\ fence' = [fence EXCEPT ![c] = 0]
  /\ UNCHANGED <<keys, newest, layout, own, update, written, faults>>

\* Resign and Close; when etcd cannot be reached the key stays until it expires.
Leave(c) ==
  /\ pc[c] = "leaving"
  /\ pc' = [pc EXCEPT ![c] = "new"]
  /\ keys' \in {keys, keys \ {own[c]}}
  /\ UNCHANGED <<newest, layout, own, fence, update, written, faults>>

\* SIGTERM: the leader resigns, and a successor process starts.
Shutdown(c) ==
  /\ faults < MaxFaults /\ faults' = faults + 1
  /\ pc[c] = "leading" /\ update[c]["round"] = NoUpdate
  /\ pc' = [pc EXCEPT ![c] = "leaving"] /\ fence' = [fence EXCEPT ![c] = 0]
  /\ UNCHANGED <<keys, newest, layout, own, update, written>>

\* A lease of a stalled or dead controller expires.
KeyExpires(k) ==
  /\ k \in keys
  /\ faults' = IF \E c \in Controller : own[c] = k /\ pc[c] \in {"waiting", "leading"}
                 THEN faults + 1 ELSE faults
  /\ faults' <= MaxFaults
  /\ keys' = keys \ {k}
  /\ UNCHANGED <<newest, layout, pc, own, fence, update, written>>

Crash(c) ==
  /\ faults < MaxFaults /\ faults' = faults + 1
  /\ pc' = [pc EXCEPT ![c] = "new"] /\ own' = [own EXCEPT ![c] = 0]
  /\ fence' = [fence EXCEPT ![c] = 0]
  /\ update' = [update EXCEPT ![c] = [t \in Task |-> NoUpdate]]
  /\ UNCHANGED <<keys, newest, layout, written>>

----------------------------------------------------------------------------
(* updateLayout: load the fence, read the layout, plan, compare and swap.  *)

\* An update at its n-th retry, and the same once it has planned on layout l.
Fenced(f, n) == [stage |-> "fenced", fence |-> f, rev |-> 0, version |-> 0, tries |-> n]

Planned(u, l) == [stage |-> "planned", fence |-> u.fence, rev |-> l.rev,
                  version |-> l.version + 1, tries |-> u.tries]

LoadFence(c, t) ==
  /\ update[c][t].stage = "none" /\ fence[c] # 0
  /\ t = "round" => pc[c] = "leading"
  /\ update' = [update EXCEPT ![c][t] = Fenced(fence[c], 0)]
  /\ UNCHANGED <<keys, newest, layout, pc, own, fence, written, faults>>

ReadLayout(c, t) ==
  /\ update[c][t].stage = "fenced"
  /\ update' = [update EXCEPT ![c][t] = Planned(update[c][t], layout)]
  /\ UNCHANGED <<keys, newest, layout, pc, own, fence, written, faults>>

\* The plan changed nothing, or the context ended.
EndUpdate(c, t) ==
  /\ update[c][t].stage # "none"
  /\ update' = [update EXCEPT ![c][t] = NoUpdate]
  /\ UNCHANGED <<keys, newest, layout, pc, own, fence, written, faults>>

\* Mutant: the layout is not fenced.
MayPutUnfenced(u) == layout.rev = u.rev

\* Mutant: the layout's revision is not compared.
MayPutBlindly(u) == u.fence \in keys

\* The comparisons of PutLayout's transaction.
MayPut(u) == layout.rev = u.rev /\ u.fence \in keys

PutLayout(c, t) ==
  LET u == update[c][t]
  IN /\ u.stage = "planned" /\ MayPut(u)
     /\ Len(written) < MaxWrites
     /\ layout' = [version |-> u.version, rev |-> layout.rev + 1]
     /\ written' = Append(written, u.fence)
     /\ update' = [update EXCEPT ![c][t] = NoUpdate]
     /\ UNCHANGED <<keys, newest, pc, own, fence, faults>>

\* Mutant: one try too many.
RetryOnceMore(c, t) ==
  LET u == update[c][t]
  IN /\ u.stage = "planned" /\ ~MayPut(u)
     /\ update' = [update EXCEPT ![c][t] =
          IF fence[c] = 0 \/ u.tries = Attempts THEN NoUpdate
          ELSE Fenced(fence[c], u.tries + 1)]
     /\ UNCHANGED <<keys, newest, layout, pc, own, fence, written, faults>>

\* ErrConflict: once more from the start, with the fence as it is now.
Retry(c, t) ==
  LET u == update[c][t]
  IN /\ u.stage = "planned" /\ ~MayPut(u)
     /\ update' = [update EXCEPT ![c][t] =
          IF fence[c] = 0 \/ u.tries + 1 = Attempts THEN NoUpdate
          ELSE Fenced(fence[c], u.tries + 1)]
     /\ UNCHANGED <<keys, newest, layout, pc, own, fence, written, faults>>

----------------------------------------------------------------------------
UpdateStep(c, t) ==
  LoadFence(c, t) \/ ReadLayout(c, t) \/ EndUpdate(c, t) \/ PutLayout(c, t) \/ Retry(c, t)

CampaignStep(c) ==
  Candidacy(c) \/ Win(c) \/ SessionDone(c) \/ Leave(c) \/ Shutdown(c) \/ Crash(c)

Next ==
  \/ \E c \in Controller : CampaignStep(c) \/ \E t \in Task : UpdateStep(c, t)
  \/ \E k \in keys : KeyExpires(k)

\* Campaign goroutines run, an update that has begun ends (its requests have
\* timeouts), and etcd expires a key whose controller no longer renews it.  The
\* control loop looks for session.Done only between rounds, where select takes
\* it or another ready case at random: strong fairness.
Fairness ==
  /\ \A c \in Controller :
       /\ WF_vars(Candidacy(c)) /\ WF_vars(Win(c)) /\ SF_vars(SessionDone(c)) /\ WF_vars(Leave(c))
       /\ \A t \in Task : WF_vars(ReadLayout(c, t)) /\ WF_vars(EndUpdate(c, t))
  /\ \A k \in 1..(Cardinality(Controller) + 2 * MaxFaults) :
       WF_vars((\A c \in Controller : own[c] # k \/ pc[c] \notin {"waiting", "leading"}) /\ KeyExpires(k))

Spec == Init /\ [][Next]_vars /\ Fairness

----------------------------------------------------------------------------
(* Properties.                                                             *)

\* The values the state of etcd and of the controllers can have.
TypeOK ==
  /\ keys \subseteq 1..newest /\ newest \in Nat /\ faults \in 0..MaxFaults
  /\ layout \in [version : Nat, rev : Nat]
  /\ pc \in [Controller -> {"new", "waiting", "leading", "leaving"}]
  /\ own \in [Controller -> 0..newest] /\ fence \in [Controller -> 0..newest]
  /\ update \in [Controller -> [Task -> Update]]
  /\ written \in Seq(Nat)

\* Two controllers may both believe they lead, but only one of them can write.
OneOffice ==
  \A c, d \in Controller :
    fence[c] \in keys /\ fence[d] \in keys => fence[c] = fence[d]

\* "A deposed leader can therefore never overwrite the decisions of its
\* successor" (PutLayout): offices write the layout one after the other.
OfficesInOrder ==
  \A i, j \in 1..Len(written) : i <= j => written[i] <= written[j]

\* No update is lost: every layout was computed from the one it replaced, so
\* versions count the writes, and nodes may compare them (HandoffVersion).
VersionCountsWrites == layout.version = Len(written)

\* Whatever sessions are lost, the office is filled again: no candidate waits
\* for ever behind a key that nobody renews.
OfficeIsFilled == []<>(\E c \in Controller : fence[c] \in keys)
============================================================================
