---------------------------- MODULE Resharding -----------------------------
(***************************************************************************)
(* A change of the partition count, over all keys and partitions: from the *)
(* administrator's request (internal/controller/api.go handleConfig) and   *)
(* the configuration in etcd (internal/registry/etcd.go) to the planner    *)
(* that starts a resharding (planner.go startResharding), the controller   *)
(* that migrates one partition after the other and ends it (controller.go  *)
(* reshardStep), and the routing that follows (internal/model/model.go).   *)
(*                                                                         *)
(* A key is its hash.  How one key moves while leaders change and messages *)
(* are lost is the subject of module Migration; here partitions stay       *)
(* writable, and a source is copied and frozen in one step.                *)
(***************************************************************************)
EXTENDS Integers, FiniteSets

CONSTANTS Hash,        \* hashes of the keys
          Count,       \* partition counts that may be asked for
          Factor,      \* replication factors that may be asked for
          Gcd,         \* old count -> new count -> what gcd returns (module Sources)
          Admin,       \* requests to the API at the same time
          MaxRequests, \* bound: changes of the configuration
          MaxWrites,   \* bound: writes
          MaxFaults    \* bound: migrations that fail

ASSUME HashAssumption == Hash \subseteq Nat
ASSUME CountAssumption == Count \subseteq Nat \ {0} /\ Factor \subseteq Nat \ {0}
ASSUME GcdAssumption ==
  \A o, n \in Count : Gcd[o][n] \in Nat \ {0} /\ o % Gcd[o][n] = 0 /\ n % Gcd[o][n] = 0
ASSUME ReshardingBounds == MaxRequests \in Nat /\ MaxWrites \in Nat /\ MaxFaults \in Nat

VARIABLES
  config,   \* the configuration in etcd
  layout,   \* the layout in etcd
  view,     \* admin -> the layout its controller saw last
  request,  \* admin -> its handleConfig between reading and writing
  round,    \* the configuration that the running round read
  step,     \* the running reshardStep
  data,     \* partition -> the keys it holds
  nextData, \* partition of the next generation -> the keys it holds
  keys,     \* ghost: the keys that exist
  wanted,   \* ghost: what the administrators asked for
  requests, writes, faults \* how much of the bounds is used

control == <<config, layout, view, request, round, step>>
stored  == <<data, nextData, keys>>
spent   == <<requests, writes, faults>>
vars    == <<config, layout, view, request, round, step, data, nextData, keys, wanted,
             requests, writes, faults>>

\* 0 stands for what is not there: a configuration or a layout, a field of a
\* request, the next generation's partitions.
NoConfig   == [count |-> 0, factor |-> 0]
NoNext     == [count |-> 0, done |-> {}]
NoLayout   == [gen |-> 0, count |-> 0, next |-> NoNext]
NoRequest  == [busy |-> FALSE, count |-> 0, factor |-> 0, read |-> NoConfig]
NoStep     == [busy |-> FALSE, id |-> 0, todo |-> {}]

Init ==
  /\ config = NoConfig /\ layout = NoLayout /\ view = [a \in Admin |-> NoLayout]
  /\ request = [a \in Admin |-> NoRequest] /\ round = NoConfig /\ step = NoStep
  /\ data = [i \in {} |-> {}] /\ nextData = [i \in {} |-> {}] /\ keys = {}
  /\ wanted = NoConfig /\ requests = 0 /\ writes = 0 /\ faults = 0

----------------------------------------------------------------------------
(* The configuration.                                                      *)

\* The first controller that leads stores what it was started with.
InitConfig(c, f) ==
  /\ config = NoConfig
  /\ config' = [count |-> c, factor |-> f] /\ wanted' = config'
  /\ UNCHANGED <<layout, view, request, round, step, stored, spent>>

\* What c, with 0 for a field to leave alone, makes of the configuration cfg.
Changed(cfg, c) ==
  [count  |-> IF c.count = 0 THEN cfg.count ELSE c.count,
   factor |-> IF c.factor = 0 THEN cfg.factor ELSE c.factor]

\* handleConfig reads the configuration and refuses a new count while a
\* resharding that it knows of is in progress.
ReadConfig(a, c, f) ==
  /\ config # NoConfig /\ ~request[a].busy
  /\ requests < MaxRequests /\ requests' = requests + 1
  /\ c # 0 => view[a].next.count = 0 \/ c = config.count
  /\ request' = [request EXCEPT ![a] = [busy |-> TRUE, count |-> c, factor |-> f, read |-> config]]
  /\ UNCHANGED <<config, layout, view, round, step, stored, wanted, writes, faults>>

\* It writes it back without a comparison.
PutConfig(a) ==
  /\ request[a].busy /\ request' = [request EXCEPT ![a] = NoRequest]
  /\ config' = Changed(request[a].read, request[a])
  /\ wanted' = [count  |-> IF request[a].count = 0 THEN wanted.count ELSE request[a].count,
                factor |-> IF request[a].factor = 0 THEN wanted.factor ELSE request[a].factor]
  /\ UNCHANGED <<layout, view, round, step, stored, spent>>

Watch(a) ==
  /\ view[a] # layout /\ view' = [view EXCEPT ![a] = layout]
  /\ UNCHANGED <<config, layout, request, round, step, stored, wanted, spent>>

----------------------------------------------------------------------------
(* The planner.                                                            *)

Resharding == layout.next.count # 0

Partitions(count) == 0..(count - 1)

ReadRound ==
  /\ round = NoConfig /\ config # NoConfig /\ round' = config
  /\ UNCHANGED <<config, layout, view, request, step, stored, wanted, spent>>

bootstrap ==
  /\ layout = NoLayout /\ layout' = [gen |-> 1, count |-> round.count, next |-> NoNext]
  /\ data' = [i \in Partitions(round.count) |-> {}] /\ UNCHANGED <<nextData, keys>>

\* Mutant: a resharding in progress is replaced.
startReshardingAgain ==
  /\ layout # NoLayout /\ round.count # layout.count
  /\ layout' = [layout EXCEPT !.next = [count |-> round.count, done |-> {}]]
  /\ nextData' = [i \in Partitions(round.count) |-> {}] /\ UNCHANGED <<data, keys>>

\* Mutant: the count only grows.
startReshardingUp ==
  /\ layout # NoLayout /\ ~Resharding /\ round.count > layout.count
  /\ layout' = [layout EXCEPT !.next = [count |-> round.count, done |-> {}]]
  /\ nextData' = [i \in Partitions(round.count) |-> {}] /\ UNCHANGED <<data, keys>>

startResharding ==
  /\ layout # NoLayout /\ ~Resharding /\ round.count # layout.count
  /\ layout' = [layout EXCEPT !.next = [count |-> round.count, done |-> {}]]
  /\ nextData' = [i \in Partitions(round.count) |-> {}] /\ UNCHANGED <<data, keys>>

\* The round plans with the configuration it read, on the layout as it is.
PlanRound ==
  /\ round # NoConfig /\ round' = NoConfig
  /\ \/ bootstrap \/ startResharding
     \/ layout # NoLayout /\ (Resharding \/ round.count = layout.count) /\ UNCHANGED <<layout, stored>>
  /\ UNCHANGED <<config, view, request, step, wanted, spent>>

----------------------------------------------------------------------------
(* Migration.                                                              *)

\* Mutant: the old partition of the same number is the source.
SourceByNumber(id, old, new) == {id % old}

SourcePartitions(id, old, new) ==
  {p \in Partitions(old) : p % Gcd[old][new] = id % Gcd[old][new]}

\* reshardStep asks the leader of partition id to pull its keys.
StartPull(id) ==
  /\ ~step.busy /\ Resharding /\ id \in Partitions(layout.next.count) \ layout.next.done
  /\ step' = [busy |-> TRUE, id |-> id,
              todo |-> SourcePartitions(id, layout.count, layout.next.count)]
  /\ UNCHANGED <<config, layout, view, request, round, stored, wanted, spent>>

\* The keys of source s: what an earlier attempt left of them is replaced, and
\* they take no more writes.
Copy(s) ==
  /\ step.busy /\ s \in step.todo /\ step' = [step EXCEPT !.todo = @ \ {s}]
  /\ nextData' = [nextData EXCEPT ![step.id] =
       {h \in @ : h % layout.count # s}
         \cup {h \in data[s] : h % layout.next.count = step.id}]
  /\ UNCHANGED <<config, layout, view, request, round, data, keys, wanted, spent>>

MarkDone ==
  /\ step.busy /\ step.todo = {} /\ step' = NoStep
  /\ layout' = [layout EXCEPT !.next.done = @ \cup {step.id}]
  /\ UNCHANGED <<config, view, request, round, stored, wanted, spent>>

\* The pull fails, or another controller takes office.
FailStep ==
  /\ step.busy /\ step' = NoStep /\ faults < MaxFaults /\ faults' = faults + 1
  /\ UNCHANGED <<config, layout, view, request, round, stored, wanted, requests, writes>>

\* Mutant: the generation keeps its number.
FinishSameGeneration ==
  /\ ~step.busy /\ Resharding /\ layout.next.done = Partitions(layout.next.count)
  /\ layout' = [gen |-> layout.gen, count |-> layout.next.count, next |-> NoNext]
  /\ data' = nextData /\ nextData' = [i \in {} |-> {}]
  /\ UNCHANGED <<config, view, request, round, step, keys, wanted, spent>>

\* Mutant: the resharding stays in the layout.
FinishKeepsNext ==
  /\ ~step.busy /\ Resharding /\ layout.next.done = Partitions(layout.next.count)
  /\ layout' = [layout EXCEPT !.gen = @ + 1, !.count = layout.next.count]
  /\ data' = nextData /\ nextData' = [i \in {} |-> {}]
  /\ UNCHANGED <<config, view, request, round, step, keys, wanted, spent>>

\* The next generation becomes the current one, and the nodes drop the old.
Finish ==
  /\ ~step.busy /\ Resharding /\ layout.next.done = Partitions(layout.next.count)
  /\ layout' = [gen |-> layout.gen + 1, count |-> layout.next.count, next |-> NoNext]
  /\ data' = nextData /\ nextData' = [i \in {} |-> {}]
  /\ UNCHANGED <<config, view, request, round, step, keys, wanted, spent>>

----------------------------------------------------------------------------
(* Routing.                                                                *)

\* The partition of the next generation for h serves it already.
Moved(l, h) == l.next.count # 0 /\ h % l.next.count \in l.next.done

Route(l, h) ==
  IF Moved(l, h) THEN [gen |-> l.gen + 1, id |-> h % l.next.count]
  ELSE [gen |-> l.gen, id |-> h % l.count]

Frozen(h) ==
  /\ step.busy /\ h % layout.next.count = step.id
  /\ h % layout.count \notin step.todo

\* A set or a delete of h at the partition that owns it.
Write(h, set) ==
  LET Put(S) == IF set THEN S \cup {h} ELSE S \ {h}
  IN /\ layout # NoLayout /\ writes < MaxWrites /\ writes' = writes + 1
     /\ IF Moved(layout, h)
          THEN /\ nextData' = [nextData EXCEPT ![h % layout.next.count] = Put(@)]
               /\ UNCHANGED data
          ELSE /\ ~Frozen(h)
               /\ data' = [data EXCEPT ![h % layout.count] = Put(@)] /\ UNCHANGED nextData
     /\ keys' = Put(keys)
     /\ UNCHANGED <<control, wanted, requests, faults>>

----------------------------------------------------------------------------
StepNext ==
  \/ MarkDone \/ Finish
  \/ \E id \in Partitions(layout.next.count) : StartPull(id)
  \/ \E s \in step.todo : Copy(s)

Next ==
  \/ \E c \in Count, f \in Factor : InitConfig(c, f)
  \/ \E a \in Admin : PutConfig(a) \/ Watch(a)
  \/ \E a \in Admin, c \in Count \cup {0}, f \in Factor \cup {0} : ReadConfig(a, c, f)
  \/ ReadRound \/ PlanRound \/ StepNext \/ FailStep
  \/ \E h \in Hash, set \in BOOLEAN : Write(h, set)

Spec == Init /\ [][Next]_vars

\* The controller that leads keeps running: a configuration is stored, rounds
\* follow each other, and a migration that fails is tried again.
FairSpec ==
  /\ Spec
  /\ WF_vars(\E c \in Count, f \in Factor : InitConfig(c, f))
  /\ WF_vars(ReadRound) /\ WF_vars(PlanRound) /\ WF_vars(StepNext)

----------------------------------------------------------------------------
(* Properties.                                                             *)

Layout ==
  [gen : Nat, count : Count \cup {0},
   next : [count : Count \cup {0}, done : SUBSET Nat]]

Config == [count : Count \cup {0}, factor : Factor \cup {0}]

TypeOK ==
  /\ config \in Config /\ round \in Config /\ wanted \in Config
  /\ layout \in Layout /\ (layout = NoLayout \/ layout.count # 0)
  /\ layout.next.done \subseteq Partitions(layout.next.count)
  /\ Resharding => layout # NoLayout
  /\ data \in [Partitions(layout.count) -> SUBSET Hash]
  /\ nextData \in [Partitions(layout.next.count) -> SUBSET Hash]
  /\ step.busy => Resharding /\ step.id \in Partitions(layout.next.count) \ layout.next.done
  /\ step.busy => step.todo \subseteq Partitions(layout.count)
  /\ keys \subseteq Hash

\* The keys that a request routed by the layout finds are the ones that exist:
\* no migration leaves one behind and none comes back, at any moment of a
\* resharding and through any number of them.
KeysFollowRoute ==
  layout # NoLayout =>
    \A h \in Hash :
      h \in keys <=> IF Moved(layout, h) THEN h \in nextData[h % layout.next.count]
                                         ELSE h \in data[h % layout.count]

\* Counts of the generations that a layout knows.
Counts(l) == {<<l.gen, l.count>>} \cup
             (IF l.next.count = 0 THEN {} ELSE {<<l.gen + 1, l.next.count>>})

\* A generation and a number name the same set of keys in every layout anyone
\* may still route with, however old: a node refuses a request that was routed
\* with a stale layout by comparing the two (target).
RefsMeanTheSame ==
  \A a \in Admin :
    view[a] # NoLayout =>
      \A x \in Counts(view[a]), y \in Counts(layout) : x[1] = y[1] => x[2] = y[2]

\* The owner of a key only changes from the current generation to the next
\* one while a resharding is in progress; ending it changes no owner.
OwnersMoveForward ==
  [][layout # NoLayout =>
       \A h \in Hash :
         \/ Route(layout', h) = Route(layout, h)
         \/ /\ layout'.gen = layout.gen /\ Route(layout', h).gen = layout.gen + 1
            /\ Route(layout, h).gen = layout.gen]_vars

\* The configuration is what the requests that succeeded asked for, each for
\* the fields it named ("either field optional", README).
ConfigKept == config = wanted

\* The cluster ends up with the configured number of partitions.
Converges == <>[](layout.count = config.count /\ ~Resharding)
============================================================================
