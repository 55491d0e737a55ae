------------------------------ MODULE KVStore ------------------------------
(***************************************************************************)
(* What a replica's store promises: a map from keys to values that only    *)
(* the operations of the partition change, and a count of its keys.        *)
(* Flushing, snapshotting and compacting are not visible here.             *)
(***************************************************************************)
EXTENDS Integers, FiniteSets

CONSTANTS Key, Value, Absent

VARIABLES kv,    \* the value of every key, Absent when it has none
          keys,  \* the number of keys the partition reports
          last   \* the operation applied last

vars == <<kv, keys, last>>

Present(m) == {k \in Key : m[k] # Absent}

Init ==
  /\ kv = [k \in Key |-> Absent]
  /\ keys = 0
  /\ last = <<"reset">>

Becomes(m) == kv' = m /\ keys' = Cardinality(Present(m))

Set(k, v) == last' = <<"set", k, v>> /\ Becomes([kv EXCEPT ![k] = v])
Delete(k) == last' = <<"delete", k>> /\ Becomes([kv EXCEPT ![k] = Absent])
Load(m)   == last' = <<"load", m>> /\ Becomes(m)
Reset     == last' = <<"reset">> /\ Becomes([k \in Key |-> Absent])

Next ==
  \/ \E k \in Key, v \in Value : Set(k, v)
  \/ \E k \in Key : Delete(k)
  \/ \E m \in [Key -> Value \cup {Absent}] : Load(m)
  \/ Reset

Spec == Init /\ [][Next]_vars
============================================================================
