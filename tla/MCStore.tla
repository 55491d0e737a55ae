------------------------------ MODULE MCStore ------------------------------
(* Store for TLC.                                                          *)
EXTENDS Store, TLC

\* A compaction whose store was emptied installs nothing, so states that
\* differ only in what it read behave alike.
StoreView ==
  <<active, levels, resets, keys, spawned, last, compaction.running, compaction.resets,
    IF compaction.resets = resets THEN compaction.input ELSE <<>>>>

KeySymmetry == Permutations(Key)
============================================================================
