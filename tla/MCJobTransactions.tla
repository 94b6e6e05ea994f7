------------------------- MODULE MCJobTransactions -------------------------
(* Small instances of JobTransactions for TLC. *)
EXTENDS JobTransactions, TLC

CONSTANTS j1, j2, a, b, c1, c2, s1, s2, s3

Rows1 == {[enabled |-> TRUE, next |-> 1, op |-> "create", target |-> a, sched |-> c1],
          [enabled |-> TRUE, next |-> 0, op |-> "null", target |-> b, sched |-> c1]}

Rows2 == {[enabled |-> TRUE, next |-> 0, op |-> "create", target |-> a, sched |-> c1],
          [enabled |-> TRUE, next |-> 0, op |-> "drop", target |-> b, sched |-> c1]}

EditsOf1 == {[enabled |-> TRUE, next |-> 2, op |-> "drop", target |-> a, sched |-> c1],
             [enabled |-> FALSE, next |-> 1, op |-> "create", target |-> a, sched |-> c2]}

RowsLive == {[enabled |-> TRUE, next |-> 0, op |-> "create", target |-> a, sched |-> c1]}

EditsOfLive == {[enabled |-> TRUE, next |-> 1, op |-> "drop", target |-> a, sched |-> c1]}

\* Hashes of two jobs on different keys; of two targets on different keys.
JobHashes == [j \in Jobs |-> IF j = j1 THEN 0 ELSE -1]
TargetHashes == [t \in Targets |-> IF t = a THEN 0 ELSE -1]
\* The hash whose absolute value is not an int4.
OverflowHashes == [j \in Jobs |-> IF j = j1 THEN 0 ELSE -HashLimit]

SessionSymmetry == Permutations(Sessions)
=============================================================================
