---------------------------- MODULE MCAtMostOnce ----------------------------
EXTENDS AtMostOnce, TLC

CONSTANTS c1, c2, tp1, tp2

\* The second record of the first partition has exactly the threshold's value.
Values == [r \in {tp1, tp2} \X (0 .. MaxRecords - 1) |-> IF r = <<tp1, 1>> THEN 500 ELSE 501]
Symmetry == Permutations({c1, c2})
=============================================================================
