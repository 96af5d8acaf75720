------------------------------ MODULE MCStore ------------------------------
(* Instances of Store for TLC.                                             *)
EXTENDS Store, TLC

CONSTANTS k1, k2, v1, v2, c1, c2, c3, s1, s2, s3, s4

MCSymmetry == Permutations(Keys) \cup Permutations(Vals)
              \cup Permutations(Clients) \cup Permutations(Segs)

\* Three operations, or two with two faults around them.
MCBudgets == {<<3, 0>>, <<2, 2>>}
MCReads == {<<3, 0>>}
MCAcks == {<<4, 0>>}
=============================================================================
