------------------------------- MODULE MCRcu -------------------------------
(* Instances of Rcu for TLC. *)
EXTENDS Rcu, TLC

CONSTANTS t1, t2, c1, c2, u1, u2

MCSymmetry == Permutations(Sections) \cup Permutations(Threads)
=============================================================================
