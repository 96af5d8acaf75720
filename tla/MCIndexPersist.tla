-------------------------- MODULE MCIndexPersist --------------------------
(* Instances of IndexPersist for TLC. *)
EXTENDS IndexPersist, TLC

CONSTANTS k1, k2
MCBits == k1 :> 0 @@ k2 :> 1
MCBits1 == k1 :> 0
MCSymmetry == Permutations(Segs)
=============================================================================
