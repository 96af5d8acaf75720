---------------------------- MODULE MCHashTable ----------------------------
(* Instances of HashTable for TLC: neighbourhoods of two slots, stripes of  *)
(* eight.  Slots 6..9, on both sides of the boundary of the first two       *)
(* stripes, are full, so that the insert of ke, of the bucket and tag of    *)
(* ka, finds slot 10 free and moves three entries up into and within the    *)
(* second stripe; kf's home is that slot.  lock_for() gives kl the first    *)
(* stripe, kf the second and the other keys both: kl's and kf's writers     *)
(* work side by side, and the others wait for either.                       *)
EXTENDS HashTable, TLC

CONSTANTS ka, kb, kc, kd, ke, kf, kl, w1, w2, r1, x, y

MCBucketOf == ka :> 6 @@ kb :> 7 @@ kc :> 8 @@ kd :> 9 @@ ke :> 6 @@ kf :> 10
              @@ kl :> 2
MCTagOf == ka :> x @@ kb :> x @@ kc :> x @@ kd :> y @@ ke :> x @@ kf :> x
           @@ kl :> x

\* The table that inserting the present keys in the order of their buckets leaves.
MCRestored ==
    LET put(t, k) == insert_locked(t, MCBucketOf[k], MCTagOf[k], 1, <<k, 0>>).t
    IN  put(put(put(put(ClearTable, ka), kb), kc), kd)

MCSymmetry == Permutations(Writers)
=============================================================================
