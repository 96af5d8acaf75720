---------------------------- MODULE MCDirectory ----------------------------
(* Instances of Directory for TLC: two buckets with neighbourhoods of two or *)
(* three slots, and tags of one or two bits.                                 *)
EXTENDS Directory, TLC

CONSTANTS ka, kb, kc, kd, w1, w2, g1, gct

\* All keys but kb are of bucket 0.  With ka, kb and kc there a put of kd finds
\* the table full; in the grown directory it moves kb up.
MCHomeOf == [k \in Keys |-> IF k = kb THEN 1 ELSE 0]
MCTagOf == [k \in Keys |-> CASE k = ka -> <<0, 0>> [] k = kd -> <<1, 1>>
                               [] OTHER -> <<1, 0>>]
MCRestored == <<>> :> (0 :> Entry(0, <<0, 0>>, 1, <<ka, 0>>) @@
                       1 :> Entry(1, <<1, 0>>, 1, <<kc, 0>>) @@
                       2 :> Entry(1, <<1, 0>>, 1, <<kb, 0>>) @@ ClearTable)

\* Tags of one bit: after one grow the directory is at its largest.
MCTagOf1 == [k \in Keys |-> IF k = ka THEN <<0>> ELSE <<1>>]

\* Neighbourhoods of three slots: kb and kc have the bucket and the tag in common,
\* behind ka, whose tag a grow splits from theirs; kd asks for the grow.
MCSameHome == [k \in Keys |-> 0]
MCColliding == <<>> :> (0 :> Entry(0, <<0>>, 1, <<ka, 0>>) @@
                        1 :> Entry(1, <<1>>, 1, <<kb, 0>>) @@
                        2 :> Entry(2, <<1>>, 1, <<kc, 0>>) @@ ClearTable)

MCSymmetry == Permutations(Writers)
=============================================================================
