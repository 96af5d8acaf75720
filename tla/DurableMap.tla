---------------------------- MODULE DurableMap ----------------------------
(***************************************************************************)
(* What a store promises over its sessions (src/src/udepot/store.h,        *)
(* open(), close(), put(), del()): a map from keys to values that only     *)
(* operations change.  Closing, opening, crashing, recovering, growing the *)
(* index and collecting garbage are steps that leave it as it is.          *)
(***************************************************************************)
EXTENDS Naturals

CONSTANTS Keys, Vals, Absent

VARIABLES kv,           \* the contents: a value per key, or Absent
          done          \* operations that were acknowledged

Init == kv = [k \in Keys |-> Absent] /\ done = 0

Put(k, v) ==
    /\ kv' = [kv EXCEPT ![k] = v]
    /\ done' = done + 1

Del(k) ==
    /\ kv' = [kv EXCEPT ![k] = Absent]
    /\ done' = done + 1

Next == \E k \in Keys : Del(k) \/ \E v \in Vals : Put(k, v)

Spec == Init /\ [][Next]_<<kv, done>>
=============================================================================
