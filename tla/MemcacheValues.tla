--------------------------- MODULE MemcacheValues ---------------------------
(***************************************************************************)
(* What the memcache commands compute (src/src/net/memcache.cc): expiry    *)
(* times, and the new value of a key from the old one.                     *)
(*                                                                         *)
(* A value is text that may begin with a decimal number: n is the number,  *)
(* -1 when there is none, and s the data blocks that follow it, each named *)
(* by the client that sent it, or a number that something was put before.  *)
(***************************************************************************)
EXTENDS Integers, Sequences

CONSTANTS Clients, Kinds, Exptimes,
          RealtimeMaxdelta,    \* kRealtimeMaxdelta
          MaxLen,              \* kMaxValueLen, in data blocks
          Numbers              \* how many values a uint64_t has

ASSUME ValuesAssumption ==
    RealtimeMaxdelta \in Nat /\ MaxLen \in Nat \ {0} /\ Numbers \in Nat \ {0}

Value == [n : -1..Numbers - 1, s : Seq(Clients \cup {"number"})]

\* resolve_expiry(): never, so long from now, or an absolute time.
resolve_expiry(exptime, now) ==
    IF 0 < exptime /\ exptime <= RealtimeMaxdelta THEN now + exptime ELSE exptime

is_expired(expiry, now) == expiry # 0 /\ now >= expiry

\* append and prepend put the data block after or before the old value.
Joined(kind, v, c) ==
    IF kind = "append" THEN [v EXCEPT !.s = Append(@, c)]
    ELSE [n |-> -1, s |-> <<c>> \o (IF v.n >= 0 THEN <<"number">> ELSE <<>>) \o v.s]

Blocks(v) == Len(v.s) + (IF v.n >= 0 THEN 1 ELSE 0)

\* from_chars() reads the number the value begins with and ignores the rest.
\* incr wraps around as uint64_t does, and decr stops at 0.
Counted(kind, v) ==
    [n |-> IF kind = "incr" THEN (v.n + 1) % Numbers
                            ELSE IF 1 > v.n THEN 0 ELSE v.n - 1,
     s |-> <<>>]

\* The commands: one that stores a data block has an expiry time, and the block
\* is text, or for set the number 0; the others have neither.
Requests ==
    LET stores(kind) == kind \notin {"get", "delete", "incr", "decr"}
    IN  {q \in [kind : Kinds, exptime : Exptimes \cup {0}, n : {-1, 0}] :
           /\ IF stores(q.kind) THEN q.exptime \in Exptimes ELSE q.exptime = 0
           /\ q.kind # "set" => q.n = -1}

Block(c, n) == [n |-> n, s |-> IF n = 0 THEN <<>> ELSE <<c>>]

\* What a client is answered: a word, and the value it goes with.
Reply(word) == [word |-> word, val |-> {}]
Hit(v) == [word |-> "VALUE", val |-> {v}]

\* The answer when the key holds nothing for the command.
Absent(kind) == CASE kind = "get" -> "END"
                  [] kind \in {"incr", "decr", "delete"} -> "NOT_FOUND"
                  [] OTHER -> "NOT_STORED"
=============================================================================
