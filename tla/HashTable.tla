----------------------------- MODULE HashTable -----------------------------
(***************************************************************************)
(* One hash table (src/src/udepot/hash_table.h, hash_table.cc) under       *)
(* concurrent use: writers hold the stripe locks of their bucket's reach   *)
(* and store one slot at a time; readers take no lock and load one slot at *)
(* a time.  An insert that finds no free slot in the neighbourhood moves   *)
(* other keys' entries up, each stored at its new slot before it is        *)
(* cleared at the old one.                                                 *)
(*                                                                         *)
(* The users of the table are its callers in store.cc: a writer decides    *)
(* under its lock by the entry of its key, a reader goes on behind an      *)
(* entry that turns out to be another key's.  A pba is a key's record,     *)
(* <<key, n>>, and a key is a hash with its bucket and its tag.            *)
(***************************************************************************)
EXTENDS HashTableOps, FiniteSets

CONSTANTS Keys, BucketOf, TagOf,
          Writers, Readers,
          Present, Restored,    \* the keys in the table at the start, and its slots
          slots_per_stripe_,
          MaxWrites,        \* bound: writes
          MaxReads,         \* bound: lookups
          Lookups           \* bound: the keys that are looked up

Nobody == "nobody"

ASSUME UsersAssumption ==
    /\ BucketOf \in [Keys -> Buckets]
    /\ DOMAIN TagOf = Keys
    /\ slots_per_stripe_ \in Nat /\ slots_per_stripe_ >= kWriteReach
    /\ MaxWrites \in Nat /\ MaxReads \in Nat
    /\ \A k \in Keys, n \in 0..MaxWrites : kUnusedPba # <<k, n>>
    /\ Nobody \notin Writers

ASSUME LookupsAssumption == Lookups \subseteq Keys

\* The table earlier inserts left, or restore_index() read: an entry for each
\* key that is present, in its neighbourhood.
ASSUME RestoredAssumption ==
    /\ Present \subseteq Keys
    /\ Restored = [i \in SlotIdx |-> Restored[i]]
    /\ \E at \in [Present -> SlotIdx] :
          /\ \A k \in Present :
                /\ at[k] \in Neighbourhood(BucketOf[k])
                /\ Restored[at[k]] =
                      Entry(at[k] - BucketOf[k], TagOf[k], 1, <<k, 0>>)
          /\ \A i \in SlotIdx : (\A k \in Present : at[k] # i) => Restored[i] = Empty

VARIABLES
    slots,      \* the slots
    held,       \* held[s]: the writer that holds stripe s, or Nobody
    wr,         \* the writers
    rd,         \* the readers
    val,        \* history: per key, its committed record or Absent
    writes, reads

vars == <<slots, held, wr, rd, val, writes, reads>>

Absent == kUnusedPba
Stripes == 0..(total_slots - 1) \div slots_per_stripe_
NoWrite == [pc |-> "idle", key |-> Absent, op |-> "none", need |-> {},
            pba |-> kUnusedPba, old |-> kUnusedPba,
            free |-> total_slots, from |-> total_slots]
NoRead == [pc |-> "idle", key |-> Absent, off |-> 0, cur |-> kUnusedPba,
           res |-> Absent, win |-> {}]

Init ==
    /\ slots = Restored
    /\ held = [s \in Stripes |-> Nobody]
    /\ wr = [w \in Writers |-> NoWrite]
    /\ rd = [r \in Readers |-> NoRead]
    /\ val = [k \in Keys |-> IF k \in Present THEN <<k, 0>> ELSE Absent]
    /\ writes = 0 /\ reads = 0
-----------------------------------------------------------------------------
(* Writers.                                                                *)

\* Mutant: the lock ends with the neighbourhood, not with the search.
lock_for_short(b) ==
    LET lo == IF b > kHopRange THEN b - kHopRange ELSE 0
        hi == b + kHopRange - 1
    IN  {lo \div slots_per_stripe_, hi \div slots_per_stripe_}

\* lock_for(): the stripes of the slots from one neighbourhood below the
\* bucket to the end of the search.
lock_for(b) ==
    LET lo == IF b > kHopRange THEN b - kHopRange ELSE 0
        hi == SearchLimit(b) - 1
    IN  {lo \div slots_per_stripe_, hi \div slots_per_stripe_}

StartWrite(w) ==
    /\ wr[w].pc = "idle"
    /\ writes < MaxWrites
    /\ writes' = writes + 1
    /\ \E k \in Keys, op \in {"put", "remove"} :
          wr' = [wr EXCEPT ![w] = [NoWrite EXCEPT
                   !.pc = "lock", !.key = k, !.op = op,
                   !.need = lock_for(BucketOf[k]), !.pba = <<k, writes + 1>>]]
    /\ UNCHANGED <<slots, held, rd, val, reads>>

\* Mutant: the stripes are taken in any order.
Lock_AnyOrder(w) ==
    /\ wr[w].pc = "lock"
    /\ \E s \in wr[w].need :
          /\ held[s] = Nobody
          /\ held' = [held EXCEPT ![s] = w]
          /\ wr' = [wr EXCEPT ![w].need = @ \ {s},
                              ![w].pc = IF wr[w].need = {s} THEN "decide" ELSE @]
    /\ UNCHANGED <<slots, rd, val, writes, reads>>

\* WriteLock: the first stripe, then the second.
Lock(w) ==
    /\ wr[w].pc = "lock"
    /\ LET s == Min(wr[w].need)
       IN  /\ held[s] = Nobody
           /\ held' = [held EXCEPT ![s] = w]
           /\ wr' = [wr EXCEPT ![w].need = @ \ {s},
                               ![w].pc = IF wr[w].need = {s} THEN "decide" ELSE @]
    /\ UNCHANGED <<slots, rd, val, writes, reads>>

Unlock(w) ==
    /\ held' = [s \in Stripes |-> IF held[s] = w THEN Nobody ELSE held[s]]
    /\ wr' = [wr EXCEPT ![w] = NoWrite]

\* The key's own entry, told from others of its bucket and tag by the record.
Own(k) == {i \in Neighbourhood(BucketOf[k]) :
             Matches(slots, BucketOf[k], TagOf[k], i) /\ slots[i].pba[1] = k}

\* Under the lock: a put of a key that has an entry updates it, another one
\* inserts; a remove of a key that has none is done.
Decide(w) ==
    /\ wr[w].pc = "decide"
    /\ LET k == wr[w].key
       IN  \/ /\ wr[w].op = "put" /\ Own(k) = {}
              /\ wr' = [wr EXCEPT ![w].pc = "search"]
              /\ UNCHANGED held
           \/ /\ Own(k) # {}
              /\ wr' = [wr EXCEPT ![w].pc = "store", ![w].free = Min(Own(k)),
                                  ![w].old = slots[Min(Own(k))].pba]
              /\ UNCHANGED held
           \/ /\ wr[w].op = "remove" /\ Own(k) = {}
              /\ Unlock(w)
    /\ UNCHANGED <<slots, rd, val, writes, reads>>

\* insert_locked(): the free slot; -1 if there is none.
Search(w) ==
    /\ wr[w].pc = "search"
    /\ LET free == find_free_slot(slots, BucketOf[wr[w].key])
       IN  IF free >= total_slots
           THEN Unlock(w)
           ELSE /\ wr' = [wr EXCEPT ![w].free = free, ![w].pc = "reach"]
                /\ UNCHANGED held
    /\ UNCHANGED <<slots, rd, val, writes, reads>>

\* Mutant: the insert stores past the neighbourhood.
InReach_OffByOne(w) ==
    /\ wr[w].pc = "reach"
    /\ wr[w].free <= BucketOf[wr[w].key] + kHopRange
    /\ wr' = [wr EXCEPT ![w].pc = "store"]
    /\ UNCHANGED <<slots, held, rd, val, writes, reads>>

\* The free slot is in the neighbourhood.
InReach(w) ==
    /\ wr[w].pc = "reach"
    /\ wr[w].free < BucketOf[wr[w].key] + kHopRange
    /\ wr' = [wr EXCEPT ![w].pc = "store"]
    /\ UNCHANGED <<slots, held, rd, val, writes, reads>>

\* Mutant: the entry is cleared at its old slot before it is stored at the new.
MoveUp_ClearFirst(w) ==
    /\ wr[w].pc = "reach"
    /\ wr[w].free >= BucketOf[wr[w].key] + kHopRange
    /\ LET m == Movable(slots, wr[w].free)
       IN  IF m = {}
           THEN Unlock(w) /\ UNCHANGED slots
           ELSE /\ slots' = [slots EXCEPT ![Min(m)] = Empty]
                /\ wr' = [wr EXCEPT ![w].pc = "clear", ![w].from = Min(m)]
                /\ UNCHANGED held
    /\ UNCHANGED <<rd, val, writes, reads>>

\* Mutant: the moved entry keeps the distance of its old slot.
MoveUp_KeepOffset(w) ==
    /\ wr[w].pc = "reach"
    /\ wr[w].free >= BucketOf[wr[w].key] + kHopRange
    /\ LET m == Movable(slots, wr[w].free)
       IN  IF m = {}
           THEN Unlock(w) /\ UNCHANGED slots
           ELSE /\ slots' = [slots EXCEPT ![wr[w].free] = slots[Min(m)]]
                /\ wr' = [wr EXCEPT ![w].pc = "clear", ![w].from = Min(m)]
                /\ UNCHANGED held
    /\ UNCHANGED <<rd, val, writes, reads>>

\* It is not: displace_toward() stores an entry there ...
MoveUp(w) ==
    /\ wr[w].pc = "reach"
    /\ wr[w].free >= BucketOf[wr[w].key] + kHopRange
    /\ LET m == Movable(slots, wr[w].free)
       IN  IF m = {}
           THEN Unlock(w) /\ UNCHANGED slots
           ELSE /\ slots' = [slots EXCEPT
                        ![wr[w].free] = Moved(slots, Min(m), wr[w].free)]
                /\ wr' = [wr EXCEPT ![w].pc = "clear", ![w].from = Min(m)]
                /\ UNCHANGED held
    /\ UNCHANGED <<rd, val, writes, reads>>

\* ... and then clears it where it was.
ClearOld(w) ==
    /\ wr[w].pc = "clear"
    /\ slots' = [slots EXCEPT ![wr[w].from] = Empty]
    /\ wr' = [wr EXCEPT ![w].pc = "reach", ![w].free = wr[w].from,
                        ![w].from = total_slots]
    /\ UNCHANGED <<held, rd, val, writes, reads>>

\* The store that commits the write, and what the lookups in progress may
\* find from then on.
Store(w) ==
    /\ wr[w].pc = "store"
    /\ LET k == wr[w].key
           i == wr[w].free
           new == IF wr[w].op = "put" THEN wr[w].pba ELSE Absent
       IN  /\ slots' = [slots EXCEPT ![i] =
                IF wr[w].op = "put"
                THEN Entry(i - BucketOf[k], TagOf[k], 1, wr[w].pba) ELSE Empty]
           /\ val' = [val EXCEPT ![k] = new]
           /\ rd' = [r \in Readers |-> IF rd[r].key = k
                        THEN [rd[r] EXCEPT !.win = @ \cup {new}] ELSE rd[r]]
    /\ Unlock(w)
    /\ UNCHANGED <<writes, reads>>
-----------------------------------------------------------------------------
(* Readers: lookup(), from offset 0 and then behind each mismatch.         *)

StartRead(r) ==
    /\ rd[r].pc = "idle"
    /\ reads < MaxReads
    /\ reads' = reads + 1
    /\ \E k \in Lookups : rd' = [rd EXCEPT ![r] =
          [NoRead EXCEPT !.pc = "scan", !.key = k, !.win = {val[k]}]]
    /\ UNCHANGED <<slots, held, wr, val, writes>>

\* One slot is loaded.
Load(r) ==
    /\ rd[r].pc = "scan"
    /\ rd[r].off < kHopRange
    /\ LET k == rd[r].key
           i == BucketOf[k] + rd[r].off
       IN  rd' = [rd EXCEPT ![r].off = @ + 1,
                            ![r].cur = slots[i].pba,
                            ![r].pc = IF Matches(slots, BucketOf[k], TagOf[k], i)
                                      THEN "verify" ELSE "scan"]
    /\ UNCHANGED <<slots, held, wr, val, writes, reads>>

\* The record the entry points at is the key's, or the scan goes on.
VerifyKey(r) ==
    /\ rd[r].pc = "verify"
    /\ rd' = [rd EXCEPT ![r] =
                IF rd[r].cur[1] = rd[r].key
                THEN [@ EXCEPT !.pc = "done", !.res = rd[r].cur]
                ELSE [@ EXCEPT !.pc = "scan"]]
    /\ UNCHANGED <<slots, held, wr, val, writes, reads>>

NotFound(r) ==
    /\ rd[r].pc = "scan"
    /\ rd[r].off = kHopRange
    /\ rd' = [rd EXCEPT ![r].pc = "done"]
    /\ UNCHANGED <<slots, held, wr, val, writes, reads>>

EndRead(r) ==
    /\ rd[r].pc = "done"
    /\ rd' = [rd EXCEPT ![r] = NoRead]
    /\ UNCHANGED <<slots, held, wr, val, writes, reads>>
-----------------------------------------------------------------------------
Write(w) == \/ Lock(w) \/ Decide(w) \/ Search(w) \/ InReach(w)
            \/ MoveUp(w) \/ ClearOld(w) \/ Store(w)

Next ==
    \/ \E w \in Writers : StartWrite(w) \/ Write(w)
    \/ \E r \in Readers :
          StartRead(r) \/ Load(r) \/ VerifyKey(r) \/ NotFound(r) \/ EndRead(r)

Spec == Init /\ [][Next]_vars
-----------------------------------------------------------------------------
(* Properties.                                                             *)

Pbas == Keys \X (0..MaxWrites)

\* Every variable has its type; an entry lies in its bucket's neighbourhood.
TypeOK ==
    /\ DOMAIN slots = SlotIdx
    /\ \A i \in SlotIdx : IsEmpty(slots[i]) \/
          /\ slots[i].off \in 0..kHopRange - 1 /\ slots[i].off <= i
          /\ slots[i].size = 1 /\ slots[i].pba \in Pbas
    /\ held \in [Stripes -> Writers \cup {Nobody}]
    /\ \A w \in Writers :
          /\ wr[w].pc \in {"idle", "lock", "decide", "search", "reach", "clear",
                           "store"}
          /\ wr[w].need \subseteq Stripes
          /\ wr[w].free \in 0..total_slots /\ wr[w].from \in 0..total_slots
    /\ \A r \in Readers :
          /\ rd[r].pc \in {"idle", "scan", "verify", "done"}
          /\ rd[r].off \in 0..kHopRange
    /\ val \in [Keys -> Pbas \cup {Absent}]
    /\ writes \in 0..MaxWrites /\ reads \in 0..MaxReads

\* "a reader scanning upward always sees an entry in at least one position":
\* a lookup that finds nothing had a moment, since it began, at which the key
\* had no entry, and one that finds a record found one the key had since then,
\* whatever inserts move other entries, the key's own included, meanwhile.
LookupLinearizable ==
    \A r \in Readers : rd[r].pc = "done" => rd[r].res \in rd[r].win

\* Between the locks' holders, the table holds each key's record in exactly one
\* slot of its neighbourhood; a second copy exists only while a displacement is
\* between its two stores.
EntriesExact ==
    \A k \in Keys :
        LET copies == {i \in SlotIdx : ~IsEmpty(slots[i]) /\ slots[i].pba[1] = k}
            moving == {i \in copies : \E w \in Writers :
                         wr[w].pc = "clear" /\ wr[w].from = i}
        IN  /\ \A i \in copies : /\ Matches(slots, BucketOf[k], TagOf[k], i)
                                 /\ slots[i].pba = val[k]
            /\ Cardinality(copies \ moving) = IF val[k] = Absent THEN 0 ELSE 1

\* The slot an insert or a move is about to fill is empty, and the one a move is
\* about to clear holds what was copied: no other writer touches what the stripe
\* locks of lock_for() cover.
StripesProtect ==
    \A w \in Writers :
        /\ wr[w].pc = "reach" => IsEmpty(slots[wr[w].free])
        /\ wr[w].pc = "store" => slots[wr[w].free].pba = wr[w].old
        /\ wr[w].pc = "clear" =>
              slots[wr[w].free].pba = slots[wr[w].from].pba

\* A writer takes its one or two stripes in ascending order, so writers never all
\* wait for each other: while writes are under way, one of them can go on.
SomeWriterGoesOn ==
    (\E w \in Writers : wr[w].pc # "idle") =>
        \E w \in Writers : ENABLED Write(w)
=============================================================================
