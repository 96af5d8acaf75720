---------------------------- MODULE HashTableOps ----------------------------
(***************************************************************************)
(* The hopscotch table of src/src/udepot/hash_table.cc as operators on its *)
(* slots: a table t maps 0..total_slots - 1 to entries.  An entry of       *)
(* bucket b lies in b's neighbourhood, the kHopRange slots from b on, and  *)
(* holds its distance from b.  A tag is whatever the caller uses for one.  *)
(***************************************************************************)
EXTENDS Naturals, FiniteSetsExt

CONSTANTS kHopRange, kMaxDisplace, num_buckets,
          kUnusedPba    \* the pba that marks a slot as unused

ASSUME HashTableAssumption ==
    /\ kHopRange \in Nat \ {0} /\ kMaxDisplace \in Nat
    /\ num_buckets \in Nat \ {0}

total_slots == num_buckets + kHopRange
SlotIdx == 0..total_slots - 1
Buckets == 0..num_buckets - 1

\* A write of bucket b searches [b, b + kSearchEnd) for a free slot, and is
\* locked for kWriteReach slots from b - kHopRange on.
kSearchEnd == kHopRange * (kMaxDisplace + 1)
kWriteReach == kHopRange + kSearchEnd

\* HashEntry: kv_size 0 marks a deleted entry, whose pba is a tombstone's.
Entry(off, tag, size, pba) == [off |-> off, tag |-> tag, size |-> size,
                               pba |-> pba]
Empty == Entry(0, kUnusedPba, 0, kUnusedPba)
IsEmpty(e) == e.pba = kUnusedPba
IsDeleted(e) == ~IsEmpty(e) /\ e.size = 0
ClearTable == [i \in SlotIdx |-> Empty]

\* The smallest of a set of slots, or total_slots for none.
First(S) == IF S = {} THEN total_slots ELSE Min(S)

SearchLimit(b) == IF b + kSearchEnd < total_slots THEN b + kSearchEnd
                                                  ELSE total_slots

find_free_slot(t, b) == First({i \in b..SearchLimit(b) - 1 : IsEmpty(t[i])})

\* An entry of bucket b and tag at slot i.
Matches(t, b, tag, i) == /\ ~IsEmpty(t[i])
                         /\ t[i].off = i - b
                         /\ t[i].tag = tag

Neighbourhood(b) == b..b + kHopRange - 1

find_pba(t, b, tag, pba) ==
    First({i \in Neighbourhood(b) : Matches(t, b, tag, i) /\ t[i].pba = pba})

\* lookup() against an unchanging table: the slot of the first match at an
\* offset of at least start.
lookup(t, b, tag, start, include_deleted) ==
    First({i \in b + start..b + kHopRange - 1 :
             Matches(t, b, tag, i) /\ (include_deleted \/ ~IsDeleted(t[i]))})

\* displace_toward(): the lowest entry that may move up to the free slot and
\* stay in its own neighbourhood.  (The search never reaches below the target,
\* which is at least kHopRange slots down.)
Movable(t, free) ==
    {i \in SlotIdx : /\ i < free /\ free < i + kHopRange
                     /\ ~IsEmpty(t[i])
                     /\ free < i - t[i].off + kHopRange}

\* The entry at slot i, as it is stored at slot free.
Moved(t, i, free) == Entry(t[i].off + (free - i), t[i].tag, t[i].size, t[i].pba)

\* The loop of insert_locked(): move entries up until the free slot is in
\* reach of bucket b, or none can move.
Displaced(t, b, free) ==
    LET f[n \in Nat] ==
          IF n = 0 THEN [t |-> t, free |-> free]
          ELSE LET p == f[n - 1]
                   m == Movable(p.t, p.free)
               IN  IF p.free < b + kHopRange \/ m = {} THEN p
                   ELSE [t |-> [p.t EXCEPT ![p.free] = Moved(p.t, Min(m), p.free),
                                           ![Min(m)] = Empty],
                         free |-> Min(m)]
    IN  f[total_slots]

\* insert_locked(): the table after it, and whether it succeeded.
insert_locked(t, b, tag, size, pba) ==
    LET free == find_free_slot(t, b)
        put(u, i) == [u EXCEPT ![i] = Entry(i - b, tag, size, pba)]
    IN  IF free >= total_slots THEN [ok |-> FALSE, t |-> t]
        ELSE IF free < b + kHopRange THEN [ok |-> TRUE, t |-> put(t, free)]
        ELSE LET d == Displaced(t, b, free)
             IN  IF d.free < b + kHopRange
                 THEN [ok |-> TRUE, t |-> put(d.t, d.free)]
                 ELSE [ok |-> FALSE, t |-> d.t]

\* update_locked() and remove_locked() of an entry that is there.
update_locked(t, b, tag, old_pba, size, pba) ==
    [t EXCEPT ![find_pba(t, b, tag, old_pba)] = Entry(@.off, tag, size, pba)]
remove_locked(t, b, tag, pba) ==
    [t EXCEPT ![find_pba(t, b, tag, pba)] = Empty]
=============================================================================
