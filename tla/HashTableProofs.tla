-------------------------- MODULE HashTableProofs --------------------------
(***************************************************************************)
(* The invariants of HashTable for every number of buckets, hop range,     *)
(* displacement limit, stripe size, set of keys, writers and readers.      *)
(***************************************************************************)
EXTENDS HashTable, FiniteSetTheorems, WellFoundedInduction, TLAPS

-----------------------------------------------------------------------------
(* The inductive invariant.                                                *)

PbaOrNone == Pbas \cup {Absent}
Tags == {TagOf[k] : k \in Keys} \cup {kUnusedPba}
EntryType == [off : Nat, tag : Tags, size : {0, 1}, pba : PbaOrNone]
WriteType ==
    [pc : {"idle", "lock", "decide", "search", "reach", "clear", "store"},
     key : Keys \cup {Absent}, op : {"none", "put", "remove"},
     need : SUBSET Stripes, pba : PbaOrNone, old : PbaOrNone,
     free : 0..total_slots, from : 0..total_slots]
ReadType ==
    [pc : {"idle", "scan", "verify", "done"}, key : Keys \cup {Absent},
     off : 0..kHopRange, cur : PbaOrNone, res : PbaOrNone, win : SUBSET PbaOrNone]

Types ==
    /\ slots \in [SlotIdx -> EntryType]
    /\ held \in [Stripes -> Writers \cup {Nobody}]
    /\ wr \in [Writers -> WriteType]
    /\ rd \in [Readers -> ReadType]
    /\ val \in [Keys -> PbaOrNone]
    /\ writes \in 0..MaxWrites /\ reads \in 0..MaxReads

\* An entry is its key's committed record, in the key's neighbourhood.
InPlace ==
    \A i \in SlotIdx : ~IsEmpty(slots[i]) =>
        LET k == slots[i].pba[1]
        IN  /\ slots[i] = Entry(i - BucketOf[k], TagOf[k], 1, val[k])
            /\ i \in Neighbourhood(BucketOf[k])

\* Slot i has an entry of key k.
Copy(k, i) == ~IsEmpty(slots[i]) /\ slots[i].pba[1] = k

HasCopy == \A k \in Keys : val[k] # Absent => \E i \in SlotIdx : Copy(k, i)

\* Writer w has stored at slot j the entry it is about to clear at slot i.
Moves(w, i, j) == wr[w].pc = "clear" /\ wr[w].from = i /\ wr[w].free = j

OneCopy ==
    \A k \in Keys, i, j \in SlotIdx :
        Copy(k, i) /\ Copy(k, j) /\ i # j =>
            \E w \in Writers : Moves(w, i, j) \/ Moves(w, j, i)

\* The slots a write of bucket b may look at or store to.
Span(b) == b..SearchLimit(b) - 1

\* What writer w knows of the locks, and by them of the table.
LocksOK(w) ==
    LET x == wr[w]
    IN  /\ x.pc # "idle" => x.key \in Keys /\ x.op # "none"
                            /\ x.pba \in Pbas /\ x.pba[1] = x.key
        /\ x.pc = "lock" => /\ x.need # {} /\ x.need \subseteq lock_for(BucketOf[x.key])
                            /\ \A s \in lock_for(BucketOf[x.key]) \ x.need : held[s] = w
        /\ x.pc \notin {"idle", "lock"} =>
              \A s \in lock_for(BucketOf[x.key]) : held[s] = w
        /\ x.pc # "store" => x.old = kUnusedPba

WriterOK(w) ==
    LET x == wr[w]
        b == BucketOf[x.key]
    IN  /\ x.pc \in {"search", "reach", "clear"} => x.op = "put" /\ val[x.key] = Absent
        /\ x.pc = "reach" => x.free \in Span(b) /\ IsEmpty(slots[x.free])
        /\ x.pc = "clear" => /\ x.free \in Span(b) /\ x.from \in Span(b)
                             /\ x.from < x.free
                             /\ ~IsEmpty(slots[x.from])
                             /\ slots[x.free].pba = slots[x.from].pba
        /\ x.pc = "store" => /\ x.free \in Neighbourhood(b)
                             /\ slots[x.free].pba = x.old
                             /\ IF x.old = kUnusedPba
                                THEN x.op = "put" /\ val[x.key] = Absent
                                ELSE x.old[1] = x.key

\* The key of reader r had no entry at some moment, or its entry is ahead.
Ahead(r) ==
    \/ Absent \in rd[r].win
    \/ \E i \in SlotIdx : Copy(rd[r].key, i) /\ i >= BucketOf[rd[r].key] + rd[r].off

ReaderOK(r) ==
    LET x == rd[r]
    IN  /\ x.pc # "idle" => x.key \in Keys /\ val[x.key] \in x.win
        /\ x.pc \in {"scan", "verify"} => x.res = Absent
        /\ x.pc = "scan" => Ahead(r)
        /\ x.pc = "verify" => IF x.cur[1] = x.key THEN x.cur \in x.win ELSE Ahead(r)
        /\ x.pc = "done" => x.res \in x.win

IInv ==
    /\ Types /\ InPlace /\ HasCopy /\ OneCopy
    /\ \A w \in Writers : LocksOK(w) /\ WriterOK(w)
    /\ \A r \in Readers : ReaderOK(r)
-----------------------------------------------------------------------------
(* Numbers: minima, sizes, and the stripes of a range of slots.            *)

\* A nonempty set of naturals has a least element, which is what Min chooses.
LEMMA MinNat ==
    ASSUME NEW S \in SUBSET Nat, S # {}
    PROVE  Min(S) \in S /\ \A y \in S : Min(S) <= y
<1>. DEFINE R == {ss \in Nat \X Nat : ss[1] < ss[2]}
<1>1. IsWellFoundedOn(R, Nat)
  BY NatLessThanWellFounded DEF OpToRel
<1>. HIDE DEF R
<1>2. PICK x \in S : \A y \in S : ~ (<<y, x>> \in R)
  BY <1>1, WFMin, Zenon
<1>3. ASSUME NEW y \in S PROVE x <= y
  <2>1. y < x => <<y, x>> \in R
    BY DEF R
  <2>. QED
    BY <2>1, <1>2
<1>. QED
  BY <1>3, Zenon DEF Min

\* What integer division by the stripe size keeps.
LEMMA DivBounds ==
    ASSUME NEW n \in Nat, n > 0, NEW i \in Nat
    PROVE  /\ i \div n \in Nat
           /\ n * (i \div n) <= i
           /\ i < n * (i \div n) + n
OBVIOUS

LEMMA DivMonotonic ==
    ASSUME NEW n \in Nat, n > 0, NEW i \in Nat, NEW j \in Nat, i <= j
    PROVE  i \div n <= j \div n
BY DivBounds

\* A range no longer than a stripe has only the stripes of its two ends.
LEMMA TwoStripes ==
    ASSUME NEW n \in Nat, n > 0, NEW lo \in Nat, NEW hi \in Nat, NEW i \in Nat,
           lo <= i, i <= hi, hi < lo + n
    PROVE  i \div n \in {lo \div n, hi \div n}
BY DivBounds

LEMMA Sizes ==
    /\ kSearchEnd \in Nat /\ kHopRange <= kSearchEnd
    /\ kWriteReach \in Nat /\ kWriteReach = kHopRange + kSearchEnd
    /\ total_slots \in Nat /\ total_slots = num_buckets + kHopRange
    /\ SlotIdx = 0..total_slots - 1 /\ Buckets = 0..num_buckets - 1
    /\ kHopRange \in Nat /\ kHopRange > 0 /\ num_buckets \in Nat
    /\ slots_per_stripe_ \in Nat /\ slots_per_stripe_ > 0
<1>1. kHopRange \in Nat /\ kHopRange > 0 /\ kMaxDisplace \in Nat /\ num_buckets \in Nat
  BY HashTableAssumption
<1>2. kHopRange * (kMaxDisplace + 1) = kHopRange * kMaxDisplace + kHopRange
  BY <1>1
<1>3. kHopRange * kMaxDisplace \in Nat
  BY <1>1
<1>4. kSearchEnd \in Nat /\ kHopRange <= kSearchEnd
  BY <1>1, <1>2, <1>3 DEF kSearchEnd
<1>. QED
  BY <1>1, <1>4, UsersAssumption DEF kWriteReach, total_slots, SlotIdx, Buckets

LEMMA Indices ==
    /\ SlotIdx \subseteq Nat /\ SlotIdx \subseteq 0..total_slots /\ Buckets \subseteq Nat
    /\ total_slots \in 0..total_slots /\ kHopRange \in Nat
<1>1. /\ total_slots \in Nat /\ num_buckets \in Nat /\ kHopRange \in Nat
      /\ SlotIdx = 0..total_slots - 1 /\ Buckets = 0..num_buckets - 1
  BY Sizes
<1>. QED
  BY <1>1

LEMMA LessDiffers ==
    ASSUME NEW i \in Nat, NEW j \in Nat, i < j
    PROVE  i # j
OBVIOUS

LEMMA InNeighbourhood ==
    ASSUME NEW b \in Nat, NEW i \in Nat, i \in Neighbourhood(b)
    PROVE  i - b \in Nat /\ i >= b /\ i < b + kHopRange
BY Indices DEF Neighbourhood

\* A bucket's span holds its neighbourhood and lies in the table.
LEMMA SpanOK ==
    ASSUME NEW b \in Buckets
    PROVE  /\ b \in Nat /\ SearchLimit(b) \in Nat
           /\ b + kHopRange <= SearchLimit(b)
           /\ SearchLimit(b) <= total_slots
           /\ SearchLimit(b) <= b + kSearchEnd
           /\ Span(b) \subseteq SlotIdx /\ b \in Span(b)
           /\ Neighbourhood(b) \subseteq Span(b)
<1>1. /\ b \in Nat /\ SearchLimit(b) \in Nat
      /\ b + kHopRange <= SearchLimit(b)
      /\ SearchLimit(b) <= total_slots
      /\ SearchLimit(b) <= b + kSearchEnd
  BY Sizes DEF SearchLimit
<1>. QED
  BY <1>1, Sizes DEF Span, Neighbourhood

\* lock_for() names stripes, and covers the span.
LEMMA LocksCover ==
    ASSUME NEW b \in Buckets
    PROVE  /\ lock_for(b) \subseteq Stripes /\ lock_for(b) # {}
           /\ \A i \in Span(b) : i \div slots_per_stripe_ \in lock_for(b)
<1>. DEFINE lo == IF b > kHopRange THEN b - kHopRange ELSE 0
            hi == SearchLimit(b) - 1
            n == slots_per_stripe_
<1>0. /\ b \in Nat /\ SearchLimit(b) \in Nat /\ b + kHopRange <= SearchLimit(b)
      /\ SearchLimit(b) <= total_slots /\ SearchLimit(b) <= b + kSearchEnd
  BY SpanOK
<1>1. /\ lo \in Nat /\ hi \in Nat /\ lo <= b /\ b <= hi /\ hi <= total_slots - 1
      /\ hi < lo + kWriteReach
  <2>. HIDE DEF hi
  <2>1. hi \in Nat /\ b <= hi /\ hi <= total_slots - 1 /\ hi < b + kSearchEnd
    BY <1>0, Sizes DEF hi
  <2>2. lo \in Nat /\ lo <= b /\ b <= lo + kHopRange
    BY <1>0, Sizes
  <2>. HIDE DEF lo
  <2>. QED
    BY <1>0, <2>1, <2>2, Sizes
<1>2. n \in Nat /\ n > 0 /\ n >= kWriteReach /\ kWriteReach \in Nat /\ total_slots - 1 \in Nat
  BY <1>1, Sizes, UsersAssumption
<1>3. lock_for(b) = {lo \div n, hi \div n}
  BY DEF lock_for
<1>. HIDE DEF lo, hi, n
<1>4. /\ lo \div n \in Nat /\ hi \div n \in Nat /\ (total_slots - 1) \div n \in Nat
      /\ lo \div n <= (total_slots - 1) \div n /\ hi \div n <= (total_slots - 1) \div n
  <2>1. lo \in Nat /\ hi \in Nat /\ lo <= total_slots - 1
    BY <1>0, <1>1, Sizes
  <2>2. lo \div n <= (total_slots - 1) \div n
    BY <2>1, <1>2, DivMonotonic
  <2>3. hi \div n <= (total_slots - 1) \div n
    BY <1>1, <1>2, DivMonotonic
  <2>4. lo \div n \in Nat /\ hi \div n \in Nat /\ (total_slots - 1) \div n \in Nat
    BY <1>1, <1>2, DivBounds
  <2>. QED
    BY <2>2, <2>3, <2>4
<1>5. lock_for(b) \subseteq Stripes
  BY <1>3, <1>4 DEF Stripes, n
<1>6. ASSUME NEW i \in Span(b) PROVE i \div n \in lock_for(b)
  <2>1. i \in Nat /\ lo <= i /\ i <= hi
    BY <1>1, SpanOK DEF Span, hi
  <2>. QED
    BY <1>1, <1>2, <1>3, <2>1, TwoStripes
<1>. QED
  BY <1>3, <1>5, <1>6 DEF n

\* Writers that have their locks have disjoint spans.
LEMMA Disjoint ==
    ASSUME IInv, NEW w \in Writers, NEW v \in Writers, v # w,
           wr[w].pc \notin {"idle", "lock"}, wr[v].pc \notin {"idle", "lock"}
    PROVE  \A i \in Span(BucketOf[wr[w].key]) : i \notin Span(BucketOf[wr[v].key])
<1>1. /\ wr[w].key \in Keys /\ \A s \in lock_for(BucketOf[wr[w].key]) : held[s] = w
      /\ wr[v].key \in Keys /\ \A s \in lock_for(BucketOf[wr[v].key]) : held[s] = v
  BY DEF IInv, LocksOK
<1>2. BucketOf[wr[w].key] \in Buckets /\ BucketOf[wr[v].key] \in Buckets
  BY <1>1, UsersAssumption
<1>. QED
  BY <1>1, <1>2, LocksCover
-----------------------------------------------------------------------------
(* The initial states.                                                     *)

LEMMA PbaFacts ==
    /\ Absent \notin Pbas /\ Absent = kUnusedPba
    /\ \A p \in Pbas : p[1] \in Keys
    /\ \A k \in Keys, n \in 0..MaxWrites : <<k, n>> \in Pbas /\ <<k, n>>[1] = k
BY UsersAssumption DEF Pbas, Absent

LEMMA EmptyIsEntry == Empty \in EntryType /\ IsEmpty(Empty)
BY DEF Empty, IsEmpty, EntryType, Entry, Tags, PbaOrNone, Absent

LEMMA EntryIsEntry ==
    ASSUME NEW k \in Keys, NEW n \in 0..MaxWrites, NEW d \in Nat
    PROVE  /\ Entry(d, TagOf[k], 1, <<k, n>>) \in EntryType
           /\ ~IsEmpty(Entry(d, TagOf[k], 1, <<k, n>>))
<1>1. <<k, n>> \in Pbas /\ <<k, n>> # kUnusedPba
  BY UsersAssumption DEF Pbas
<1>2. TagOf[k] \in Tags
  BY DEF Tags
<1>. QED
  BY <1>1, <1>2 DEF EntryType, Entry, PbaOrNone, IsEmpty

LEMMA InitInv == Init => IInv
<1>. SUFFICES ASSUME Init PROVE IInv
  OBVIOUS
<1>. USE DEF Init
<1>1. PICK at \in [Present -> SlotIdx] :
          /\ \A k \in Present :
                /\ at[k] \in Neighbourhood(BucketOf[k])
                /\ slots[at[k]] = Entry(at[k] - BucketOf[k], TagOf[k], 1, <<k, 0>>)
          /\ \A i \in SlotIdx : (\A k \in Present : at[k] # i) => slots[i] = Empty
  BY RestoredAssumption, Zenon
<1>2. Present \subseteq Keys /\ 0 \in 0..MaxWrites /\ DOMAIN slots = SlotIdx
  BY RestoredAssumption, UsersAssumption
<1>3. ASSUME NEW k \in Present
      PROVE  /\ k \in Keys /\ at[k] \in SlotIdx /\ at[k] - BucketOf[k] \in Nat
             /\ slots[at[k]] \in EntryType /\ ~IsEmpty(slots[at[k]])
             /\ slots[at[k]] = Entry(at[k] - BucketOf[k], TagOf[k], 1, val[k])
             /\ slots[at[k]].pba[1] = k
  <2>1. k \in Keys /\ BucketOf[k] \in Nat /\ val[k] = <<k, 0>>
    BY <1>2, UsersAssumption, SpanOK
  <2>2. /\ at[k] \in SlotIdx /\ at[k] \in Neighbourhood(BucketOf[k])
        /\ slots[at[k]] = Entry(at[k] - BucketOf[k], TagOf[k], 1, <<k, 0>>)
    BY <1>1
  <2>3. at[k] - BucketOf[k] \in Nat
    BY <2>1, <2>2, Indices, InNeighbourhood, Zenon
  <2>4. slots[at[k]] \in EntryType /\ ~IsEmpty(slots[at[k]])
    BY <1>2, <2>1, <2>2, <2>3, EntryIsEntry, Zenon
  <2>5. slots[at[k]].pba = <<k, 0>>
    BY <2>2 DEF Entry
  <2>6. <<k, 0>>[1] = k
    OBVIOUS
  <2>. QED
    BY <2>1, <2>2, <2>3, <2>4, <2>5, <2>6, Zenon
<1>4. \A i \in SlotIdx : ~IsEmpty(slots[i]) => \E k \in Present : at[k] = i
  BY <1>1, EmptyIsEntry
<1>5. Types
  <2>1. slots \in [SlotIdx -> EntryType]
    <3>1. \A i \in SlotIdx : slots[i] \in EntryType
      BY <1>1, <1>3, EmptyIsEntry, Zenon
    <3>. QED
      BY <3>1, RestoredAssumption
  <2>2. NoWrite \in WriteType /\ NoRead \in ReadType
    BY Sizes DEF NoWrite, WriteType, NoRead, ReadType, PbaOrNone, Absent
  <2>3. val \in [Keys -> PbaOrNone]
    BY <1>2, PbaFacts DEF PbaOrNone
  <2>. QED
    BY <2>1, <2>2, <2>3, UsersAssumption DEF Types
<1>6. InPlace
  <2>. SUFFICES ASSUME NEW i \in SlotIdx, ~IsEmpty(slots[i]), NEW l, l = slots[i].pba[1]
                PROVE  /\ slots[i] = Entry(i - BucketOf[l], TagOf[l], 1, val[l])
                       /\ i \in Neighbourhood(BucketOf[l])
    BY SMTT(30) DEF InPlace
  <2>1. PICK k \in Present : at[k] = i
    BY <1>4
  <2>2. l = k
    BY <2>1, <1>3, Zenon
  <2>. QED
    BY <2>1, <2>2, <1>1, <1>3, SMTT(30)
<1>7. HasCopy
  BY <1>3, Zenon DEF HasCopy, Copy
<1>8. OneCopy
  <2>1. ASSUME NEW k \in Keys, NEW i \in SlotIdx, Copy(k, i)
        PROVE  k \in Present /\ i = at[k]
    <3>1. PICK l \in Present : at[l] = i
      BY <2>1, <1>4 DEF Copy
    <3>2. slots[i].pba[1] = l
      BY <3>1, <1>3, Zenon
    <3>. QED
      BY <2>1, <3>1, <3>2 DEF Copy
  <2>. QED
    BY <2>1 DEF OneCopy
<1>9. \A w \in Writers : LocksOK(w) /\ WriterOK(w)
  BY DEF LocksOK, WriterOK, NoWrite
<1>10. \A r \in Readers : ReaderOK(r)
  BY DEF ReaderOK, NoRead
<1>. QED
  BY <1>5, <1>6, <1>7, <1>8, <1>9, <1>10 DEF IInv
-----------------------------------------------------------------------------
(* Steps that leave the table alone.                                       *)

\* What the invariant says of an entry.
LEMMA EntryFacts ==
    ASSUME Types, InPlace, NEW i \in SlotIdx, ~IsEmpty(slots[i]), NEW k, k = slots[i].pba[1]
    PROVE  /\ k \in Keys /\ BucketOf[k] \in Buckets /\ BucketOf[k] \in Nat
           /\ slots[i].pba \in Pbas /\ slots[i].pba = val[k] /\ val[k] # Absent
           /\ slots[i].off = i - BucketOf[k] /\ slots[i].tag = TagOf[k] /\ slots[i].size = 1
           /\ i \in Neighbourhood(BucketOf[k]) /\ i \in Span(BucketOf[k])
<1>1. slots[i].pba \in Pbas /\ slots[i].pba # Absent
  BY DEF Types, EntryType, PbaOrNone, IsEmpty, Absent
<1>2. k \in Keys /\ BucketOf[k] \in Buckets
  BY <1>1, PbaFacts, UsersAssumption
<1>3. /\ slots[i] = Entry(i - BucketOf[k], TagOf[k], 1, val[k])
      /\ i \in Neighbourhood(BucketOf[k])
  BY SMTT(30) DEF InPlace
<1>4. BucketOf[k] \in Nat /\ i \in Span(BucketOf[k])
  BY <1>2, <1>3, SpanOK, Zenon
<1>5. /\ slots[i].off = i - BucketOf[k] /\ slots[i].tag = TagOf[k]
      /\ slots[i].size = 1 /\ slots[i].pba = val[k]
  <2>. DEFINE e == slots[i]
              d == i - BucketOf[k]
  <2>1. e = Entry(d, TagOf[k], 1, val[k])
    BY <1>3, Zenon
  <2>. HIDE DEF e, d
  <2>2. e.off = d /\ e.tag = TagOf[k] /\ e.size = 1 /\ e.pba = val[k]
    BY <2>1 DEF Entry
  <2>. QED
    BY <2>2, Zenon DEF e, d
<1>. QED
  BY <1>1, <1>2, <1>3, <1>4, <1>5, Zenon

\* A writer's step that leaves slots, values and readers alone keeps the
\* invariant if it keeps what the writer itself knows.
LEMMA QuietStep ==
    ASSUME IInv, Types', NEW w \in Writers, UNCHANGED <<slots, val, rd>>,
           \A v \in Writers \ {w} : wr'[v] = wr[v], wr[w].pc # "clear",
           \A v \in Writers \ {w}, s \in Stripes : held[s] = v => held'[s] = v,
           LocksOK(w)', WriterOK(w)'
    PROVE  IInv'
<1>1. ASSUME NEW v \in Writers, v # w PROVE LocksOK(v)' /\ WriterOK(v)'
  <2>1. LocksOK(v) /\ WriterOK(v) /\ wr'[v] = wr[v]
    BY <1>1 DEF IInv
  <2>2. wr[v].pc # "idle" => lock_for(BucketOf[wr[v].key]) \subseteq Stripes
    BY <2>1, LocksCover, UsersAssumption, SMTT(30) DEF LocksOK
  <2>3. LocksOK(v)'
    BY <1>1, <2>1, <2>2, SMTT(30) DEF LocksOK
  <2>4. WriterOK(v)'
    BY <2>1, Zenon DEF WriterOK
  <2>. QED
    BY <2>3, <2>4
<1>2. InPlace' /\ HasCopy'
  BY Zenon DEF IInv, InPlace, HasCopy, Copy
<1>3. OneCopy'
  <2>. SUFFICES ASSUME NEW k \in Keys, NEW i \in SlotIdx, NEW j \in SlotIdx,
                       Copy(k, i), Copy(k, j), i # j
                PROVE  \E v \in Writers : Moves(v, i, j)' \/ Moves(v, j, i)'
    BY SMTT(30) DEF OneCopy, Copy
  <2>1. PICK v \in Writers : Moves(v, i, j) \/ Moves(v, j, i)
    BY DEF IInv, OneCopy
  <2>2. v # w /\ wr'[v] = wr[v]
    BY <2>1 DEF Moves
  <2>. QED
    BY <2>1, <2>2, Zenon DEF Moves
<1>4. \A r \in Readers : ReaderOK(r)'
  BY SMTT(30) DEF IInv, ReaderOK, Ahead, Copy
<1>. QED
  BY <1>1, <1>2, <1>3, <1>4 DEF IInv

LEMMA StartWriteInv ==
    ASSUME IInv, NEW w \in Writers, StartWrite(w)
    PROVE  IInv'
<1>1. PICK k \in Keys, op \in {"put", "remove"} :
         wr' = [wr EXCEPT ![w] = [NoWrite EXCEPT
                   !.pc = "lock", !.key = k, !.op = op,
                   !.need = lock_for(BucketOf[k]), !.pba = <<k, writes + 1>>]]
  BY Zenon DEF StartWrite
<1>2. Types /\ wr[w].pc = "idle" /\ writes < MaxWrites /\ writes' = writes + 1
      /\ UNCHANGED <<slots, held, rd, val, reads>>
  BY DEF StartWrite, IInv
<1>3. lock_for(BucketOf[k]) \subseteq Stripes /\ lock_for(BucketOf[k]) # {}
  BY LocksCover, UsersAssumption
<1>4. writes + 1 \in 0..MaxWrites
  BY <1>2, UsersAssumption DEF Types
<1>5. <<k, writes + 1>> \in Pbas /\ <<k, writes + 1>>[1] = k
  BY <1>4, PbaFacts
<1>6. wr'[w] = [pc |-> "lock", key |-> k, op |-> op,
                need |-> lock_for(BucketOf[k]), pba |-> <<k, writes + 1>>,
                old |-> kUnusedPba, free |-> total_slots, from |-> total_slots]
  BY <1>1, <1>2, Zenon DEF Types, NoWrite
<1>7. Types'
  <2>1. wr'[w] \in WriteType
    BY <1>3, <1>5, <1>6, Sizes, SMTT(30) DEF WriteType, PbaOrNone, Absent
  <2>. QED
    BY <1>1, <1>2, <1>4, <2>1 DEF Types
<1>8. \A v \in Writers \ {w} : wr'[v] = wr[v]
  BY <1>1, <1>2 DEF Types
<1>9. LocksOK(w)' /\ WriterOK(w)'
  <2>1. /\ wr'[w].pc = "lock" /\ wr'[w].key = k /\ wr'[w].op \in {"put", "remove"}
        /\ wr'[w].need = lock_for(BucketOf[k]) /\ wr'[w].pba = <<k, writes + 1>>
        /\ wr'[w].old = kUnusedPba
    BY <1>6, SMTT(30)
  <2>2. LocksOK(w)'
    BY <1>3, <1>5, <2>1, SMTT(30) DEF LocksOK
  <2>3. WriterOK(w)'
    BY <2>1 DEF WriterOK
  <2>. QED
    BY <2>2, <2>3
<1>. QED
  BY <1>2, <1>7, <1>8, <1>9, QuietStep

\* The writer lets go of its stripes and forgets its write.
LEMMA UnlockFacts ==
    ASSUME Types, NEW w \in Writers, Unlock(w)
    PROVE  /\ held' \in [Stripes -> Writers \cup {Nobody}]
           /\ wr' \in [Writers -> WriteType] /\ wr'[w] = NoWrite
           /\ \A v \in Writers \ {w} : wr'[v] = wr[v]
           /\ \A v \in Writers \ {w}, s \in Stripes : held[s] = v => held'[s] = v
           /\ LocksOK(w)' /\ WriterOK(w)'
<1>1. NoWrite \in WriteType
  BY Sizes DEF NoWrite, WriteType, PbaOrNone, Absent
<1>2. wr' = [wr EXCEPT ![w] = NoWrite]
      /\ held' = [s \in Stripes |-> IF held[s] = w THEN Nobody ELSE held[s]]
  BY DEF Unlock
<1>3. wr' \in [Writers -> WriteType] /\ wr'[w] = NoWrite
      /\ \A v \in Writers \ {w} : wr'[v] = wr[v]
  BY <1>1, <1>2 DEF Types
<1>4. held' \in [Stripes -> Writers \cup {Nobody}]
      /\ \A v \in Writers \ {w}, s \in Stripes : held[s] = v => held'[s] = v
  BY <1>2 DEF Types
<1>5. LocksOK(w)' /\ WriterOK(w)'
  <2>1. wr'[w].pc = "idle" /\ wr'[w].old = kUnusedPba
    BY <1>3 DEF NoWrite
  <2>. QED
    BY <2>1, SMTT(30) DEF LocksOK, WriterOK
<1>. QED
  BY <1>3, <1>4, <1>5, SMTT(30)

LEMMA GiveUpInv ==
    ASSUME IInv, NEW w \in Writers, wr[w].pc # "clear", Unlock(w),
           UNCHANGED <<slots, rd, val, writes, reads>>
    PROVE  IInv'
<1>1. Types /\ Types'
  BY UnlockFacts DEF IInv, Types
<1>. QED
  BY <1>1, UnlockFacts, QuietStep, SMTT(30)

LEMMA LockInv ==
    ASSUME IInv, NEW w \in Writers, Lock(w)
    PROVE  IInv'
<1>. DEFINE s == Min(wr[w].need)
            pc == IF wr[w].need = {s} THEN "decide" ELSE "lock"
<1>1. Types /\ wr[w].pc = "lock" /\ LocksOK(w) /\ wr[w] \in WriteType
  BY DEF Lock, IInv, Types
<1>2. wr[w].need \subseteq Stripes /\ wr[w].need # {} /\ Stripes \subseteq Nat
  <2>1. Stripes \subseteq Nat
    BY DEF Stripes
  <2>. QED
    BY <1>1, <2>1 DEF LocksOK, WriteType
<1>3. s \in wr[w].need
  BY <1>2, MinNat
<1>4. /\ held[s] = Nobody /\ held' = [held EXCEPT ![s] = w]
      /\ wr' = [wr EXCEPT ![w].need = @ \ {s}, ![w].pc = pc]
      /\ UNCHANGED <<slots, rd, val, writes, reads>>
  BY <1>1 DEF Lock
<1>. HIDE DEF s
<1>5. /\ wr'[w] = [wr[w] EXCEPT !.need = @ \ {s}, !.pc = pc]
      /\ \A v \in Writers \ {w} : wr'[v] = wr[v]
  BY <1>4, <1>1 DEF Types
<1>6. /\ wr'[w].pc = pc /\ wr'[w].need = wr[w].need \ {s}
      /\ wr'[w].key = wr[w].key /\ wr'[w].op = wr[w].op
      /\ wr'[w].pba = wr[w].pba /\ wr'[w].old = wr[w].old
      /\ wr'[w] \in WriteType
  <2>1. pc \in {"lock", "decide"} /\ wr[w].need \ {s} \in SUBSET Stripes
    BY <1>2
  <2>. HIDE DEF pc
  <2>. QED
    BY <1>5, <1>1, <2>1, Zenon DEF WriteType
<1>7. Types'
  BY <1>1, <1>2, <1>3, <1>4, <1>6 DEF Types
<1>8. held'[s] = w /\ \A t \in Stripes \ {s} : held'[t] = held[t]
  BY <1>2, <1>3, <1>4, <1>1 DEF Types
<1>9. LocksOK(w)'
  <2>1. lock_for(BucketOf[wr[w].key]) \subseteq Stripes /\ wr[w].key \in Keys
    BY <1>1, LocksCover, UsersAssumption, SMTT(30) DEF LocksOK
  <2>2. ASSUME NEW t \in lock_for(BucketOf[wr[w].key]), t \notin wr[w].need \ {s}
        PROVE  held'[t] = w
    BY <1>1, <1>8, <2>1, <2>2, SMTT(30) DEF LocksOK
  <2>3. wr[w].need # {s} => wr[w].need \ {s} # {}
    BY <1>3
  <2>. QED
    BY <1>1, <1>6, <2>1, <2>2, <2>3, SMTT(30) DEF LocksOK
<1>10. WriterOK(w)'
  BY <1>6, SMTT(30) DEF WriterOK
<1>11. \A v \in Writers \ {w}, t \in Stripes : held[t] = v => held'[t] = v
  BY <1>4, <1>8, UsersAssumption
<1>. QED
  BY <1>1, <1>4, <1>5, <1>7, <1>9, <1>10, <1>11, QuietStep, Zenon

\* Entries of a key that is not in the table: none.
LEMMA AbsentNoCopy ==
    ASSUME IInv, NEW k \in Keys, val[k] = Absent, NEW i \in SlotIdx
    PROVE  ~Copy(k, i)
BY EntryFacts, SMTT(30) DEF IInv, Copy

\* A write finds its key's entry if there is one.
LEMMA OwnIsCopy ==
    ASSUME IInv, NEW k \in Keys
    PROVE  /\ Own(k) = {i \in SlotIdx : Copy(k, i)}
           /\ Own(k) \subseteq Neighbourhood(BucketOf[k]) /\ Own(k) \subseteq Nat
           /\ Own(k) = {} <=> val[k] = Absent
<1>1. BucketOf[k] \in Buckets
  BY UsersAssumption
<1>2. Neighbourhood(BucketOf[k]) \subseteq SlotIdx /\ SlotIdx \subseteq Nat
  <2>1. Neighbourhood(BucketOf[k]) \subseteq SlotIdx
    BY <1>1, SpanOK
  <2>. QED
    BY <2>1, Indices
<1>3. ASSUME NEW i \in SlotIdx
      PROVE  Copy(k, i) <=> /\ i \in Neighbourhood(BucketOf[k])
                            /\ Matches(slots, BucketOf[k], TagOf[k], i)
                            /\ slots[i].pba[1] = k
  BY EntryFacts DEF IInv, Copy, Matches
<1>4. Own(k) = {i \in SlotIdx : Copy(k, i)}
  BY <1>2, <1>3 DEF Own
<1>5. Own(k) = {} <=> val[k] = Absent
  BY <1>4, AbsentNoCopy DEF IInv, HasCopy
<1>. QED
  BY <1>2, <1>4, <1>5, SMTT(30) DEF Own

\* A change of a writer's record.
LEMMA Changed ==
    ASSUME Types, NEW w \in Writers, NEW x \in WriteType, wr' = [wr EXCEPT ![w] = x]
    PROVE  /\ wr' \in [Writers -> WriteType] /\ wr'[w] = x
           /\ \A v \in Writers \ {w} : wr'[v] = wr[v]
BY DEF Types

LEMMA DecideInv ==
    ASSUME IInv, NEW w \in Writers, Decide(w)
    PROVE  IInv'
<1>. DEFINE k == wr[w].key
<1>1. /\ Types /\ wr[w].pc = "decide" /\ LocksOK(w) /\ wr[w] \in WriteType /\ k \in Keys
      /\ UNCHANGED <<slots, rd, val, writes, reads>>
  BY DEF Decide, IInv, Types, LocksOK
<1>2. CASE wr[w].op = "put" /\ Own(k) = {}
           /\ wr' = [wr EXCEPT ![w].pc = "search"] /\ UNCHANGED held
  <2>. DEFINE x == [wr[w] EXCEPT !.pc = "search"]
  <2>1. x \in WriteType /\ wr' = [wr EXCEPT ![w] = x]
    BY <1>1, <1>2, SMTT(30) DEF Types, WriteType
  <2>2. /\ x.pc = "search" /\ x.key = k /\ x.op = "put" /\ x.pba = wr[w].pba
        /\ x.old = wr[w].old
    BY <1>1, <1>2 DEF WriteType
  <2>. HIDE DEF x
  <2>3. /\ wr' \in [Writers -> WriteType] /\ wr'[w] = x
        /\ \A v \in Writers \ {w} : wr'[v] = wr[v]
    BY <1>1, <2>1, Changed, Zenon
  <2>4. Types'
    BY <1>1, <1>2, <2>3 DEF Types
  <2>5. val[k] = Absent
    BY <1>1, <1>2, OwnIsCopy
  <2>6. LocksOK(w)' /\ WriterOK(w)'
    BY <1>1, <1>2, <2>2, <2>3, <2>5 DEF LocksOK, WriterOK
  <2>. QED
    BY <1>1, <1>2, <2>3, <2>4, <2>6, QuietStep
<1>3. CASE Own(k) # {} /\ UNCHANGED held
           /\ wr' = [wr EXCEPT ![w].pc = "store", ![w].free = Min(Own(k)),
                               ![w].old = slots[Min(Own(k))].pba]
  <2>. DEFINE i == Min(Own(k))
              x == [wr[w] EXCEPT !.pc = "store", !.free = i, !.old = slots[i].pba]
  <2>1. i \in SlotIdx /\ Copy(k, i) /\ i \in Neighbourhood(BucketOf[k])
    BY <1>1, <1>3, OwnIsCopy, MinNat
  <2>2. i \in 0..total_slots /\ slots[i].pba \in PbaOrNone /\ slots[i].pba # kUnusedPba
        /\ slots[i].pba[1] = k
    <3>1. slots[i] \in EntryType /\ i \in 0..total_slots
      BY <1>1, <2>1, Indices, Zenon DEF Types
    <3>. HIDE DEF i
    <3>. QED
      BY <2>1, <3>1 DEF EntryType, Copy, IsEmpty
  <2>. HIDE DEF i
  <2>3. x \in WriteType /\ wr' = [wr EXCEPT ![w] = x]
    <3>1. wr' = [wr EXCEPT ![w].pc = "store", ![w].free = i, ![w].old = slots[i].pba]
      BY <1>3 DEF i
    <3>. QED
      BY <1>1, <2>2, <3>1, Zenon DEF Types, WriteType
  <2>4. /\ x.pc = "store" /\ x.key = k /\ x.op = wr[w].op /\ x.pba = wr[w].pba
        /\ x.old = slots[i].pba /\ x.free = i
    BY <1>1 DEF WriteType
  <2>. HIDE DEF x
  <2>5. /\ wr' \in [Writers -> WriteType] /\ wr'[w] = x
        /\ \A v \in Writers \ {w} : wr'[v] = wr[v]
    BY <1>1, <2>3, Changed, Zenon
  <2>6. Types'
    BY <1>1, <1>3, <2>5 DEF Types
  <2>7. LocksOK(w)' /\ WriterOK(w)'
    BY <1>1, <1>3, <2>1, <2>2, <2>4, <2>5, Zenon DEF LocksOK, WriterOK
  <2>. QED
    BY <1>1, <1>3, <2>5, <2>6, <2>7, QuietStep
<1>4. CASE Unlock(w)
  BY <1>1, <1>4, GiveUpInv
<1>. QED
  BY <1>2, <1>3, <1>4 DEF Decide

LEMMA SearchInv ==
    ASSUME IInv, NEW w \in Writers, Search(w)
    PROVE  IInv'
<1>. DEFINE b == BucketOf[wr[w].key]
            free == find_free_slot(slots, b)
<1>1. /\ Types /\ wr[w].pc = "search" /\ LocksOK(w) /\ WriterOK(w) /\ wr[w] \in WriteType
      /\ wr[w].key \in Keys /\ b \in Buckets
      /\ UNCHANGED <<slots, rd, val, writes, reads>>
  BY UsersAssumption DEF Search, IInv, Types, LocksOK
<1>2. CASE free >= total_slots
  BY <1>1, <1>2, GiveUpInv DEF Search
<1>3. CASE ~(free >= total_slots)
  <2>. DEFINE S == {i \in Span(b) : IsEmpty(slots[i])}
  <2>1. free = First(S)
    BY DEF find_free_slot, Span
  <2>2. S # {} /\ free = Min(S)
    BY <1>3, <2>1, Sizes, SMTT(30) DEF First
  <2>0. Span(b) \subseteq SlotIdx /\ SlotIdx \subseteq 0..total_slots
    BY <1>1, SpanOK, Sizes, SMTT(30)
  <2>3. S \subseteq Nat
    BY <2>0, Sizes
  <2>4. free \in Span(b) /\ IsEmpty(slots[free])
    BY <2>2, <2>3, MinNat, SMTT(30)
  <2>5. free \in 0..total_slots
    BY <2>0, <2>4, Zenon
  <2>6. wr' = [wr EXCEPT ![w].free = free, ![w].pc = "reach"] /\ UNCHANGED held
    BY <1>3 DEF Search
  <2>. HIDE DEF free
  <2>. DEFINE x == [wr[w] EXCEPT !.free = free, !.pc = "reach"]
  <2>7. x \in WriteType /\ wr' = [wr EXCEPT ![w] = x]
    BY <1>1, <2>5, <2>6 DEF Types, WriteType
  <2>8. /\ x.pc = "reach" /\ x.key = wr[w].key /\ x.op = wr[w].op /\ x.pba = wr[w].pba
        /\ x.old = wr[w].old /\ x.free = free
    BY <1>1 DEF WriteType
  <2>. HIDE DEF x
  <2>9. /\ wr' \in [Writers -> WriteType] /\ wr'[w] = x
        /\ \A v \in Writers \ {w} : wr'[v] = wr[v]
    BY <1>1, <2>7, Changed, Zenon
  <2>10. Types'
    BY <1>1, <2>6, <2>9 DEF Types
  <2>11. LocksOK(w)' /\ WriterOK(w)'
    BY <1>1, <2>4, <2>6, <2>8, <2>9, SMTT(30) DEF LocksOK, WriterOK
  <2>. QED
    BY <1>1, <2>6, <2>9, <2>10, <2>11, QuietStep
<1>. QED
  BY <1>2, <1>3

LEMMA InReachInv ==
    ASSUME IInv, NEW w \in Writers, InReach(w)
    PROVE  IInv'
<1>. DEFINE b == BucketOf[wr[w].key]
            x == [wr[w] EXCEPT !.pc = "store"]
<1>1. /\ Types /\ wr[w].pc = "reach" /\ LocksOK(w) /\ WriterOK(w) /\ wr[w] \in WriteType
      /\ wr[w].key \in Keys /\ b \in Buckets /\ wr[w].free < b + kHopRange
      /\ wr' = [wr EXCEPT ![w].pc = "store"]
      /\ UNCHANGED <<slots, held, rd, val, writes, reads>>
  BY UsersAssumption DEF InReach, IInv, Types, LocksOK
<1>2. x \in WriteType /\ wr' = [wr EXCEPT ![w] = x]
  BY <1>1 DEF Types, WriteType
<1>3. /\ x.pc = "store" /\ x.key = wr[w].key /\ x.op = wr[w].op /\ x.pba = wr[w].pba
      /\ x.old = wr[w].old /\ x.free = wr[w].free
  BY <1>1 DEF WriteType
<1>. HIDE DEF x
<1>4. /\ wr' \in [Writers -> WriteType] /\ wr'[w] = x
      /\ \A v \in Writers \ {w} : wr'[v] = wr[v]
  BY <1>1, <1>2, Changed, Zenon
<1>5. Types'
  BY <1>1, <1>4 DEF Types
<1>6. wr[w].free \in Neighbourhood(b) /\ slots[wr[w].free].pba = kUnusedPba
      /\ wr[w].old = kUnusedPba /\ wr[w].op = "put" /\ val[wr[w].key] = Absent
  <2>1. wr[w].free \in Span(b)
    BY <1>1 DEF WriterOK
  <2>2. b \in Nat /\ SearchLimit(b) \in Nat /\ kHopRange \in Nat
    BY <1>1, SpanOK, Sizes, SMTT(30)
  <2>3. wr[w].free \in Neighbourhood(b)
    BY <1>1, <2>1, <2>2 DEF Span, Neighbourhood
  <2>. QED
    BY <1>1, <2>3 DEF WriterOK, LocksOK, IsEmpty
<1>7. LocksOK(w)' /\ WriterOK(w)'
  BY <1>1, <1>3, <1>4, <1>6, SMTT(30) DEF LocksOK, WriterOK
<1>. QED
  BY <1>1, <1>4, <1>5, <1>7, QuietStep
-----------------------------------------------------------------------------
(* The steps that store a slot.                                            *)

\* What a writer with its locks does in its span is nothing to the others.
LEMMA OtherWriters ==
    ASSUME IInv, NEW w \in Writers, wr[w].pc \notin {"idle", "lock"},
           NEW j \in Span(BucketOf[wr[w].key]),
           \A i \in SlotIdx \ {j} : slots'[i] = slots[i],
           \A k \in Keys \ {wr[w].key} : val'[k] = val[k],
           \A v \in Writers \ {w} : wr'[v] = wr[v],
           \A v \in Writers \ {w}, s \in Stripes : held[s] = v => held'[s] = v
    PROVE  \A v \in Writers \ {w} : LocksOK(v)' /\ WriterOK(v)'
<1>. TAKE v \in Writers \ {w}
<1>. DEFINE b == BucketOf[wr[v].key]
<1>1. LocksOK(v) /\ WriterOK(v) /\ wr'[v] = wr[v]
  BY DEF IInv
<1>2. wr[v].pc # "idle" => wr[v].key \in Keys /\ b \in Buckets
                           /\ lock_for(b) \subseteq Stripes
  BY <1>1, LocksCover, UsersAssumption, SMTT(30) DEF LocksOK
<1>3. LocksOK(v)'
  BY <1>1, <1>2, SMTT(30) DEF LocksOK
<1>4. CASE wr[v].pc \in {"idle", "lock", "decide"}
  BY <1>1, <1>3, <1>4, Zenon DEF WriterOK
<1>5. CASE wr[v].pc \notin {"idle", "lock", "decide"}
  <2>1. j \notin Span(b) /\ Span(b) \subseteq SlotIdx /\ Neighbourhood(b) \subseteq Span(b)
    BY <1>2, <1>5, Disjoint, SpanOK, SMTT(30)
  <2>2. \A i \in Span(b) : slots'[i] = slots[i]
    BY <2>1, SMTT(30)
  <2>3. wr[v].key # wr[w].key
    <3>1. wr[w].key \in Keys /\ BucketOf[wr[w].key] \in Buckets
      BY UsersAssumption, SMTT(30) DEF IInv, LocksOK
    <3>. QED
      BY <2>1, <3>1, SMTT(30)
  <2>4. val'[wr[v].key] = val[wr[v].key]
    BY <1>2, <1>5, <2>3, SMTT(30)
  <2>5. WriterOK(v)'
    <3>1. /\ wr[v].pc \in {"reach", "clear"} => slots'[wr[v].free] = slots[wr[v].free]
          /\ wr[v].pc = "store" => slots'[wr[v].free] = slots[wr[v].free]
          /\ wr[v].pc = "clear" => slots'[wr[v].from] = slots[wr[v].from]
      BY <1>1, <2>1, <2>2, Zenon DEF WriterOK
    <3>. QED
      BY <1>1, <2>4, <3>1, ZenonT(30) DEF WriterOK
  <2>. QED
    BY <1>3, <2>5, SMTT(30)
<1>. QED
  BY <1>3, <1>4, <1>5

\* What an insert moves: an entry within the span, to a slot that is in that
\* entry's own neighbourhood.
LEMMA MoveFacts ==
    ASSUME IInv, NEW w \in Writers, wr[w].pc = "reach",
           wr[w].free >= BucketOf[wr[w].key] + kHopRange,
           NEW m, m = Min(Movable(slots, wr[w].free)), Movable(slots, wr[w].free) # {},
           NEW k, k = slots[m].pba[1]
    PROVE  /\ m \in SlotIdx /\ m \in Span(BucketOf[wr[w].key]) /\ m < wr[w].free
           /\ Copy(k, m) /\ k \in Keys /\ k # wr[w].key
           /\ wr[w].free \in Neighbourhood(BucketOf[k])
           /\ Moved(slots, m, wr[w].free)
                = Entry(wr[w].free - BucketOf[k], TagOf[k], 1, val[k])
<1>. DEFINE f == wr[w].free
            b == BucketOf[wr[w].key]
            M == Movable(slots, f)
<1>1. /\ wr[w].key \in Keys /\ b \in Buckets /\ f \in Span(b) /\ val[wr[w].key] = Absent
  BY UsersAssumption, Zenon DEF IInv, LocksOK, WriterOK
<1>2. M \subseteq Nat /\ m \in M
  <2>1. M \subseteq Nat
    BY Indices, Zenon DEF Movable
  <2>. HIDE DEF M
  <2>. QED
    BY <2>1, MinNat DEF M
<1>3. /\ m \in SlotIdx /\ m < f /\ f < m + kHopRange /\ ~IsEmpty(slots[m])
      /\ f < m - slots[m].off + kHopRange
  BY <1>2, Zenon DEF Movable
<1>4. /\ k \in Keys /\ BucketOf[k] \in Nat /\ slots[m].pba = val[k] /\ val[k] # Absent
      /\ slots[m].off = m - BucketOf[k] /\ slots[m].tag = TagOf[k] /\ slots[m].size = 1
      /\ m \in Neighbourhood(BucketOf[k])
  BY <1>3, EntryFacts, ZenonT(30) DEF IInv
<1>5. b \in Nat /\ SearchLimit(b) \in Nat /\ kHopRange \in Nat /\ m \in Nat /\ f \in Nat
  <2>1. b \in Nat /\ SearchLimit(b) \in Nat /\ Span(b) \subseteq SlotIdx
    BY <1>1, SpanOK, SMTT(30)
  <2>. QED
    BY <1>1, <1>3, <2>1, Indices, Zenon
<1>6. m \in Span(b)
  <2>1. f \in b..SearchLimit(b) - 1 /\ f >= b + kHopRange
    BY <1>1, SMTT(30) DEF Span
  <2>. HIDE DEF f, b
  <2>2. m \in b..SearchLimit(b) - 1
    BY <1>3, <1>5, <2>1
  <2>. QED
    BY <2>2 DEF Span
<1>7. f \in Neighbourhood(BucketOf[k]) /\ slots[m].off + (f - m) = f - BucketOf[k]
  <2>. DEFINE c == BucketOf[k]
  <2>0. c \in Nat /\ slots[m].off = m - c /\ m \in Neighbourhood(c)
    BY <1>4, Zenon
  <2>. HIDE DEF c, f
  <2>1. c \in Nat /\ slots[m].off = m - c /\ c <= m
    BY <1>5, <2>0, SMTT(30) DEF Neighbourhood
  <2>2. m - slots[m].off = c /\ slots[m].off + (f - m) = f - c
    BY <1>5, <2>1
  <2>3. f < c + kHopRange /\ c <= f
    BY <1>3, <1>5, <2>1, <2>2, SMTT(30)
  <2>4. f \in Neighbourhood(c)
    BY <1>5, <2>1, <2>3, SMTT(30) DEF Neighbourhood
  <2>. QED
    BY <2>2, <2>4, Zenon DEF c
<1>8. Moved(slots, m, f) = Entry(f - BucketOf[k], TagOf[k], 1, val[k])
  BY <1>4, <1>7, Zenon DEF Moved
<1>. QED
  BY <1>1, <1>3, <1>4, <1>6, <1>7, <1>8, Zenon DEF Copy

LEMMA MoveUpInv ==
    ASSUME IInv, NEW w \in Writers, MoveUp(w)
    PROVE  IInv'
<1>. DEFINE f == wr[w].free
            b == BucketOf[wr[w].key]
            m == Min(Movable(slots, f))
            k == slots[m].pba[1]
            e == Entry(f - BucketOf[k], TagOf[k], 1, val[k])
            x == [wr[w] EXCEPT !.pc = "clear", !.from = m]
<1>1. /\ Types /\ wr[w].pc = "reach" /\ LocksOK(w) /\ WriterOK(w) /\ wr[w] \in WriteType
      /\ wr[w].key \in Keys /\ b \in Buckets /\ f >= b + kHopRange
      /\ UNCHANGED <<rd, val, writes, reads>>
  BY UsersAssumption DEF MoveUp, IInv, Types, LocksOK
<1>2. CASE Movable(slots, f) = {}
  BY <1>1, <1>2, GiveUpInv DEF MoveUp
<1>3. CASE Movable(slots, f) # {}
  <2>1. /\ m \in SlotIdx /\ m \in Span(b) /\ m < f
        /\ Copy(k, m) /\ k \in Keys /\ k # wr[w].key
        /\ f \in Neighbourhood(BucketOf[k])
        /\ Moved(slots, m, f) = e
    BY <1>1, <1>3, MoveFacts, Zenon
  <2>2. /\ slots' = [slots EXCEPT ![f] = e]
        /\ wr' = [wr EXCEPT ![w].pc = "clear", ![w].from = m] /\ UNCHANGED held
    BY <1>3, <2>1, Zenon DEF MoveUp
  <2>. HIDE DEF m, k
  <2>3. f \in Span(b) /\ f \in SlotIdx /\ IsEmpty(slots[f]) /\ m # f
        /\ m \in 0..total_slots
    <3>1. f \in Span(b) /\ IsEmpty(slots[f])
      BY <1>1, Zenon DEF WriterOK
    <3>2. Span(b) \subseteq SlotIdx
      BY <1>1, SpanOK, SMTT(30)
    <3>3. f \in SlotIdx /\ m \in 0..total_slots /\ f \in Nat /\ m \in Nat
      BY <2>1, <3>1, <3>2, Indices, Zenon
    <3>4. m # f
      BY <2>1, <3>3, LessDiffers, Zenon
    <3>. QED
      BY <3>1, <3>3, <3>4, SMTT(30)
  <2>4. /\ slots[m].pba = val[k] /\ val[k] # Absent /\ val[k] \in Pbas
    BY <2>1, EntryFacts, Zenon DEF IInv, Copy, k
  <2>5. e \in EntryType /\ ~IsEmpty(e) /\ e.pba = val[k] /\ e.pba[1] = k
    <3>0. BucketOf[k] \in Nat /\ f \in Nat /\ kHopRange \in Nat
      <4>1. BucketOf[k] \in Buckets
        BY <2>1, UsersAssumption, SMTT(30)
      <4>. QED
        BY <2>3, <4>1, Sizes
    <3>1. f - BucketOf[k] \in Nat
      BY <2>1, <3>0, InNeighbourhood, Zenon
    <3>2. TagOf[k] \in Tags
      BY <2>1, SMTT(30) DEF Tags
    <3>3. val[k][1] = k
      BY <2>1, <2>4, SMTT(30) DEF Copy
    <3>. QED
      BY <2>4, <3>1, <3>2, <3>3, PbaFacts, SMTT(30) DEF EntryType, Entry, PbaOrNone, IsEmpty
  <2>. HIDE DEF e
  <2>6. x \in WriteType /\ wr' = [wr EXCEPT ![w] = x]
    BY <1>1, <2>2, <2>3, Zenon DEF Types, WriteType
  <2>7. /\ x.pc = "clear" /\ x.key = wr[w].key /\ x.op = wr[w].op /\ x.pba = wr[w].pba
        /\ x.old = wr[w].old /\ x.free = f /\ x.from = m
    BY <1>1 DEF WriteType
  <2>. HIDE DEF x
  <2>8. /\ wr' \in [Writers -> WriteType] /\ wr'[w] = x
        /\ \A v \in Writers \ {w} : wr'[v] = wr[v]
    BY <1>1, <2>6, Changed, Zenon
  <2>9. /\ slots' \in [SlotIdx -> EntryType] /\ slots'[f] = e
        /\ \A i \in SlotIdx \ {f} : slots'[i] = slots[i]
    BY <1>1, <2>2, <2>3, <2>5 DEF Types
  <2>10. Types'
    BY <1>1, <2>2, <2>8, <2>9 DEF Types
  <2>11. \A v \in Writers \ {w} : LocksOK(v)' /\ WriterOK(v)'
    BY <1>1, <2>2, <2>3, <2>8, <2>9, OtherWriters, SMTT(30)
  <2>12. LocksOK(w)' /\ WriterOK(w)'
    <3>1. LocksOK(w)'
      BY <1>1, <2>2, <2>7, <2>8 DEF LocksOK
    <3>2. slots'[m] = slots[m] /\ ~IsEmpty(slots[m]) /\ slots'[f].pba = slots'[m].pba
      BY <2>1, <2>3, <2>4, <2>5, <2>9, Zenon DEF Copy
    <3>. QED
      BY <1>1, <2>1, <2>3, <2>7, <2>8, <3>1, <3>2, Zenon DEF WriterOK
  <2>13. \A q \in Keys, i \in SlotIdx : Copy(q, i)' <=> Copy(q, i) \/ (q = k /\ i = f)
    BY <2>3, <2>5, <2>9, Zenon DEF Copy
  <2>14. InPlace'
    <3>1. SUFFICES ASSUME NEW i \in SlotIdx, ~IsEmpty(slots'[i]), NEW q, q = slots'[i].pba[1]
                   PROVE  /\ slots'[i] = Entry(i - BucketOf[q], TagOf[q], 1, val[q])
                          /\ i \in Neighbourhood(BucketOf[q])
      BY <1>1, Zenon DEF InPlace
    <3>2. CASE i = f
      BY <2>1, <2>5, <2>9, <3>1, <3>2, Zenon DEF e
    <3>3. CASE i # f
      BY <2>9, <3>1, <3>3, Zenon DEF IInv, InPlace
    <3>. QED
      BY <3>2, <3>3, SMTT(30)
  <2>15. HasCopy'
    BY <1>1, <2>13, Zenon DEF IInv, HasCopy
  <2>16. \A i \in SlotIdx : Copy(k, i) => i = m
    <3>1. SUFFICES ASSUME NEW i \in SlotIdx, Copy(k, i), i # m PROVE FALSE
      OBVIOUS
    <3>2. PICK v \in Writers : Moves(v, i, m) \/ Moves(v, m, i)
      BY <2>1, <3>1, SMTT(30) DEF IInv, OneCopy
    <3>3. v # w /\ m \in Span(BucketOf[wr[v].key]) /\ wr[v].pc = "clear"
      BY <1>1, <3>2, Zenon DEF IInv, WriterOK, Moves
    <3>. QED
      BY <1>1, <2>1, <3>3, Disjoint, SMTT(30)
  <2>17. OneCopy'
    <3>1. SUFFICES ASSUME NEW q \in Keys, NEW i \in SlotIdx, NEW j \in SlotIdx,
                          Copy(q, i)', Copy(q, j)', i # j
                   PROVE  \E v \in Writers : Moves(v, i, j)' \/ Moves(v, j, i)'
      BY DEF OneCopy
    <3>2. CASE i = f \/ j = f
      <4>1. wr'[w].pc = "clear" /\ wr'[w].from = m /\ wr'[w].free = f
        BY <2>7, <2>8
      <4>2. q = k
        BY <3>1, <3>2, <2>3, <2>13 DEF Copy
      <4>3. (i = m /\ j = f) \/ (i = f /\ j = m)
        BY <3>1, <3>2, <4>2, <2>13, <2>16
      <4>. QED
        BY <4>1, <4>3 DEF Moves
    <3>3. CASE i # f /\ j # f
      <4>1. PICK v \in Writers : Moves(v, i, j) \/ Moves(v, j, i)
        BY <3>1, <3>3, <2>13 DEF IInv, OneCopy
      <4>2. wr'[v] = wr[v]
        BY <1>1, <4>1, <2>8, SMTT(30) DEF Moves
      <4>. QED
        BY <4>1, <4>2 DEF Moves
    <3>. QED
      BY <3>2, <3>3
  <2>18. \A r \in Readers : ReaderOK(r)'
    <3>. TAKE r \in Readers
    <3>1. ReaderOK(r) /\ rd'[r] = rd[r]
      BY <1>1, SMTT(30) DEF IInv
    <3>2. rd[r].pc # "idle" /\ Ahead(r) => Ahead(r)'
      BY <1>1, <2>13, <3>1, Zenon DEF Ahead, ReaderOK
    <3>. QED
      BY <1>1, <3>1, <3>2, Zenon DEF ReaderOK
  <2>. QED
    BY <2>10, <2>11, <2>12, <2>14, <2>15, <2>17, <2>18 DEF IInv
<1>. QED
  BY <1>2, <1>3

LEMMA ClearOldInv ==
    ASSUME IInv, NEW w \in Writers, ClearOld(w)
    PROVE  IInv'
<1>. DEFINE f == wr[w].free
            m == wr[w].from
            b == BucketOf[wr[w].key]
            k == slots[m].pba[1]
            x == [wr[w] EXCEPT !.pc = "reach", !.free = m, !.from = total_slots]
<1>1. /\ Types /\ wr[w].pc = "clear" /\ LocksOK(w) /\ WriterOK(w) /\ wr[w] \in WriteType
      /\ wr[w].key \in Keys /\ b \in Buckets
      /\ slots' = [slots EXCEPT ![m] = Empty] /\ UNCHANGED <<held, rd, val, writes, reads>>
      /\ wr' = [wr EXCEPT ![w].pc = "reach", ![w].free = m, ![w].from = total_slots]
  BY UsersAssumption DEF ClearOld, IInv, Types, LocksOK
<1>2. /\ f \in Span(b) /\ m \in Span(b) /\ m < f /\ ~IsEmpty(slots[m])
      /\ slots[f].pba = slots[m].pba
  BY <1>1, SMTT(30) DEF WriterOK
<1>3. /\ f \in SlotIdx /\ m \in SlotIdx /\ m # f /\ f \in Nat /\ m \in Nat
      /\ m \in 0..total_slots /\ total_slots \in 0..total_slots
  <2>1. Span(b) \subseteq SlotIdx
    BY <1>1, SpanOK
  <2>2. f \in SlotIdx /\ m \in SlotIdx /\ f \in Nat /\ m \in Nat /\ m \in 0..total_slots
    BY <1>2, <2>1, Indices, Zenon
  <2>3. m # f
    BY <1>2, <2>2, LessDiffers, Zenon
  <2>. QED
    BY <2>2, <2>3, Indices
<1>4. Copy(k, m) /\ Copy(k, f) /\ k \in Keys
  <2>1. Copy(k, m) /\ Copy(k, f)
    BY <1>2, SMTT(30) DEF Copy, IsEmpty
  <2>. QED
    BY <1>2, <1>3, <2>1, EntryFacts, Zenon DEF IInv
<1>5. x \in WriteType /\ wr' = [wr EXCEPT ![w] = x]
  BY <1>1, <1>3 DEF Types, WriteType
<1>6. /\ x.pc = "reach" /\ x.key = wr[w].key /\ x.op = wr[w].op /\ x.pba = wr[w].pba
      /\ x.old = wr[w].old /\ x.free = m
  BY <1>1 DEF WriteType
<1>. HIDE DEF x
<1>7. /\ wr' \in [Writers -> WriteType] /\ wr'[w] = x
      /\ \A v \in Writers \ {w} : wr'[v] = wr[v]
  BY <1>1, <1>5, Changed, Zenon
<1>8. /\ slots' \in [SlotIdx -> EntryType] /\ slots'[m] = Empty
      /\ \A i \in SlotIdx \ {m} : slots'[i] = slots[i]
  BY <1>1, <1>3, EmptyIsEntry DEF Types
<1>9. Types'
  BY <1>1, <1>7, <1>8 DEF Types
<1>10. \A v \in Writers \ {w} : LocksOK(v)' /\ WriterOK(v)'
  BY <1>1, <1>2, <1>7, <1>8, OtherWriters, Zenon
<1>11. LocksOK(w)' /\ WriterOK(w)'
  <2>1. LocksOK(w)'
    BY <1>1, <1>6, <1>7 DEF LocksOK
  <2>. QED
    BY <1>1, <1>2, <1>6, <1>7, <1>8, <2>1, EmptyIsEntry, SMTT(30) DEF WriterOK
<1>. HIDE DEF m, f, k
<1>12. \A q \in Keys, i \in SlotIdx : Copy(q, i)' <=> Copy(q, i) /\ i # m
  BY <1>8, EmptyIsEntry DEF Copy
<1>13. \A q \in Keys : Copy(q, m) => Copy(q, f)
  BY <1>2, SMTT(30) DEF Copy, IsEmpty
<1>14. InPlace'
  BY <1>1, <1>8, EmptyIsEntry, SMTT(30) DEF IInv, InPlace
<1>15. HasCopy'
  <2>1. SUFFICES ASSUME NEW q \in Keys, val[q] # Absent PROVE \E i \in SlotIdx : Copy(q, i)'
    BY <1>1 DEF HasCopy
  <2>2. PICK i \in SlotIdx : Copy(q, i)
    BY <2>1 DEF IInv, HasCopy
  <2>3. (Copy(q, f) /\ f # m) \/ i # m
    BY <1>3, <1>13, <2>2
  <2>. QED
    BY <1>3, <1>12, <2>2, <2>3
<1>16. OneCopy'
  <2>1. SUFFICES ASSUME NEW q \in Keys, NEW i \in SlotIdx, NEW j \in SlotIdx,
                        Copy(q, i)', Copy(q, j)', i # j
                 PROVE  \E v \in Writers : Moves(v, i, j)' \/ Moves(v, j, i)'
    BY DEF OneCopy
  <2>2. i # m /\ j # m
    BY <1>12, <2>1
  <2>3. PICK v \in Writers : Moves(v, i, j) \/ Moves(v, j, i)
    BY <1>12, <2>1 DEF IInv, OneCopy
  <2>4. v # w /\ wr'[v] = wr[v]
    BY <1>7, <2>2, <2>3, SMTT(30) DEF Moves, m
  <2>. QED
    BY <2>3, <2>4, SMTT(30) DEF Moves
<1>17. \A r \in Readers : ReaderOK(r)'
  <2>. TAKE r \in Readers
  <2>1. ReaderOK(r) /\ rd'[r] = rd[r] /\ rd[r] \in ReadType
    BY <1>1 DEF IInv, Types
  <2>2. ASSUME rd[r].pc # "idle", Ahead(r) PROVE Ahead(r)'
    <3>1. rd[r].key \in Keys /\ BucketOf[rd[r].key] \in Nat /\ rd[r].off \in Nat
      <4>1. rd[r].key \in Keys /\ BucketOf[rd[r].key] \in Buckets
        BY <2>1, <2>2, UsersAssumption, SMTT(30) DEF ReaderOK
      <4>. QED
        BY <2>1, <4>1, Sizes, SMTT(30) DEF ReadType
    <3>2. CASE Absent \in rd[r].win
      BY <2>1, <3>2 DEF Ahead
    <3>3. CASE Absent \notin rd[r].win
      <4>1. PICK i \in SlotIdx : Copy(rd[r].key, i) /\ i >= BucketOf[rd[r].key] + rd[r].off
        BY <2>2, <3>3, SMTT(30) DEF Ahead
      <4>2. i = m => f >= BucketOf[rd[r].key] + rd[r].off
        BY <1>2, <1>3, <3>1, <4>1, SMTT(30)
      <4>3. \E j \in SlotIdx : /\ Copy(rd[r].key, j) /\ j # m
                               /\ j >= BucketOf[rd[r].key] + rd[r].off
        BY <1>3, <1>13, <3>1, <4>1, <4>2, SMTT(30)
      <4>4. PICK j \in SlotIdx : /\ Copy(rd[r].key, j) /\ j # m
                                 /\ j >= BucketOf[rd[r].key] + rd[r].off
        BY <4>3, SMTT(30)
      <4>5. Copy(rd[r].key, j)'
        BY <1>8, <2>1, <4>4, SMTT(30) DEF Copy
      <4>. QED
        BY <2>1, <4>4, <4>5, SMTT(30) DEF Ahead
    <3>. QED
      BY <3>2, <3>3
  <2>. QED
    BY <1>1, <2>1, <2>2 DEF ReaderOK
<1>. QED
  BY <1>9, <1>10, <1>11, <1>14, <1>15, <1>16, <1>17 DEF IInv

\* A writer that is about to store has the only slot of its key.
LEMMA OnlyCopy ==
    ASSUME IInv, NEW w \in Writers, wr[w].pc = "store", NEW i \in SlotIdx,
           Copy(wr[w].key, i)
    PROVE  i = wr[w].free
<1>. DEFINE k == wr[w].key
            f == wr[w].free
<1>1. LocksOK(w) /\ WriterOK(w) /\ k \in Keys /\ BucketOf[k] \in Buckets
  BY UsersAssumption, Zenon DEF IInv, LocksOK
<1>2. val[k] # Absent
  BY <1>1, AbsentNoCopy, SMTT(30)
<1>3. wr[w].old # kUnusedPba /\ f \in Neighbourhood(BucketOf[k]) /\ slots[f].pba = wr[w].old
      /\ wr[w].old[1] = k
  BY <1>1, <1>2, Zenon DEF WriterOK
<1>4. f \in Span(BucketOf[k]) /\ f \in SlotIdx /\ Copy(k, f)
  BY <1>1, <1>3, SpanOK, SMTT(30) DEF Copy, IsEmpty
<1>5. ASSUME i # f PROVE FALSE
  <2>1. PICK v \in Writers : Moves(v, i, f) \/ Moves(v, f, i)
    BY <1>1, <1>4, <1>5, SMTT(30) DEF IInv, OneCopy
  <2>2. v # w /\ f \in Span(BucketOf[wr[v].key]) /\ wr[v].pc = "clear"
    BY <2>1, Zenon DEF IInv, WriterOK, Moves
  <2>. QED
    BY <1>4, <2>2, Disjoint, SMTT(30)
<1>. QED
  BY <1>5, SMTT(30)

LEMMA StoreInv ==
    ASSUME IInv, NEW w \in Writers, Store(w)
    PROVE  IInv'
<1>. DEFINE f == wr[w].free
            k == wr[w].key
            put == wr[w].op = "put"
            new == IF put THEN wr[w].pba ELSE Absent
            e == IF put THEN Entry(f - BucketOf[k], TagOf[k], 1, wr[w].pba) ELSE Empty
<1>1. /\ Types /\ wr[w].pc = "store" /\ LocksOK(w) /\ WriterOK(w) /\ wr[w] \in WriteType
      /\ k \in Keys /\ BucketOf[k] \in Buckets /\ wr[w].pba \in Pbas /\ wr[w].pba[1] = k
      /\ Unlock(w) /\ UNCHANGED <<writes, reads>>
  BY UsersAssumption, Zenon DEF Store, IInv, Types, LocksOK
<1>2. /\ slots' = [slots EXCEPT ![f] = e] /\ val' = [val EXCEPT ![k] = new]
      /\ rd' = [r \in Readers |-> IF rd[r].key = k
                    THEN [rd[r] EXCEPT !.win = @ \cup {new}] ELSE rd[r]]
  BY DEF Store
<1>3. f \in Neighbourhood(BucketOf[k]) /\ f \in SlotIdx /\ f \in Span(BucketOf[k])
  BY <1>1, SpanOK, Zenon DEF WriterOK
<1>4. /\ e \in EntryType /\ new \in PbaOrNone
      /\ put => ~IsEmpty(e) /\ e = Entry(f - BucketOf[k], TagOf[k], 1, new)
                /\ e.pba = new /\ new[1] = k /\ new # Absent
      /\ ~put => IsEmpty(e) /\ new = Absent
  <2>0. BucketOf[k] \in Nat /\ f \in Nat /\ kHopRange \in Nat
    BY <1>1, <1>3, Indices, Zenon
  <2>1. f - BucketOf[k] \in Nat
    BY <1>3, <2>0, InNeighbourhood, Zenon
  <2>2. TagOf[k] \in Tags
    BY <1>1, Zenon DEF Tags
  <2>3. CASE put
    BY <1>1, <2>1, <2>2, <2>3, PbaFacts, Zenon DEF EntryType, Entry, PbaOrNone, IsEmpty
  <2>4. CASE ~put
    BY <2>4, EmptyIsEntry, Zenon DEF PbaOrNone
  <2>. QED
    BY <2>3, <2>4, Zenon
<1>. HIDE DEF put, new, e
<1>5. /\ held' \in [Stripes -> Writers \cup {Nobody}]
      /\ wr' \in [Writers -> WriteType] /\ wr'[w] = NoWrite
      /\ \A v \in Writers \ {w} : wr'[v] = wr[v]
      /\ \A v \in Writers \ {w}, s \in Stripes : held[s] = v => held'[s] = v
      /\ LocksOK(w)' /\ WriterOK(w)'
  BY <1>1, UnlockFacts, Zenon
<1>6. /\ slots' \in [SlotIdx -> EntryType] /\ slots'[f] = e
      /\ \A i \in SlotIdx \ {f} : slots'[i] = slots[i]
  BY <1>1, <1>2, <1>3, <1>4 DEF Types
<1>7. /\ val' \in [Keys -> PbaOrNone] /\ val'[k] = new
      /\ \A q \in Keys \ {k} : val'[q] = val[q]
  BY <1>1, <1>2, <1>4 DEF Types
<1>8. ASSUME NEW r \in Readers
      PROVE  /\ rd'[r] \in ReadType /\ rd[r] \in ReadType
             /\ rd'[r].pc = rd[r].pc /\ rd'[r].key = rd[r].key /\ rd'[r].off = rd[r].off
             /\ rd'[r].cur = rd[r].cur /\ rd'[r].res = rd[r].res
             /\ rd'[r].win = IF rd[r].key = k THEN rd[r].win \cup {new} ELSE rd[r].win
  <2>1. rd[r] \in ReadType
    BY <1>1, Zenon DEF Types
  <2>2. CASE rd[r].key = k
    <3>1. rd'[r] = [rd[r] EXCEPT !.win = rd[r].win \cup {new}]
      BY <1>2, <2>2
    <3>2. rd[r].win \cup {new} \in SUBSET PbaOrNone
      BY <1>4, <2>1, SMTT(30) DEF ReadType
    <3>. QED
      BY <2>1, <2>2, <3>1, <3>2 DEF ReadType
  <2>3. CASE rd[r].key # k
    BY <1>2, <2>1, <2>3
  <2>. QED
    BY <2>2, <2>3, Zenon
<1>9. Types'
  <2>1. rd' \in [Readers -> ReadType]
    BY <1>2, <1>8
  <2>. QED
    BY <1>1, <1>5, <1>6, <1>7, <2>1, Zenon DEF Types
<1>10. \A v \in Writers \ {w} : LocksOK(v)' /\ WriterOK(v)'
  BY <1>1, <1>3, <1>5, <1>6, <1>7, OtherWriters, Zenon
<1>. HIDE DEF f, k
<1>11. \A i \in SlotIdx : Copy(k, i) => i = f
  BY <1>1, OnlyCopy, Zenon DEF f, k
<1>12. \A q \in Keys : Copy(q, f) => q = k
  BY <1>1, Zenon DEF WriterOK, Copy, IsEmpty, f, k
<1>13. \A q \in Keys, i \in SlotIdx :
          Copy(q, i)' <=> IF q = k THEN put /\ i = f ELSE Copy(q, i)
  <2>. TAKE q \in Keys, i \in SlotIdx
  <2>1. CASE i = f
    <3>1. Copy(q, i)' <=> put /\ q = k
      BY <1>4, <1>6, <2>1 DEF Copy
    <3>. QED
      BY <1>12, <2>1, <3>1
  <2>2. CASE i # f
    <3>1. Copy(q, i)' <=> Copy(q, i)
      BY <1>6, <2>2 DEF Copy
    <3>. QED
      BY <1>11, <2>2, <3>1
  <2>. QED
    BY <2>1, <2>2
<1>14. InPlace'
  <2>1. SUFFICES ASSUME NEW i \in SlotIdx, ~IsEmpty(slots'[i]), NEW q, q = slots'[i].pba[1]
                 PROVE  /\ slots'[i] = Entry(i - BucketOf[q], TagOf[q], 1, val'[q])
                        /\ i \in Neighbourhood(BucketOf[q])
    BY SMTT(30) DEF InPlace
  <2>2. CASE i = f
    <3>1. put /\ q = k
      BY <1>4, <1>6, <2>1, <2>2
    <3>. QED
      BY <1>3, <1>4, <1>6, <1>7, <2>2, <3>1, SMTT(30)
  <2>3. CASE i # f
    <3>0. slots'[i] = slots[i]
      BY <1>6, <2>3
    <3>1. q \in Keys /\ Copy(q, i)
      BY <2>1, <3>0, EntryFacts, Zenon DEF IInv, Copy
    <3>2. q # k
      BY <1>11, <2>3, <3>1
    <3>3. val'[q] = val[q]
      BY <1>7, <3>1, <3>2
    <3>. QED
      BY <2>1, <3>0, <3>3, Zenon DEF IInv, InPlace
  <2>. QED
    BY <2>2, <2>3
<1>15. HasCopy'
  <2>1. SUFFICES ASSUME NEW q \in Keys, val'[q] # Absent PROVE \E i \in SlotIdx : Copy(q, i)'
    BY DEF HasCopy
  <2>2. CASE q = k
    BY <1>3, <1>4, <1>7, <1>13, <2>1, <2>2, SMTT(30)
  <2>3. CASE q # k
    BY <1>7, <1>13, <2>1, <2>3 DEF IInv, HasCopy
  <2>. QED
    BY <2>2, <2>3
<1>16. OneCopy'
  <2>1. SUFFICES ASSUME NEW q \in Keys, NEW i \in SlotIdx, NEW j \in SlotIdx,
                        Copy(q, i)', Copy(q, j)', i # j
                 PROVE  \E v \in Writers : Moves(v, i, j)' \/ Moves(v, j, i)'
    BY DEF OneCopy
  <2>2. Copy(q, i) /\ Copy(q, j)
    BY <1>13, <2>1
  <2>3. PICK v \in Writers : Moves(v, i, j) \/ Moves(v, j, i)
    BY <2>1, <2>2 DEF IInv, OneCopy
  <2>4. v # w /\ wr'[v] = wr[v]
    BY <1>1, <1>5, <2>3, Zenon DEF Moves
  <2>. QED
    BY <2>3, <2>4 DEF Moves
<1>17. \A r \in Readers : ReaderOK(r)'
  <2>. TAKE r \in Readers
  <2>1. ReaderOK(r)
    BY DEF IInv
  <2>2. rd[r].pc # "idle" => rd[r].key \in Keys /\ val'[rd'[r].key] \in rd'[r].win
    BY <1>7, <1>8, <2>1, Zenon DEF ReaderOK
  <2>3. ASSUME rd[r].pc # "idle", Ahead(r) PROVE Ahead(r)'
    <3>1. CASE Absent \in rd'[r].win
      BY <3>1 DEF Ahead
    <3>2. CASE Absent \notin rd'[r].win
      <4>1. PICK i \in SlotIdx : Copy(rd[r].key, i) /\ i >= BucketOf[rd[r].key] + rd[r].off
        BY <1>8, <2>3, <3>2, Zenon DEF Ahead
      <4>2. rd[r].key = k => put /\ i = f
        BY <1>4, <1>8, <1>11, <3>2, <4>1, Zenon
      <4>3. Copy(rd[r].key, i)'
        <5>1. \E q \in Keys : q = rd[r].key
          BY <2>2, <2>3
        <5>2. PICK q \in Keys : q = rd[r].key
          BY <5>1
        <5>3. Copy(q, i)'
          BY <1>13, <4>1, <4>2, <5>2
        <5>. QED
          BY <1>8, <5>2, <5>3, Zenon DEF Copy
      <4>. QED
        BY <1>8, <4>1, <4>3, Zenon DEF Ahead
    <3>. QED
      BY <3>1, <3>2
  <2>. QED
    BY <1>8, <2>1, <2>2, <2>3, Zenon DEF ReaderOK
<1>. QED
  BY <1>5, <1>9, <1>10, <1>14, <1>15, <1>16, <1>17, Zenon DEF IInv
-----------------------------------------------------------------------------
(* The readers' steps, and every step.                                     *)

LEMMA OneCopyKept ==
    ASSUME OneCopy, UNCHANGED <<slots, wr>>
    PROVE  OneCopy'
<1>. SUFFICES ASSUME NEW k \in Keys, NEW i \in SlotIdx, NEW j \in SlotIdx,
                     Copy(k, i), Copy(k, j), i # j
              PROVE  \E v \in Writers : Moves(v, i, j)' \/ Moves(v, j, i)'
  BY Zenon DEF OneCopy, Copy
<1>1. PICK v \in Writers : Moves(v, i, j) \/ Moves(v, j, i)
  BY Zenon DEF OneCopy
<1>. QED
  BY <1>1, SMTT(30) DEF Moves

\* A reader's step keeps the invariant if it keeps what the reader knows.
LEMMA ReadStep ==
    ASSUME IInv, NEW r \in Readers, NEW x \in ReadType, rd' = [rd EXCEPT ![r] = x],
           reads' \in 0..MaxReads, UNCHANGED <<slots, held, wr, val, writes>>,
           ReaderOK(r)'
    PROVE  IInv'
<1>1. Types' /\ \A s \in Readers \ {r} : rd'[s] = rd[s]
  BY DEF IInv, Types
<1>2. ASSUME NEW s \in Readers, s # r PROVE ReaderOK(s)'
  <2>1. ReaderOK(s) /\ rd'[s] = rd[s]
    BY <1>1, <1>2 DEF IInv
  <2>2. Ahead(s) => Ahead(s)'
    BY <2>1, SMTT(30) DEF Ahead, Copy
  <2>. QED
    BY <2>1, <2>2, Zenon DEF ReaderOK
<1>3. ASSUME NEW w \in Writers PROVE LocksOK(w)' /\ WriterOK(w)'
  <2>1. LocksOK(w) /\ WriterOK(w)
    BY DEF IInv
  <2>2. LocksOK(w)'
    BY <2>1, Zenon DEF LocksOK
  <2>3. WriterOK(w)'
    BY <2>1, Zenon DEF WriterOK
  <2>. QED
    BY <2>2, <2>3
<1>4. InPlace' /\ HasCopy' /\ OneCopy'
  <2>1. InPlace'
    BY Zenon DEF IInv, InPlace
  <2>2. HasCopy'
    BY Zenon DEF IInv, HasCopy, Copy
  <2>3. OneCopy'
    BY OneCopyKept, Zenon DEF IInv
  <2>. QED
    BY <2>1, <2>2, <2>3
<1>. QED
  BY <1>1, <1>2, <1>3, <1>4 DEF IInv

\* Where a reader's key may have an entry, and what it can be.
LEMMA ReadFacts ==
    ASSUME IInv, NEW k \in Keys
    PROVE  /\ BucketOf[k] \in Nat /\ kHopRange \in Nat
           /\ \A i \in SlotIdx : Copy(k, i) =>
                 /\ i \in Nat /\ i >= BucketOf[k] /\ i < BucketOf[k] + kHopRange
                 /\ Matches(slots, BucketOf[k], TagOf[k], i)
                 /\ slots[i].pba = val[k] /\ val[k] # Absent
<1>1. BucketOf[k] \in Nat /\ kHopRange \in Nat /\ SlotIdx \subseteq Nat
  BY UsersAssumption, Sizes
<1>2. ASSUME NEW i \in SlotIdx, Copy(k, i)
      PROVE  /\ i \in Neighbourhood(BucketOf[k])
             /\ Matches(slots, BucketOf[k], TagOf[k], i)
             /\ slots[i].pba = val[k] /\ val[k] # Absent
  BY <1>2, EntryFacts, Zenon DEF IInv, Copy, Matches
<1>3. ASSUME NEW i \in SlotIdx, Copy(k, i)
      PROVE  i \in Nat /\ i >= BucketOf[k] /\ i < BucketOf[k] + kHopRange
  <2>1. i \in Neighbourhood(BucketOf[k]) /\ i \in Nat
    BY <1>1, <1>2, <1>3, Zenon
  <2>. QED
    BY <1>1, <2>1, InNeighbourhood, Zenon
<1>. QED
  BY <1>1, <1>2, <1>3, Zenon

LEMMA NoReadIsRead == NoRead \in ReadType /\ NoRead.pc = "idle" /\ NoRead.off = 0
                      /\ NoRead.res = Absent
<1>1. 0 \in 0..kHopRange
  BY Indices
<1>2. {} \in SUBSET PbaOrNone /\ Absent \in PbaOrNone /\ kUnusedPba \in PbaOrNone
  BY DEF PbaOrNone, Absent
<1>. QED
  BY <1>1, <1>2, SMTT(30) DEF NoRead, ReadType

LEMMA StartReadInv ==
    ASSUME IInv, NEW r \in Readers, StartRead(r)
    PROVE  IInv'
<1>1. PICK k \in Keys : rd' = [rd EXCEPT ![r] =
          [NoRead EXCEPT !.pc = "scan", !.key = k, !.win = {val[k]}]]
  BY LookupsAssumption, Zenon DEF StartRead
<1>. DEFINE x == [NoRead EXCEPT !.pc = "scan", !.key = k, !.win = {val[k]}]
<1>2. NoRead \in ReadType /\ NoRead.off = 0 /\ NoRead.res = Absent
  BY NoReadIsRead, Zenon
<1>3. x \in ReadType
  <2>1. {val[k]} \in SUBSET PbaOrNone
    BY DEF IInv, Types
  <2>. QED
    BY <1>2, <2>1, Zenon DEF ReadType
<1>4. reads' \in 0..MaxReads /\ UNCHANGED <<slots, held, wr, val, writes>>
  BY UsersAssumption DEF StartRead, IInv, Types
<1>5. /\ rd'[r] = x /\ x.pc = "scan" /\ x.key = k /\ x.off = 0 /\ x.res = Absent
      /\ x.win = {val[k]}
  BY <1>1, <1>2 DEF IInv, Types, ReadType
<1>. HIDE DEF x
<1>6. Ahead(r)'
  <2>1. CASE val[k] = Absent
    BY <1>5, <2>1 DEF Ahead
  <2>2. CASE val[k] # Absent
    <3>1. PICK i \in SlotIdx : Copy(k, i)
      BY <2>2 DEF IInv, HasCopy
    <3>2. i >= BucketOf[k] /\ BucketOf[k] \in Nat
      BY <3>1, ReadFacts, Zenon
    <3>3. i >= BucketOf[k] + 0
      BY <3>2
    <3>. QED
      BY <1>4, <1>5, <3>1, <3>3, SMTT(30) DEF Ahead, Copy
  <2>. QED
    BY <2>1, <2>2
<1>7. ReaderOK(r)'
  BY <1>4, <1>5, <1>6, SMTT(30) DEF ReaderOK
<1>. QED
  BY <1>1, <1>3, <1>4, <1>7, ReadStep, Zenon DEF x

\* The slot a lookup loads is a slot of the table; an entry of its key is found
\* there, and one it has still ahead is not passed over.
LEMMA LoadInv ==
    ASSUME IInv, NEW r \in Readers, Load(r)
    PROVE  IInv'
<1>. DEFINE k == rd[r].key
            i == BucketOf[k] + rd[r].off
            hit == Matches(slots, BucketOf[k], TagOf[k], i)
            pc == IF hit THEN "verify" ELSE "scan"
            x == [rd[r] EXCEPT !.off = rd[r].off + 1, !.cur = slots[i].pba, !.pc = pc]
<1>1. /\ rd \in [Readers -> ReadType] /\ rd[r] \in ReadType /\ reads \in 0..MaxReads
      /\ slots \in [SlotIdx -> EntryType]
      /\ rd[r].pc = "scan" /\ rd[r].off < kHopRange /\ ReaderOK(r) /\ k \in Keys
      /\ UNCHANGED <<slots, held, wr, val, writes, reads>>
  BY SMTT(30) DEF Load, IInv, Types, ReaderOK
<1>2. rd[r].off \in Nat /\ BucketOf[k] \in Buckets /\ BucketOf[k] \in Nat
  BY <1>1, UsersAssumption, Sizes, SMTT(30) DEF ReadType
<1>3. i \in SlotIdx /\ i \in Nat /\ rd[r].off + 1 \in 0..kHopRange
  <2>1. i \in Neighbourhood(BucketOf[k])
    BY <1>1, <1>2, Sizes, SMTT(30) DEF Neighbourhood
  <2>2. i \in SlotIdx
    BY <1>2, <2>1, SpanOK, SMTT(30)
  <2>3. rd[r].off + 1 \in 0..kHopRange
    BY <1>1, <1>2, Indices, SMTT(30)
  <2>. QED
    BY <2>2, <2>3, Indices, Zenon
<1>4. slots[i].pba \in PbaOrNone /\ pc \in {"verify", "scan"}
  BY <1>1, <1>3, Zenon DEF EntryType
<1>5. rd' = [rd EXCEPT ![r] = x]
  BY <1>1, Zenon DEF Load
<1>. HIDE DEF pc, i, k, hit
<1>6. x \in ReadType
  BY <1>1, <1>3, <1>4, Zenon DEF ReadType
<1>7. /\ rd'[r] = x /\ x.pc = pc /\ x.key = k /\ x.off = rd[r].off + 1
      /\ x.cur = slots[i].pba /\ x.res = rd[r].res /\ x.win = rd[r].win
  BY <1>1, <1>5 DEF ReadType, k
<1>. HIDE DEF x
<1>8. Copy(k, i) => hit /\ slots[i].pba[1] = k /\ slots[i].pba = val[k]
  BY <1>1, <1>3, ReadFacts, SMTT(30) DEF Copy, hit
<1>9. ~Copy(k, i) => Ahead(r)'
  <2>1. SUFFICES ASSUME ~Copy(k, i), Absent \notin rd[r].win PROVE Ahead(r)'
    BY <1>7, SMTT(30) DEF Ahead
  <2>2. PICK j \in SlotIdx : Copy(k, j) /\ j >= BucketOf[k] + rd[r].off
    BY <1>1, <2>1, SMTT(30) DEF Ahead, ReaderOK, k
  <2>3. j # i /\ j \in Nat
    BY <2>1, <2>2, Sizes, SMTT(30)
  <2>4. j >= BucketOf[k] + (rd[r].off + 1)
    BY <1>2, <2>2, <2>3, SMTT(30) DEF i
  <2>5. j >= BucketOf[rd'[r].key] + rd'[r].off
    BY <1>7, <2>4, SMTT(30)
  <2>6. Copy(rd[r].key, j)'
    BY <1>1, <1>7, <2>2, SMTT(30) DEF Copy, k
  <2>. QED
    BY <1>7, <2>5, <2>6, Zenon DEF Ahead, Copy
<1>10. hit /\ slots[i].pba[1] = k => Copy(k, i)
  BY DEF hit, Matches, Copy
<1>11. rd[r].res = Absent /\ val[k] \in rd[r].win
  BY <1>1, Zenon DEF ReaderOK, k
<1>12. ReaderOK(r)'
  BY <1>1, <1>7, <1>8, <1>9, <1>10, <1>11, Zenon DEF ReaderOK, pc
<1>. QED
  BY <1>1, <1>5, <1>6, <1>12, ReadStep, Zenon

LEMMA VerifyKeyInv ==
    ASSUME IInv, NEW r \in Readers, VerifyKey(r)
    PROVE  IInv'
<1>1. /\ rd \in [Readers -> ReadType] /\ rd[r] \in ReadType /\ reads \in 0..MaxReads
      /\ rd[r].pc = "verify" /\ ReaderOK(r)
      /\ UNCHANGED <<slots, held, wr, val, writes, reads>>
  BY DEF VerifyKey, IInv, Types
<1>2. CASE rd[r].cur[1] = rd[r].key
  <2>. DEFINE x == [rd[r] EXCEPT !.pc = "done", !.res = rd[r].cur]
  <2>1. rd' = [rd EXCEPT ![r] = x]
    BY <1>1, <1>2 DEF VerifyKey
  <2>2. x \in ReadType
    BY <1>1, Zenon DEF ReadType
  <2>3. /\ rd'[r] = x /\ x.pc = "done" /\ x.key = rd[r].key /\ x.res = rd[r].cur
        /\ x.win = rd[r].win
    BY <1>1, <2>1 DEF ReadType
  <2>. HIDE DEF x
  <2>4. ReaderOK(r)'
    BY <1>1, <1>2, <2>3, Zenon DEF ReaderOK
  <2>. QED
    BY <1>1, <2>1, <2>2, <2>4, ReadStep, Zenon
<1>3. CASE rd[r].cur[1] # rd[r].key
  <2>. DEFINE x == [rd[r] EXCEPT !.pc = "scan"]
  <2>1. rd' = [rd EXCEPT ![r] = x]
    BY <1>1, <1>3 DEF VerifyKey
  <2>2. x \in ReadType
    BY <1>1 DEF ReadType
  <2>3. /\ rd'[r] = x /\ x.pc = "scan" /\ x.key = rd[r].key /\ x.res = rd[r].res
        /\ x.win = rd[r].win /\ x.off = rd[r].off
    BY <1>1, <2>1 DEF ReadType
  <2>. HIDE DEF x
  <2>4. Ahead(r)'
    BY <1>1, <1>3, <2>3, Zenon DEF ReaderOK, Ahead, Copy
  <2>5. ReaderOK(r)'
    BY <1>1, <2>3, <2>4, Zenon DEF ReaderOK
  <2>. QED
    BY <1>1, <2>1, <2>2, <2>5, ReadStep, Zenon
<1>. QED
  BY <1>2, <1>3

\* Behind the last slot of the neighbourhood no entry is ahead.
LEMMA NotFoundInv ==
    ASSUME IInv, NEW r \in Readers, NotFound(r)
    PROVE  IInv'
<1>. DEFINE x == [rd[r] EXCEPT !.pc = "done"]
<1>1. /\ rd \in [Readers -> ReadType] /\ rd[r] \in ReadType /\ reads \in 0..MaxReads
      /\ rd[r].pc = "scan" /\ rd[r].off = kHopRange /\ ReaderOK(r) /\ rd[r].key \in Keys
      /\ rd' = [rd EXCEPT ![r].pc = "done"]
      /\ UNCHANGED <<slots, held, wr, val, writes, reads>>
  BY DEF NotFound, IInv, Types, ReaderOK
<1>2. rd' = [rd EXCEPT ![r] = x] /\ x \in ReadType
  BY <1>1 DEF ReadType
<1>3. /\ rd'[r] = x /\ x.pc = "done" /\ x.key = rd[r].key /\ x.res = rd[r].res
      /\ x.win = rd[r].win
  BY <1>1, <1>2 DEF ReadType
<1>. HIDE DEF x
<1>4. Absent \in rd[r].win
  <2>1. SUFFICES ASSUME Absent \notin rd[r].win PROVE FALSE
    OBVIOUS
  <2>2. PICK i \in SlotIdx : /\ Copy(rd[r].key, i)
                             /\ i >= BucketOf[rd[r].key] + rd[r].off
    BY <1>1, <2>1 DEF ReaderOK, Ahead
  <2>3. /\ i \in Nat /\ i < BucketOf[rd[r].key] + kHopRange
        /\ BucketOf[rd[r].key] \in Nat /\ kHopRange \in Nat
    BY <1>1, <2>2, ReadFacts
  <2>. QED
    BY <1>1, <2>2, <2>3
<1>5. ReaderOK(r)'
  BY <1>1, <1>3, <1>4 DEF ReaderOK
<1>. QED
  BY <1>1, <1>2, <1>5, ReadStep, Zenon

LEMMA EndReadInv ==
    ASSUME IInv, NEW r \in Readers, EndRead(r)
    PROVE  IInv'
<1>1. NoRead \in ReadType /\ NoRead.pc = "idle"
  BY NoReadIsRead, Zenon
<1>2. rd' = [rd EXCEPT ![r] = NoRead] /\ reads' \in 0..MaxReads
      /\ UNCHANGED <<slots, held, wr, val, writes>>
  BY DEF EndRead, IInv, Types
<1>3. rd'[r] = NoRead
  BY <1>2 DEF IInv, Types
<1>4. ReaderOK(r)'
  BY <1>1, <1>3, SMTT(30) DEF ReaderOK
<1>. QED
  BY <1>1, <1>2, <1>4, ReadStep, Zenon

LEMMA NextInv == IInv /\ [Next]_vars => IInv'
<1>. SUFFICES ASSUME IInv, [Next]_vars PROVE IInv'
  OBVIOUS
<1>1. ASSUME NEW w \in Writers, StartWrite(w) \/ Write(w) PROVE IInv'
  BY <1>1, StartWriteInv, LockInv, DecideInv, SearchInv, InReachInv, MoveUpInv,
     ClearOldInv, StoreInv DEF Write
<1>2. ASSUME NEW r \in Readers,
             StartRead(r) \/ Load(r) \/ VerifyKey(r) \/ NotFound(r) \/ EndRead(r)
      PROVE  IInv'
  BY <1>2, StartReadInv, LoadInv, VerifyKeyInv, NotFoundInv, EndReadInv
<1>3. CASE UNCHANGED vars
  <2>0. UNCHANGED <<slots, held, wr, rd, val, writes, reads>>
    BY <1>3 DEF vars
  <2>1. Types'
    BY <2>0 DEF IInv, Types
  <2>2. InPlace'
    BY <2>0, Zenon DEF IInv, InPlace
  <2>3. HasCopy' /\ OneCopy'
    BY <2>0, OneCopyKept, Zenon DEF IInv, HasCopy, Copy
  <2>4. \A w \in Writers : LocksOK(w)'
    BY <2>0, Zenon DEF IInv, LocksOK
  <2>5. \A w \in Writers : WriterOK(w)'
    BY <2>0, Zenon DEF IInv, WriterOK
  <2>6. \A r \in Readers : ReaderOK(r)'
    BY <2>0, Zenon DEF IInv, ReaderOK, Ahead, Copy
  <2>. QED
    BY <2>1, <2>2, <2>3, <2>4, <2>5, <2>6 DEF IInv
<1>. QED
  BY <1>1, <1>2, <1>3 DEF Next
-----------------------------------------------------------------------------
(* The theorems.                                                           *)

\* The inductive invariant holds of every behaviour of the table.
THEOREM Invariant == Spec => []IInv
<1>1. Init => IInv
  BY InitInv
<1>2. IInv /\ [Next]_vars => IInv'
  BY NextInv
<1>. QED
  BY <1>1, <1>2, PTL DEF Spec

\* Every variable keeps its type, and every entry stays in the neighbourhood of
\* its bucket, whatever inserts move.
THEOREM TypeCorrect == Spec => []TypeOK
<1>1. IInv => TypeOK
  <2>1. SUFFICES ASSUME IInv PROVE TypeOK
    OBVIOUS
  <2>2. ASSUME NEW i \in SlotIdx, ~IsEmpty(slots[i])
        PROVE  /\ slots[i].off \in 0..kHopRange - 1 /\ slots[i].off <= i
               /\ slots[i].size = 1 /\ slots[i].pba \in Pbas
    <3>. DEFINE c == BucketOf[slots[i].pba[1]]
    <3>1. /\ c \in Nat /\ slots[i].off = i - c /\ i \in Neighbourhood(c)
          /\ slots[i].size = 1 /\ slots[i].pba \in Pbas
      BY <2>1, <2>2, EntryFacts, Zenon DEF IInv
    <3>. HIDE DEF c
    <3>2. i \in Nat /\ kHopRange \in Nat
      BY Sizes
    <3>. QED
      BY <3>1, <3>2 DEF Neighbourhood
  <2>3. \A w \in Writers : wr[w] \in WriteType
    BY <2>1 DEF IInv, Types
  <2>4. \A r \in Readers : rd[r] \in ReadType
    BY <2>1 DEF IInv, Types
  <2>. QED
    BY <2>1, <2>2, <2>3, <2>4, Zenon DEF TypeOK, IInv, Types, WriteType, ReadType, PbaOrNone
<1>. QED
  BY <1>1, Invariant, PTL

\* The stripe locks protect the slot an insert or a move is about to fill, and
\* the one a move is about to clear, from every other writer.
THEOREM LocksProtect == Spec => []StripesProtect
<1>1. IInv => StripesProtect
  BY Zenon DEF IInv, WriterOK, StripesProtect
<1>. QED
  BY <1>1, Invariant, PTL

\* Each key's record is in exactly one slot of its neighbourhood, but for the
\* slot a displacement is about to clear.
THEOREM OneEntryPerKey == Spec => []EntriesExact
<1>1. ASSUME IInv PROVE EntriesExact
  <2>. SUFFICES ASSUME NEW k \in Keys
                PROVE
          LET copies == {i \in SlotIdx : ~IsEmpty(slots[i]) /\ slots[i].pba[1] = k}
              moving == {i \in copies : \E w \in Writers :
                           wr[w].pc = "clear" /\ wr[w].from = i}
          IN  /\ \A i \in copies : /\ Matches(slots, BucketOf[k], TagOf[k], i)
                                   /\ slots[i].pba = val[k]
              /\ Cardinality(copies \ moving) = IF val[k] = Absent THEN 0 ELSE 1
    BY Zenon DEF EntriesExact
  <2>. DEFINE copies == {i \in SlotIdx : ~IsEmpty(slots[i]) /\ slots[i].pba[1] = k}
              moving == {i \in copies : \E w \in Writers :
                           wr[w].pc = "clear" /\ wr[w].from = i}
  <2>1. \A i : i \in copies <=> i \in SlotIdx /\ Copy(k, i)
    BY DEF Copy
  <2>2. \A i \in copies : /\ Matches(slots, BucketOf[k], TagOf[k], i)
                          /\ slots[i].pba = val[k]
    BY <1>1, <2>1, ReadFacts, Zenon
  <2>3. CASE val[k] = Absent
    <3>1. copies \ moving = {}
      BY <1>1, <2>1, <2>3, AbsentNoCopy, SMTT(30)
    <3>. QED
      BY <2>2, <2>3, <3>1, FS_EmptySet, Zenon
  <2>4. CASE val[k] # Absent
    <3>1. PICK i \in copies : TRUE
      BY <1>1, <2>1, <2>4, SMTT(30) DEF IInv, HasCopy
    <3>2. \E j \in copies : j \notin moving
      <4>1. CASE i \notin moving
        BY <4>1, SMTT(30)
      <4>2. CASE i \in moving
        <5>1. PICK w \in Writers : wr[w].pc = "clear" /\ wr[w].from = i
          BY <4>2, SMTT(30)
        <5>. DEFINE j == wr[w].free
        <5>2. /\ j \in Span(BucketOf[wr[w].key]) /\ i < j /\ slots[j].pba = slots[i].pba
              /\ BucketOf[wr[w].key] \in Buckets
          BY <1>1, <5>1, UsersAssumption, Zenon DEF IInv, WriterOK, LocksOK
        <5>3. j \in copies
          <6>1. j \in SlotIdx
            BY <5>2, SpanOK, SMTT(30)
          <6>2. Copy(k, j)
            BY <2>1, <3>1, <5>2, SMTT(30) DEF Copy, IsEmpty
          <6>. QED
            BY <2>1, <6>1, <6>2, SMTT(30)
        <5>4. ASSUME NEW v \in Writers, wr[v].pc = "clear", wr[v].from = j PROVE FALSE
          <6>1. j \in Span(BucketOf[wr[v].key])
            BY <1>1, <5>4, Zenon DEF IInv, WriterOK
          <6>2. v = w
            BY <1>1, <5>1, <5>2, <5>4, <6>1, Disjoint, Zenon
          <6>3. i \in Nat /\ j \in Nat
            BY <2>1, <3>1, <5>3, Sizes, SMTT(30)
          <6>. QED
            BY <5>1, <5>2, <5>4, <6>2, <6>3, SMTT(30)
        <5>. QED
          BY <5>3, <5>4, SMTT(30)
      <4>. QED
        BY <4>1, <4>2, SMTT(30)
    <3>3. PICK j \in copies : j \notin moving
      BY <3>2, Zenon
    <3>4. ASSUME NEW a \in copies, a \notin moving PROVE a = j
      <4>1. SUFFICES ASSUME a # j PROVE FALSE
        OBVIOUS
      <4>2. PICK w \in Writers : Moves(w, a, j) \/ Moves(w, j, a)
        BY <1>1, <2>1, <3>3, <4>1, Zenon DEF IInv, OneCopy
      <4>. QED
        BY <3>3, <3>4, <4>2, Zenon DEF Moves
    <3>5. copies \ moving = {j}
      BY <3>3, <3>4, SMTT(30)
    <3>6. Cardinality({j}) = 1
      BY FS_Singleton, Zenon
    <3>. QED
      BY <2>2, <2>4, <3>5, <3>6, Zenon
  <2>. QED
    BY <2>3, <2>4, Zenon
<1>. QED
  BY <1>1, Invariant, PTL

\* A lookup that takes no lock returns a record its key had while it ran, and
\* finds nothing only if the key had no entry at some moment while it ran.
THEOREM LookupsLinearizable == Spec => []LookupLinearizable
<1>1. IInv => LookupLinearizable
  BY SMTT(30) DEF IInv, ReaderOK, LookupLinearizable
<1>. QED
  BY <1>1, Invariant, PTL
=============================================================================
