-------------------------- MODULE DirectoryProofs ---------------------------
(***************************************************************************)
(* Proofs about Directory for every number of tables, buckets, keys and    *)
(* clients: its type invariant, and that the copy of grow() never fails.   *)
(* First what the operations on a table keep, then the inductive           *)
(* invariant, the steps of the clients and those of the space waker.       *)
(***************************************************************************)
EXTENDS Directory, FiniteSetTheorems, WellFoundedInduction, TLAPS

-----------------------------------------------------------------------------
(* Minima, and the tables of a snapshot.                                   *)

\* A nonempty set of naturals has a least element, which is what Min chooses.
LEMMA MinNat ==
    ASSUME NEW S \in SUBSET Nat, S # {}
    PROVE  Min(S) \in S /\ \A y \in S : Min(S) <= y
<1>. DEFINE R == {ss \in Nat \X Nat : ss[1] < ss[2]}
<1>1. IsWellFoundedOn(R, Nat)
  BY NatLessThanWellFounded DEF OpToRel
<1>. HIDE DEF R
<1>2. PICK x \in S : \A y \in S : ~ (<<y, x>> \in R)
  BY <1>1, WFMin, Zenon
<1>3. \A y \in S : x <= y
  <2>. SUFFICES ASSUME NEW y \in S, y < x
                PROVE  FALSE
    OBVIOUS
  <2>1. <<y, x>> \in R
    BY DEF R
  <2>. QED
    BY <2>1, <1>2
<1>. QED
  BY <1>3, Zenon DEF Min

\* First() is the least slot of the set, or total_slots for the empty set.
LEMMA FirstSlot ==
    ASSUME NEW S \in SUBSET Nat
    PROVE  /\ S = {} => First(S) = total_slots
           /\ S # {} => First(S) \in S
           /\ \A y \in S : First(S) <= y
BY MinNat, Zenon DEF First

\* The larger of two numbers is one of them: grow_request_ stays a generation.
LEMMA MaxOfTwo ==
    ASSUME NEW m \in Int, NEW n \in Int
    PROVE  Max({m, n}) \in {m, n}
<1>1. \E x \in {m, n} : \A y \in {m, n} : x >= y
  OBVIOUS
<1>. QED
  BY <1>1 DEF Max

\* A directory has finitely many tables.
LEMMA TablesFinite ==
    ASSUME NEW n \in Int
    PROVE  /\ IsFiniteSet([1..n -> {0, 1}])
           /\ Cardinality([1..n -> {0, 1}]) \in Nat
<1>. DEFINE F == [1..n -> {0, 1}]
            ones == [f \in F |-> {i \in 1..n : f[i] = 1}]
            I == SUBSET (1..n)
<1>1. IsFiniteSet(I)
  <2>1. IsFiniteSet(1..n)
    BY FS_Interval
  <2>. QED
    BY <2>1, FS_SUBSET
<1>2. ones \in Injection(F, I)
  <2>1. ones \in [F -> I]
    OBVIOUS
  <2>2. ASSUME NEW f \in F, NEW g \in F, ones[f] = ones[g]
        PROVE  f = g
    <3>1. ASSUME NEW i \in 1..n PROVE f[i] = g[i]
      <4>1. i \in ones[f] <=> i \in ones[g]
        BY <2>2
      <4>2. f[i] \in {0, 1} /\ g[i] \in {0, 1}
        OBVIOUS
      <4>. QED
        BY <4>1, <4>2
    <3>. QED
      BY <3>1
  <2>. QED
    BY <2>1, <2>2, Zenon DEF Injection, IsInjective
<1>3. IsFiniteSet(F)
  BY <1>1, <1>2, FS_Injection DEF ExistsInjection
<1>. QED
  BY <1>3, FS_CardinalityType

\* The search for a free slot reaches past the neighbourhood.
LEMMA SearchReach == kSearchEnd \in Nat /\ kHopRange <= kSearchEnd
<1>1. kHopRange * (kMaxDisplace + 1) = kHopRange * kMaxDisplace + kHopRange
  BY HashTableAssumption
<1>2. kHopRange * kMaxDisplace \in Nat
  BY HashTableAssumption
<1>. QED
  BY <1>1, <1>2, HashTableAssumption DEF kSearchEnd
-----------------------------------------------------------------------------
(* What the operations do to a well-formed table.                          *)

\* Storing an entry in its neighbourhood, or clearing a slot, leaves a table
\* well formed.
LEMMA StoreSlot ==
    ASSUME NEW g, NEW p, NEW t, TableOK(t, g, p), NEW i, NEW e, SlotOK(e, i, g, p)
    PROVE  TableOK([t EXCEPT ![i] = e], g, p)
BY DEF TableOK

LEMMA ClearSlot ==
    ASSUME NEW g, NEW p, NEW i
    PROVE  SlotOK(Empty, i, g, p)
BY DEF SlotOK, Empty, Entry, IsEmpty

\* A cleared table is well formed and empty.
LEMMA ClearTableOK ==
    ASSUME NEW g, NEW p
    PROVE  /\ TableOK(ClearTable, g, p)
           /\ \A i \in SlotIdx : IsEmpty(ClearTable[i])
BY DEF TableOK, SlotOK, ClearTable, Empty, Entry, IsEmpty

\* update_locked() keeps the offset of the entry it finds.
LEMMA UpdateOK ==
    ASSUME NEW g, NEW p, NEW t, TableOK(t, g, p),
           NEW b \in Buckets, NEW tag \in Tags, table_index(tag, g) = p,
           NEW old, NEW size, NEW pba
    PROVE  TableOK(update_locked(t, b, tag, old, size, pba), g, p)
<1>. DEFINE S == {i \in Neighbourhood(b) : Matches(t, b, tag, i) /\ t[i].pba = old}
            j == First(S)
<1>1. S \in SUBSET Nat
  BY HashTableAssumption DEF Neighbourhood, Buckets
<1>2. j \in S \/ j \notin SlotIdx
  BY <1>1, FirstSlot, HashTableAssumption DEF SlotIdx, total_slots
<1>3. update_locked(t, b, tag, old, size, pba)
        = [t EXCEPT ![j] = Entry(t[j].off, tag, size, pba)]
  BY DEF update_locked, find_pba
<1>. HIDE DEF j
<1>4. CASE j \notin SlotIdx
  BY <1>3, <1>4 DEF TableOK
<1>5. CASE j \in SlotIdx /\ j \in S
  <2>1. ~IsEmpty(t[j]) /\ SlotOK(t[j], j, g, p)
    BY <1>5 DEF TableOK, Matches
  <2>2. SlotOK(Entry(t[j].off, tag, size, pba), j, g, p)
    BY <2>1 DEF SlotOK, Entry
  <2>3. TableOK([t EXCEPT ![j] = Entry(t[j].off, tag, size, pba)], g, p)
    BY <2>2, StoreSlot
  <2>. QED
    BY <2>3, <1>3
<1>. QED
  BY <1>2, <1>4, <1>5

LEMMA RemoveOK ==
    ASSUME NEW g, NEW p, NEW t, TableOK(t, g, p), NEW b, NEW tag, NEW pba
    PROVE  TableOK(remove_locked(t, b, tag, pba), g, p)
BY ClearSlot, StoreSlot DEF remove_locked

\* A displacement moves an entry up within its neighbourhood, and the free slot
\* down, but not below the bucket that asks for it.
LEMMA MoveOK ==
    ASSUME NEW g, NEW p, NEW t, TableOK(t, g, p), NEW free \in SlotIdx,
           Movable(t, free) # {}
    PROVE  LET i == Min(Movable(t, free))
           IN  /\ i \in SlotIdx /\ free < i + kHopRange
               /\ TableOK([t EXCEPT ![free] = Moved(t, i, free), ![i] = Empty],
                          g, p)
<1>. DEFINE i == Min(Movable(t, free))
<1>1. i \in Movable(t, free)
  <2>1. Movable(t, free) \in SUBSET Nat
    BY DEF Movable, SlotIdx
  <2>. QED
    BY <2>1, MinNat
<1>. HIDE DEF i
<1>2. /\ i \in SlotIdx /\ i < free /\ free < i + kHopRange
      /\ ~IsEmpty(t[i]) /\ free < i - t[i].off + kHopRange
  BY <1>1 DEF Movable
<1>3. SlotOK(t[i], i, g, p)
  BY <1>2 DEF TableOK
<1>4. SlotOK(Moved(t, i, free), free, g, p)
  BY <1>2, <1>3, HashTableAssumption
     DEF SlotOK, Moved, Entry, IsEmpty, SlotIdx, total_slots
<1>5. TableOK([t EXCEPT ![free] = Moved(t, i, free)], g, p)
  BY <1>4, StoreSlot
<1>6. TableOK([t EXCEPT ![free] = Moved(t, i, free), ![i] = Empty], g, p)
  BY <1>5, StoreSlot, ClearSlot, Zenon
<1>. QED
  BY <1>2, <1>6 DEF i

\* A free slot is found at or above the bucket, inside the table.
LEMMA FreeSlot ==
    ASSUME NEW t, NEW b \in Buckets
    PROVE  LET f == find_free_slot(t, b)
           IN  /\ f = total_slots \/ (f \in SlotIdx /\ b <= f)
               /\ \A i \in SlotIdx : b <= i /\ i < b + kSearchEnd /\ IsEmpty(t[i])
                                       => f <= i
<1>. DEFINE S == {i \in b..SearchLimit(b) - 1 : IsEmpty(t[i])}
<1>1. SearchLimit(b) \in Nat /\ SearchLimit(b) <= total_slots
  BY SearchReach, HashTableAssumption DEF SearchLimit, total_slots, Buckets
<1>2. S \in SUBSET Nat /\ find_free_slot(t, b) = First(S)
  BY <1>1 DEF find_free_slot, Buckets
<1>3. \A i \in SlotIdx : b <= i /\ i < b + kSearchEnd /\ IsEmpty(t[i]) => i \in S
  BY SearchReach, HashTableAssumption
     DEF SearchLimit, SlotIdx, Buckets, total_slots
<1>4. \A i \in S : i \in SlotIdx /\ b <= i
  BY <1>1, HashTableAssumption DEF SlotIdx, Buckets, total_slots
<1>. HIDE DEF S
<1>5. /\ S = {} => First(S) = total_slots
      /\ S # {} => First(S) \in S
      /\ \A y \in S : First(S) <= y
  BY <1>2, FirstSlot
<1>. QED
  BY <1>2, <1>3, <1>4, <1>5, Zenon

\* The heart of the copy: an entry of slot s of the old table goes to a table
\* that has nothing at s or above, so it finds a free slot at s or below, in its
\* neighbourhood, without a displacement.
LEMMA CopyInsert ==
    ASSUME NEW g, NEW p, NEW t, TableOK(t, g, p), NEW s \in SlotIdx,
           \A i \in SlotIdx : s <= i => IsEmpty(t[i]),
           NEW e, ~IsEmpty(e), SlotOK(e, s, g, p)
    PROVE  LET r == insert_locked(t, s - e.off, e.tag, e.size, e.pba)
           IN  /\ r.ok = TRUE
               /\ TableOK(r.t, g, p)
               /\ \A i \in SlotIdx : s + 1 <= i => IsEmpty(r.t[i])
<1>. DEFINE b == s - e.off
            f == find_free_slot(t, b)
            n == Entry(f - b, e.tag, e.size, e.pba)
<1>1. /\ b \in Buckets /\ e.off \in Nat /\ e.off < kHopRange /\ b <= s
      /\ s < b + kHopRange
  BY HashTableAssumption DEF SlotOK, Buckets, SlotIdx, total_slots
<1>2. f \in SlotIdx /\ b <= f /\ f <= s
  <2>1. s < b + kSearchEnd /\ IsEmpty(t[s])
    BY <1>1, SearchReach, HashTableAssumption DEF Buckets, SlotIdx
  <2>. QED
    BY <2>1, <1>1, FreeSlot, HashTableAssumption DEF SlotIdx, total_slots, Buckets
<1>. HIDE DEF f, b
<1>3. f < total_slots /\ f < b + kHopRange
  BY <1>1, <1>2, HashTableAssumption DEF SlotIdx, total_slots, Buckets
<1>4. insert_locked(t, b, e.tag, e.size, e.pba)
        = [ok |-> TRUE, t |-> [t EXCEPT ![f] = n]]
  BY <1>1, <1>2, <1>3, HashTableAssumption
     DEF insert_locked, f, SlotIdx, total_slots, Buckets
<1>5. SlotOK(n, f, g, p)
  <2>1. f - b \in Nat /\ f - b < kHopRange /\ f - b <= f /\ f - (f - b) < num_buckets
    BY <1>1, <1>2, <1>3, HashTableAssumption DEF SlotIdx, Buckets
  <2>2. n.off = f - b /\ n.tag = e.tag
    BY DEF Entry
  <2>3. e.tag \in Tags /\ table_index(e.tag, g) = p
    BY DEF SlotOK
  <2>. QED
    BY <2>1, <2>2, <2>3, SMTT(30) DEF SlotOK
<1>. HIDE DEF n
<1>6. TableOK([t EXCEPT ![f] = n], g, p)
  BY <1>5, StoreSlot
<1>7. \A i \in SlotIdx : s + 1 <= i => IsEmpty([t EXCEPT ![f] = n][i])
  BY <1>2 DEF TableOK, SlotIdx
<1>. DEFINE u == [t EXCEPT ![f] = n]
            r == insert_locked(t, s - e.off, e.tag, e.size, e.pba)
<1>8. r = [ok |-> TRUE, t |-> u]
  BY <1>4 DEF b
<1>9. TableOK(u, g, p) /\ \A i \in SlotIdx : s + 1 <= i => IsEmpty(u[i])
  BY <1>6, <1>7
<1>. HIDE DEF u, r
<1>10. r.ok = TRUE
  BY <1>8, Zenon
<1>11. r.t = u
  BY <1>8, Zenon
<1>12. TableOK(r.t, g, p) /\ \A i \in SlotIdx : s + 1 <= i => IsEmpty(r.t[i])
  BY <1>9, <1>11
<1>. QED
  BY <1>10, <1>12 DEF r

\* A tag's table after a grow is one of the two its table before it is split
\* into.
LEMMA SplitTable ==
    ASSUME NEW g \in Gens, NEW tag \in Tags, g + 1 \in Gens
    PROVE  /\ table_index(tag, g + 1) \in Tables(g + 1)
           /\ table_index(tag, g) = table_index(table_index(tag, g + 1), g)
BY DirectoryAssumption DEF Gens, Tags, Tables, table_index, table_bits
-----------------------------------------------------------------------------
(* The inductive invariant.                                                *)

\* Every table that exists is well formed.
SnapOK ==
    /\ DOMAIN snap = Gens
    /\ \A g \in Gens :
          /\ DOMAIN snap[g] = {"tables", "frozen", "freed"}
          /\ snap[g].frozen \in BOOLEAN /\ snap[g].freed \in BOOLEAN
          /\ \A p \in DOMAIN snap[g].tables :
                p \in Tables(g) /\ TableOK(snap[g].tables[p], g, p)

\* The current snapshot has all its tables, and only older ones are deleted.
CurOK ==
    /\ current_ \in Gens
    /\ DOMAIN snap[current_].tables = Tables(current_)
    /\ DOMAIN grace = Gens
    /\ \A g \in Gens : grace[g] # {} => g < current_

\* Who may be where: only the GC thread waits on grown_cv_, and it never inserts
\* or queues for the space waker.
RoleOK(c, r) ==
    /\ c \in Getters => r.pc \in {"idle", "get", "scan", "verify", "done"}
    /\ c = GcThread => r.op \in {"none", "move", "drop"} /\ r.pc \notin {"reach", "queue"}
    /\ r.pc \in {"cv", "sleep", "asleep"} => c = GcThread

\* A client uses a snapshot that was published, one of 0..n, and its free slot is at or above
\* the home bucket of its key.
ClientOK(c, r, n) ==
    /\ DOMAIN r = {"pc", "key", "op", "sec", "snap", "pba", "start", "cur",
                   "free", "grow", "win", "res"}
    /\ r.pc \in {"idle", "load", "lock", "check", "write", "reach", "queue", "wait",
                 "cv", "sleep", "asleep", "get", "scan", "verify", "done"}
    /\ r.sec \in BOOLEAN
    /\ r.snap \in 0..n
    /\ r.free \in SlotIdx
    /\ r.grow \in Gens \cup {None}
    /\ r.pc # "idle" => r.key \in Keys
    /\ r.pc = "reach" => HomeOf[r.key] <= r.free
    /\ RoleOK(c, r)

ClientsOK ==
    /\ DOMAIN cl = Clients
    /\ \A c \in Clients : ClientOK(c, cl[c], current_)

\* The scalar variables.
ScalarsOK ==
    /\ waiters \subseteq Writers
    /\ request \in Gens \cup {None}
    /\ segs \in Nat /\ data \in Nat /\ spare \in Nat
    /\ grown_mu_ \in {Nobody, GcThread}

\* The waker's record.  A grow under way has a next generation to make.
WakerOK ==
    /\ DOMAIN waker = {"pc", "gen", "rc", "built", "waits", "todo", "table",
                       "slot", "fits"}
    /\ waker.pc \in {"idle", "tick", "begin", "tables", "sync", "table", "copy",
                     "notify", "after"}
    /\ waker.gen \in Gens \cup {None}
    /\ waker.built \in Nat
    /\ waker.slot \in 0..total_slots
    /\ waker.pc \in {"tables", "sync", "table", "copy"} => current_ + 1 \in Gens
    /\ waker.pc \in {"table", "copy"} => waker.todo \subseteq Tables(current_)
    /\ waker.pc = "copy" => waker.table \in Tables(current_) \ waker.todo

\* The new table p may not hold anything at slot i yet: its old table is still to
\* be copied, or is being copied and i has not been passed.
Untouched(p, i) ==
    \/ waker.pc = "sync"
    \/ table_index(p, current_) \in waker.todo
    \/ /\ waker.pc = "copy"
       /\ table_index(p, current_) = waker.table
       /\ waker.slot <= i

\* The snapshot being filled has all its tables, empty where untouched.
CopyOK ==
    Copying =>
        /\ DOMAIN snap[current_ + 1].tables = Tables(current_ + 1)
        /\ \A p \in Tables(current_ + 1), i \in SlotIdx :
              Untouched(p, i) => IsEmpty(snap[current_ + 1].tables[p][i])

GrowInv == /\ SnapOK /\ CurOK /\ ClientsOK /\ ScalarsOK /\ WakerOK /\ CopyOK
           /\ waker.fits = TRUE

\* The operations queued for the space waker are the ones that wait.
WaitOK == \A c \in waiters : cl[c].pc = "wait"

IInv == GrowInv /\ WaitOK

\* The bits of a table index, without the rest of the assumption.
LEMMA BitsNat == kMaxTableBits \in Nat /\ InitBits \in 0..kMaxTableBits
BY DirectoryAssumption

\* A directory that is not at its largest has a next generation.
LEMMA NextGen ==
    ASSUME NEW g \in Gens, ~(table_bits(g) >= kMaxTableBits)
    PROVE  g + 1 \in Gens
BY BitsNat DEF Gens, table_bits

\* Every offset fits, and the copy starts at a slot.
LEMMA SlotsNat ==
    /\ total_slots \in Nat /\ 0 \in 0..total_slots
    /\ \A i \in Nat : i < total_slots =>
          i \in SlotIdx /\ i + 1 \in 0..total_slots
BY HashTableAssumption DEF total_slots, SlotIdx

\* The published generations are generations.
LEMMA CurFacts ==
    ASSUME GrowInv
    PROVE  /\ current_ \in Gens /\ current_ \in Nat
           /\ \A g \in 0..current_ : g \in Gens
<1>1. current_ \in Gens
  BY DEF GrowInv, CurOK
<1>. QED
  BY <1>1, BitsNat DEF Gens

\* What the invariant says of one client.
LEMMA ClientFacts ==
    ASSUME GrowInv, NEW c \in Clients
    PROVE  /\ ClientsOK /\ ClientOK(c, cl[c], current_) /\ current_ \in Nat
           /\ cl[c].snap \in Gens
<1>1. ClientsOK
  BY DEF GrowInv
<1>2. ClientOK(c, cl[c], current_)
  BY <1>1 DEF ClientsOK
<1>3. cl[c].snap \in 0..current_
  BY <1>2 DEF ClientOK
<1>. QED
  BY <1>1, <1>2, <1>3, CurFacts

\* An idle client is well formed.
LEMMA IdleOK ==
    ASSUME NEW c, NEW n \in Nat
    PROVE  ClientOK(c, NoClient, n)
<1>1. NoClient.sec \in BOOLEAN
  BY Zenon DEF NoClient
<1>2. 0 \in SlotIdx
  BY HashTableAssumption DEF SlotIdx, total_slots
<1>3. DOMAIN NoClient = {"pc", "key", "op", "sec", "snap", "pba", "start", "cur",
                         "free", "grow", "win", "res"}
  BY DEF NoClient
<1>4. /\ NoClient.pc = "idle" /\ NoClient.op = "none"
      /\ NoClient.snap = 0 /\ NoClient.free = 0 /\ NoClient.grow = None
  BY DEF NoClient
<1>. QED
  BY <1>1, <1>2, <1>3, <1>4 DEF ClientOK, RoleOK

\* The initial state satisfies the inductive invariant.
LEMMA InitInv == Init => IInv
<1>. SUFFICES ASSUME Init PROVE IInv
  OBVIOUS
<1>. USE HashTableAssumption, DirectoryAssumption DEF Init
<1>1. 0 \in Gens /\ None \in Nat /\ SlotIdx = 0..num_buckets + kHopRange - 1
  BY DEF Gens, None, SlotIdx, total_slots
<1>2. SnapOK
  BY <1>1 DEF SnapOK, NoSnap
<1>3. CurOK
  BY <1>1 DEF CurOK, NoSnap
<1>4. ClientsOK
  BY IdleOK DEF ClientsOK
<1>5. ScalarsOK
  BY <1>1 DEF ScalarsOK
<1>6. WakerOK /\ CopyOK
  BY <1>1, SMTT(30) DEF WakerOK, CopyOK, Copying, NoGrow, total_slots
<1>7. waker.fits = TRUE
  BY Zenon DEF NoGrow
<1>. QED
  BY <1>2, <1>3, <1>4, <1>5, <1>6, <1>7 DEF IInv, GrowInv, WaitOK

-----------------------------------------------------------------------------
(* What the kinds of steps preserve.                                       *)

\* A step that replaces one client's record.
LEMMA ClientStep ==
    ASSUME ClientsOK, NEW c \in Clients, NEW r, ClientOK(c, r, current_),
           cl' = [cl EXCEPT ![c] = r], current_' = current_
    PROVE  ClientsOK'
BY DEF ClientsOK

\* A client's step outside the tables and outside grow().
LEMMA QuietStep ==
    ASSUME GrowInv, UNCHANGED <<dirVars, growVars>>, ClientsOK', ScalarsOK'
    PROVE  GrowInv'
<1>1. SnapOK' /\ CurOK' /\ WakerOK'
  BY SMTT(30) DEF GrowInv, SnapOK, CurOK, WakerOK, dirVars, growVars
<1>2. CopyOK'
  BY SMTT(30) DEF GrowInv, CopyOK, Copying, Untouched, dirVars, growVars
<1>3. waker'.fits = TRUE
  BY Zenon DEF GrowInv, growVars
<1>. QED
  BY <1>1, <1>2, <1>3 DEF GrowInv

\* The end of a read section only shrinks what others wait for.
LEMMA LeaveFrame ==
    ASSUME GrowInv, NEW S, Leave(S), current_' = current_
    PROVE  /\ WakerOK' /\ waker'.fits = TRUE
           /\ \A g \in Gens : grace'[g] # {} => g < current_'
           /\ DOMAIN grace' = Gens
           /\ waker'.pc = waker.pc /\ waker'.todo = waker.todo
           /\ waker'.table = waker.table /\ waker'.slot = waker.slot
<1>1. waker' = [waker EXCEPT !.waits = @ \ S]
  BY DEF Leave
<1>2. DOMAIN waker = {"pc", "gen", "rc", "built", "waits", "todo", "table",
                      "slot", "fits"}
  BY DEF GrowInv, WakerOK
<1>3. waker'.fits = TRUE
  <2>1. waker'.fits = waker.fits
    BY <1>1, <1>2
  <2>. QED
    BY <2>1, Zenon DEF GrowInv
<1>4. /\ waker'.pc = waker.pc /\ waker'.todo = waker.todo
      /\ waker'.table = waker.table /\ waker'.slot = waker.slot
      /\ waker'.gen = waker.gen /\ waker'.built = waker.built
      /\ DOMAIN waker' = DOMAIN waker
  BY <1>1, <1>2
<1>5. WakerOK'
  BY <1>4 DEF GrowInv, WakerOK
<1>6. DOMAIN grace' = Gens /\ \A g \in Gens : grace'[g] # {} => g < current_'
  BY DEF GrowInv, CurOK, Leave
<1>. QED
  BY <1>3, <1>4, <1>5, <1>6

\* A client's step that ends its read section and leaves the tables alone.
LEMMA LeaveStep ==
    ASSUME GrowInv, NEW S, Leave(S), UNCHANGED <<snap, current_>>,
           ClientsOK', ScalarsOK'
    PROVE  GrowInv'
<1>1. SnapOK'
  BY DEF GrowInv, SnapOK
<1>2. CurOK'
  BY LeaveFrame, Zenon DEF GrowInv, CurOK
<1>3. CopyOK'
  BY LeaveFrame, Zenon DEF GrowInv, CopyOK, Copying, Untouched
<1>. QED
  BY <1>1, <1>2, <1>3, LeaveFrame, Zenon DEF GrowInv

\* A client's step that replaces a table of the snapshot it holds.
LEMMA WriteFrame ==
    ASSUME SnapOK, CurOK, CopyOK, NEW g \in 0..current_, NEW p, NEW t,
           p \in DOMAIN snap[g].tables => TableOK(t, g, p),
           snap' = [snap EXCEPT ![g].tables[p] = t], current_' = current_,
           waker'.pc = waker.pc, waker'.todo = waker.todo,
           waker'.table = waker.table, waker'.slot = waker.slot
    PROVE  /\ SnapOK' /\ CopyOK'
           /\ DOMAIN snap'[current_'].tables = Tables(current_')
<1>1. g \in Gens /\ g # current_ + 1 /\ current_ \in Gens
  BY BitsNat DEF CurOK, Gens
<1>2. /\ DOMAIN snap' = Gens
      /\ \A h \in Gens : h # g => snap'[h] = snap[h]
      /\ snap'[g] = [snap[g] EXCEPT !.tables = [snap[g].tables EXCEPT ![p] = t]]
  BY <1>1 DEF SnapOK
<1>3. /\ DOMAIN snap'[g] = {"tables", "frozen", "freed"}
      /\ snap'[g].tables = [snap[g].tables EXCEPT ![p] = t]
      /\ snap'[g].frozen = snap[g].frozen /\ snap'[g].freed = snap[g].freed
  BY <1>1, <1>2 DEF SnapOK
<1>4. SnapOK'
  <2>1. ASSUME NEW h \in Gens, h # g
        PROVE  /\ DOMAIN snap'[h] = {"tables", "frozen", "freed"}
               /\ snap'[h].frozen \in BOOLEAN /\ snap'[h].freed \in BOOLEAN
               /\ \A q \in DOMAIN snap'[h].tables :
                     q \in Tables(h) /\ TableOK(snap'[h].tables[q], h, q)
    BY <1>2, <2>1 DEF SnapOK
  <2>2. \A q \in DOMAIN snap'[g].tables :
           q \in Tables(g) /\ TableOK(snap'[g].tables[q], g, q)
    BY <1>1, <1>3 DEF SnapOK
  <2>3. snap'[g].frozen \in BOOLEAN /\ snap'[g].freed \in BOOLEAN
    BY <1>1, <1>3 DEF SnapOK
  <2>. QED
    BY <1>2, <1>3, <2>1, <2>2, <2>3 DEF SnapOK
<1>5. CopyOK'
  <2>1. snap'[current_ + 1] = snap[current_ + 1]
    BY <1>1, <1>2 DEF SnapOK
  <2>. QED
    BY <2>1, Zenon DEF CopyOK, Copying, Untouched
<1>6. DOMAIN snap'[current_'].tables = Tables(current_')
  BY <1>1, <1>2, <1>3 DEF CurOK
<1>. QED
  BY <1>4, <1>5, <1>6
-----------------------------------------------------------------------------
(* The steps of the clients.                                               *)

\* What an operation begins with.
LEMMA StartOK ==
    ASSUME NEW c \in Clients, NEW n \in Nat, NEW k \in Keys, NEW r,
           r.pc \in {"load", "get"}, r.key = k, r.sec \in BOOLEAN,
           r.snap = 0, r.free = 0, r.grow = None, DOMAIN r = DOMAIN NoClient,
           c \in Getters => r.pc = "get",
           c = GcThread => r.op \in {"move", "drop"}
    PROVE  ClientOK(c, r, n)
<1>1. 0 \in SlotIdx
  BY HashTableAssumption DEF SlotIdx, total_slots
<1>. QED
  BY <1>1 DEF ClientOK, RoleOK, NoClient

LEMMA StartSteps ==
    ASSUME GrowInv, NEW c \in Clients, StartWrite(c) \/ StartGc(c) \/ StartGet(c)
    PROVE  GrowInv'
<1>. DEFINE w(k, op) == [NoClient EXCEPT !.pc = "load", !.key = k, !.op = op,
                            !.sec = TRUE, !.pba = <<k, ops.write + 1>>]
            m(k, op) == [NoClient EXCEPT !.pc = "load", !.key = k, !.op = op,
                            !.sec = TRUE, !.pba = <<k, MaxWrites + ops.gc + 1>>]
            a(k) == [NoClient EXCEPT !.pc = "get", !.key = k, !.op = "get",
                            !.sec = TRUE, !.win = {Answer(val[k])}]
<1>1. current_ \in Nat
  BY CurFacts
<1>2. ScalarsOK' /\ UNCHANGED <<dirVars, growVars>>
  BY Zenon DEF GrowInv, ScalarsOK, StartWrite, StartGc, StartGet, growVars
<1>3. CASE StartWrite(c)
  <2>1. PICK k \in Keys, op \in {"put", "del"} : cl' = [cl EXCEPT ![c] = w(k, op)]
    BY <1>3, Zenon DEF StartWrite
  <2>2. c \notin Getters /\ c # GcThread
    BY <1>3, DirectoryAssumption, Zenon DEF StartWrite
  <2>3. /\ w(k, op).pc = "load" /\ w(k, op).key = k /\ w(k, op).op = op
        /\ w(k, op).snap = 0 /\ w(k, op).free = 0 /\ w(k, op).grow = None
        /\ DOMAIN w(k, op) = DOMAIN NoClient
    BY DEF NoClient
  <2>4. w(k, op).sec \in BOOLEAN
    BY DEF NoClient
  <2>. HIDE DEF w
  <2>5. ClientOK(c, w(k, op), current_)
    BY <1>1, <2>2, <2>3, <2>4, StartOK
  <2>6. ClientsOK'
    BY <2>1, <2>5, <1>2, ClientStep, Zenon DEF GrowInv, dirVars
  <2>. QED
    BY <2>6, <1>2, QuietStep
<1>4. CASE StartGc(c)
  <2>1. PICK k \in Keys, op \in {"move", "drop"} : cl' = [cl EXCEPT ![c] = m(k, op)]
    BY <1>4, Zenon DEF StartGc
  <2>2. c \notin Getters
    BY <1>4, DirectoryAssumption, Zenon DEF StartGc
  <2>3. /\ m(k, op).pc = "load" /\ m(k, op).key = k /\ m(k, op).op = op
        /\ m(k, op).snap = 0 /\ m(k, op).free = 0 /\ m(k, op).grow = None
        /\ DOMAIN m(k, op) = DOMAIN NoClient
    BY DEF NoClient
  <2>4. m(k, op).sec \in BOOLEAN
    BY DEF NoClient
  <2>. HIDE DEF m
  <2>5. ClientOK(c, m(k, op), current_)
    BY <1>1, <2>2, <2>3, <2>4, StartOK, SMTT(30)
  <2>6. ClientsOK'
    BY <2>1, <2>5, <1>2, ClientStep, Zenon DEF GrowInv, dirVars
  <2>. QED
    BY <2>6, <1>2, QuietStep
<1>5. CASE StartGet(c)
  <2>1. PICK k \in Keys : cl' = [cl EXCEPT ![c] = a(k)]
    BY <1>5, Zenon DEF StartGet
  <2>2. c # GcThread
    BY <1>5, DirectoryAssumption, Zenon DEF StartGet
  <2>3. /\ a(k).pc = "get" /\ a(k).key = k /\ a(k).op = "get"
        /\ a(k).snap = 0 /\ a(k).free = 0 /\ a(k).grow = None
        /\ DOMAIN a(k) = DOMAIN NoClient
    BY DEF NoClient
  <2>4. a(k).sec \in BOOLEAN
    BY DEF NoClient
  <2>. HIDE DEF a
  <2>5. ClientOK(c, a(k), current_)
    BY <1>1, <2>2, <2>3, <2>4, StartOK
  <2>6. ClientsOK'
    BY <2>1, <2>5, <1>2, ClientStep, Zenon DEF GrowInv, dirVars
  <2>. QED
    BY <2>6, <1>2, QuietStep
<1>. QED
  BY <1>3, <1>4, <1>5

\* A client that takes up the current snapshot, or goes on to another step of
\* its operation.
LEMMA QuietSteps ==
    ASSUME GrowInv, NEW c \in Clients,
           \/ LoadSnapshot(c) \/ LockStripe(c) \/ NotFrozen(c) \/ WriteInsert(c)
           \/ CvCheck(c) \/ CvSleep(c) \/ GetLoad(c) \/ GetScan(c) \/ GetVerify(c)
    PROVE  GrowInv'
<1>1. ClientsOK /\ ClientOK(c, cl[c], current_) /\ current_ \in Nat
  BY ClientFacts
<1>2. UNCHANGED <<dirVars, growVars>> /\ current_' = current_
  BY Zenon DEF LoadSnapshot, LockStripe, NotFrozen, WriteInsert, CvCheck, CvSleep,
         GetLoad, GetScan, GetVerify, dirVars
<1>3. ScalarsOK'
  <2>1. CASE CvCheck(c)
    BY <2>1, <1>1 DEF GrowInv, ScalarsOK, CvCheck, growVars, ClientOK, RoleOK
  <2>2. CASE CvSleep(c)
    BY <2>2 DEF GrowInv, ScalarsOK, CvSleep, growVars
  <2>3. CASE ~CvCheck(c) /\ ~CvSleep(c)
    BY <2>3, Zenon DEF GrowInv, ScalarsOK, LoadSnapshot, LockStripe, NotFrozen, WriteInsert,
                GetLoad, GetScan, GetVerify, growVars
  <2>. QED
    BY <2>1, <2>2, <2>3
<1>4. ASSUME LoadSnapshot(c) PROVE ClientsOK'
  <2>1. ClientOK(c, [cl[c] EXCEPT !.snap = current_, !.pc = "lock"], current_)
    BY <1>1, <1>4 DEF LoadSnapshot, ClientOK, RoleOK
  <2>2. cl' = [cl EXCEPT ![c] = [cl[c] EXCEPT !.snap = current_, !.pc = "lock"]]
    BY <1>4, Zenon DEF LoadSnapshot
  <2>. QED
    BY <1>1, <1>2, <2>1, <2>2, ClientStep, Zenon
<1>5. ASSUME LockStripe(c) PROVE ClientsOK'
  <2>1. ClientOK(c, [cl[c] EXCEPT !.pc = "check"], current_)
    BY <1>1, <1>5 DEF LockStripe, ClientOK, RoleOK
  <2>. QED
    BY <1>1, <1>2, <1>5, <2>1, ClientStep, Zenon DEF LockStripe
<1>6. ASSUME NotFrozen(c) PROVE ClientsOK'
  <2>1. ClientOK(c, [cl[c] EXCEPT !.pc = "write"], current_)
    BY <1>1, <1>6 DEF NotFrozen, ClientOK, RoleOK
  <2>. QED
    BY <1>1, <1>2, <1>6, <2>1, ClientStep, Zenon DEF NotFrozen
<1>7. ASSUME WriteInsert(c) PROVE ClientsOK'
  <2>. DEFINE f == find_free_slot(Table(c), HomeOf[cl[c].key])
  <2>1. HomeOf[cl[c].key] \in Buckets
    BY <1>1, <1>7, DirectoryAssumption DEF WriteInsert, ClientOK
  <2>2. f \in SlotIdx /\ HomeOf[cl[c].key] <= f
    <3>1. f < total_slots
      BY <1>7 DEF WriteInsert
    <3>2. total_slots \in Nat
      BY HashTableAssumption DEF total_slots
    <3>. QED
      BY <2>1, <3>1, <3>2, FreeSlot, SMTT(30)
  <2>. HIDE DEF f
  <2>3. ClientOK(c, [cl[c] EXCEPT !.pc = "reach", !.free = f], current_)
    BY <1>1, <1>7, <2>2 DEF WriteInsert, ClientOK, RoleOK
  <2>4. cl' = [cl EXCEPT ![c] = [cl[c] EXCEPT !.pc = "reach", !.free = f]]
    BY <1>7, Zenon DEF WriteInsert, f
  <2>. QED
    BY <1>1, <1>2, <2>3, <2>4, ClientStep, Zenon
<1>8. ASSUME CvCheck(c) PROVE ClientsOK'
  <2>1. ClientOK(c, [cl[c] EXCEPT !.pc = "load", !.sec = TRUE], current_)
    BY <1>1, <1>8 DEF CvCheck, ClientOK, RoleOK
  <2>2. ClientOK(c, [cl[c] EXCEPT !.pc = "sleep"], current_)
    BY <1>1, <1>8 DEF CvCheck, ClientOK, RoleOK
  <2>. QED
    BY <1>1, <1>2, <1>8, <2>1, <2>2, ClientStep, Zenon DEF CvCheck
<1>9. ASSUME CvSleep(c) PROVE ClientsOK'
  <2>1. ClientOK(c, [cl[c] EXCEPT !.pc = "asleep"], current_)
    BY <1>1, <1>9 DEF CvSleep, ClientOK, RoleOK
  <2>. QED
    BY <1>1, <1>2, <1>9, <2>1, ClientStep, Zenon DEF CvSleep
<1>10. ASSUME GetLoad(c) PROVE ClientsOK'
  <2>1. ClientOK(c, [cl[c] EXCEPT !.snap = current_, !.pc = "scan"], current_)
    BY <1>1, <1>10 DEF GetLoad, ClientOK, RoleOK
  <2>2. cl' = [cl EXCEPT ![c] = [cl[c] EXCEPT !.snap = current_, !.pc = "scan"]]
    BY <1>10, Zenon DEF GetLoad
  <2>. QED
    BY <1>1, <1>2, <2>1, <2>2, ClientStep, Zenon
<1>11. ASSUME GetScan(c) PROVE ClientsOK'
  <2>1. ClientOK(c, [cl[c] EXCEPT !.pc = "done"], current_)
    BY <1>1, <1>11, SMTT(30) DEF GetScan, ClientOK, RoleOK
  <2>2. \A pba, off : ClientOK(c, [cl[c] EXCEPT !.pc = "verify", !.cur = pba,
                                                !.start = off], current_)
    BY <1>1, <1>11, SMTT(30) DEF GetScan, ClientOK, RoleOK
  <2>. DEFINE i == lookup(Table(c), HomeOf[cl[c].key], TagOf[cl[c].key],
                          cl[c].start, FALSE)
              r(pba, off) == [cl[c] EXCEPT !.pc = "verify", !.cur = pba,
                                           !.start = off]
  <2>3. \/ cl' = [cl EXCEPT ![c] = [cl[c] EXCEPT !.pc = "done"]]
        \/ cl' = [cl EXCEPT ![c] = r(Table(c)[i].pba, Table(c)[i].off + 1)]
    BY <1>11, Zenon DEF GetScan
  <2>4. ClientOK(c, r(Table(c)[i].pba, Table(c)[i].off + 1), current_)
    BY <2>2, Zenon
  <2>. HIDE DEF r, i
  <2>. QED
    BY <1>1, <1>2, <2>1, <2>3, <2>4, ClientStep
<1>12. ASSUME GetVerify(c) PROVE ClientsOK'
  <2>1. ClientOK(c, [cl[c] EXCEPT !.pc = "done", !.res = cl[c].cur], current_)
    BY <1>1, <1>12 DEF GetVerify, ClientOK, RoleOK
  <2>2. ClientOK(c, [cl[c] EXCEPT !.pc = "get"], current_)
    BY <1>1, <1>12 DEF GetVerify, ClientOK, RoleOK
  <2>. QED
    BY <1>1, <1>2, <1>12, <2>1, <2>2, ClientStep, Zenon DEF GetVerify
<1>. QED
  BY <1>2, <1>3, <1>4, <1>5, <1>6, <1>7, <1>8, <1>9, <1>10, <1>11, <1>12, QuietStep

\* Queueing up for the space waker.
LEMMA QueueStep ==
    ASSUME GrowInv, NEW c \in Clients, SpaceWait(c)
    PROVE  GrowInv'
<1>1. ClientsOK /\ ClientOK(c, cl[c], current_) /\ cl[c].pc = "queue"
  BY ClientFacts, Zenon DEF SpaceWait
<1>2. c \in Writers /\ cl[c].grow \in Gens \cup {None}
  BY <1>1 DEF ClientOK, RoleOK, Clients
<1>3. UNCHANGED <<dirVars, growVars, grown_mu_>> /\ waiters' = waiters \cup {c}
  BY Zenon DEF SpaceWait
<1>4. ClientsOK'
  <2>1. ClientOK(c, [cl[c] EXCEPT !.pc = "wait"], current_)
    BY <1>1 DEF ClientOK, RoleOK
  <2>2. cl' = [cl EXCEPT ![c] = [cl[c] EXCEPT !.pc = "wait"]] /\ current_' = current_
    BY <1>3, Zenon DEF SpaceWait, dirVars
  <2>. QED
    BY <1>1, <2>1, <2>2, ClientStep, Zenon
<1>5. request' \in Gens \cup {None}
  <2>1. Gens \cup {None} \subseteq Int
    BY BitsNat DEF Gens, None
  <2>2. request \in Gens \cup {None}
    BY DEF GrowInv, ScalarsOK
  <2>3. Max({request, cl[c].grow}) \in {request, cl[c].grow}
    BY <1>2, <2>1, <2>2, MaxOfTwo
  <2>4. request' \in {request, cl[c].grow, Max({request, cl[c].grow})}
    BY Zenon DEF SpaceWait
  <2>. QED
    BY <1>2, <2>2, <2>3, <2>4
<1>6. ScalarsOK'
  BY <1>2, <1>3, <1>5, SMTT(30) DEF GrowInv, ScalarsOK, growVars
<1>. QED
  BY <1>3, <1>4, <1>6, QuietStep

\* A client that ends its read section without a write.
LEMMA LeaveSteps ==
    ASSUME GrowInv, NEW c \in Clients,
           Frozen(c) \/ WriteNothing(c) \/ InsertFull(c) \/ EndGet(c)
    PROVE  GrowInv'
<1>1. ClientsOK /\ ClientOK(c, cl[c], current_) /\ current_ \in Nat
  BY ClientFacts
<1>2. /\ Leave({c}) /\ UNCHANGED <<snap, current_>>
      /\ UNCHANGED <<segs, data, spare, waiters, request, grown_mu_>>
  BY DEF Frozen, WriteNothing, InsertFull, EndGet
<1>3. ScalarsOK'
  BY <1>2 DEF GrowInv, ScalarsOK
<1>4. SUFFICES ClientsOK'
  BY <1>2, <1>3, LeaveStep
<1>5. ClientOK(c, NoClient, current_)
  BY <1>1, IdleOK
<1>6. ASSUME Frozen(c) PROVE ClientsOK'
  <2>. DEFINE r == [cl[c] EXCEPT !.pc = IF c = GcThread THEN "cv" ELSE "queue", !.sec = FALSE]
  <2>1. ClientOK(c, r, current_)
    BY <1>1, <1>6 DEF Frozen, ClientOK, RoleOK
  <2>2. cl' = [cl EXCEPT ![c] = r]
    BY <1>6, Zenon DEF Frozen
  <2>. QED
    BY <1>1, <1>2, <2>1, <2>2, ClientStep, Zenon
<1>7. ASSUME WriteNothing(c) \/ EndGet(c) PROVE ClientsOK'
  BY <1>1, <1>2, <1>5, <1>7, ClientStep, SMTT(30) DEF WriteNothing, EndGet
<1>8. ASSUME InsertFull(c) PROVE ClientsOK'
  <2>. DEFINE r == [cl[c] EXCEPT !.pc = "queue", !.sec = FALSE, !.grow = cl[c].snap]
  <2>1. cl' = [cl EXCEPT ![c] = NoClient] \/ cl' = [cl EXCEPT ![c] = r]
    BY <1>8, Zenon DEF InsertFull
  <2>2. ClientOK(c, r, current_)
    <3>1. cl[c].snap \in Gens
      BY ClientFacts
    <3>2. /\ cl[c].pc = "reach" \/ (cl[c].pc = "write" /\ cl[c].op = "put")
          /\ cl[c].key \in Keys
      BY <1>1, <1>8, Zenon DEF InsertFull, ClientOK
    <3>3. c # GcThread /\ c \notin Getters
      BY <1>1, <3>2 DEF ClientOK, RoleOK
    <3>. QED
      BY <1>1, <3>1, <3>2, <3>3 DEF ClientOK, RoleOK
  <2>. QED
    BY <1>1, <1>2, <1>5, <2>1, <2>2, ClientStep, Zenon
<1>. QED
  BY <1>6, <1>7, <1>8

\* A write that ends with Commit() preserves the invariant if what it stores is a
\* well-formed table.
LEMMA CommitStep ==
    ASSUME GrowInv, NEW c \in Clients, NEW t, NEW v, Commit(c, t, v),
           TableOf(c) \in DOMAIN snap[cl[c].snap].tables =>
               TableOK(t, cl[c].snap, TableOf(c))
    PROVE  GrowInv'
<1>1. ClientsOK /\ ClientOK(c, cl[c], current_) /\ current_ \in Nat
  BY ClientFacts, Zenon
<1>2. /\ snap' = [snap EXCEPT ![cl[c].snap].tables[TableOf(c)] = t]
      /\ Leave({c}) /\ current_' = current_
      /\ UNCHANGED <<segs, data, spare, waiters, request, grown_mu_>>
  BY DEF Commit
<1>3. cl[c].snap \in 0..current_
  BY <1>1, Zenon DEF ClientOK
<1>4. SnapOK' /\ CopyOK' /\ DOMAIN snap'[current_'].tables = Tables(current_')
  <2>1. /\ waker'.pc = waker.pc /\ waker'.todo = waker.todo
        /\ waker'.table = waker.table /\ waker'.slot = waker.slot
    BY <1>2, LeaveFrame, Zenon
  <2>. QED
    BY <1>2, <1>3, <2>1, WriteFrame, Zenon DEF GrowInv
<1>5. CurOK' /\ WakerOK' /\ waker'.fits = TRUE
  <2>1. /\ WakerOK' /\ waker'.fits = TRUE
        /\ \A g \in Gens : grace'[g] # {} => g < current_'
        /\ DOMAIN grace' = Gens
    BY <1>2, LeaveFrame, Zenon
  <2>2. current_' \in Gens
    BY <1>2 DEF GrowInv, CurOK
  <2>. QED
    BY <1>4, <2>1, <2>2 DEF CurOK
<1>6. ScalarsOK'
  BY <1>2 DEF GrowInv, ScalarsOK
<1>7. ClientsOK'
  <2>1. DOMAIN cl' = Clients
    BY DEF Commit
  <2>2. ASSUME NEW x \in Clients PROVE ClientOK(x, cl'[x], current_)
    <3>1. ClientOK(x, NoClient, current_)
      BY <1>1, IdleOK
    <3>2. ClientOK(x, cl[x], current_)
      BY <1>1 DEF ClientsOK
    <3>3. \A s : ClientOK(x, [cl[x] EXCEPT !.win = s], current_)
      BY <3>2 DEF ClientOK, RoleOK
    <3>4. \/ cl'[x] = NoClient \/ cl'[x] = cl[x]
          \/ cl'[x] = [cl[x] EXCEPT !.win = @ \cup {Answer(v)}]
      BY DEF Commit
    <3>. QED
      BY <3>1, <3>2, <3>3, <3>4
  <2>. QED
    BY <1>2, <2>1, <2>2 DEF ClientsOK
<1>. QED
  BY <1>4, <1>5, <1>6, <1>7, Zenon DEF GrowInv

\* The steps that change a table.
LEMMA WriteSteps ==
    ASSUME GrowInv, NEW c \in Clients,
           WriteEntry(c) \/ InsertStore(c) \/ InsertMove(c)
    PROVE  GrowInv'
<1>. DEFINE g == cl[c].snap
            k == cl[c].key
            p == TableOf(c)
<1>1. ClientsOK /\ ClientOK(c, cl[c], current_) /\ current_ \in Nat
  BY ClientFacts
<1>2. k \in Keys /\ HomeOf[k] \in Buckets /\ TagOf[k] \in Tags
  BY <1>1, DirectoryAssumption, SMTT(30)
     DEF ClientOK, WriteEntry, InsertStore, InsertMove
<1>3. g \in 0..current_ /\ g \in Gens /\ cl[c].free \in SlotIdx
  BY <1>1, ClientFacts, SMTT(30) DEF ClientOK
<1>4. p = table_index(TagOf[k], g)
  BY SMTT(30) DEF TableOf
<1>5. p \in DOMAIN snap[g].tables => TableOK(Table(c), g, p)
  BY <1>3, SMTT(30) DEF GrowInv, SnapOK, Table
<1>. HIDE DEF g, k, p
<1>6. CASE WriteEntry(c)
  <2>. DEFINE e == OwnEntry(c)
  <2>1. PICK t, v : /\ Commit(c, t, v)
                    /\ \/ t = remove_locked(Table(c), HomeOf[k], TagOf[k], e.pba)
                       \/ \E size : t = update_locked(Table(c), HomeOf[k], TagOf[k],
                                                      e.pba, size, cl[c].pba)
    BY <1>6 DEF WriteEntry, k
  <2>. HIDE DEF e
  <2>2. p \in DOMAIN snap[g].tables => TableOK(t, g, p)
    BY <1>2, <1>4, <1>5, <2>1, UpdateOK, RemoveOK, Zenon
  <2>. QED
    BY <2>1, <2>2, CommitStep, Zenon DEF g, p
<1>7. CASE InsertStore(c)
  <2>. DEFINE f == cl[c].free
              e == Entry(f - HomeOf[k], TagOf[k], 1, cl[c].pba)
  <2>1. SlotOK(e, f, g, p)
    <3>1. HomeOf[k] <= f /\ f < HomeOf[k] + kHopRange
      BY <1>1, <1>7, Zenon DEF InsertStore, InReach, ClientOK, k
    <3>2. e.off = f - HomeOf[k] /\ e.tag = TagOf[k]
      BY Zenon DEF Entry
    <3>3. HomeOf[k] \in Nat /\ HomeOf[k] < num_buckets /\ f \in Nat
      BY <1>2, <1>3, HashTableAssumption, SMTT(30) DEF Buckets, SlotIdx
    <3>. HIDE DEF e, f
    <3>4. /\ e.off \in Nat /\ e.off < kHopRange /\ e.off <= f
          /\ f - e.off < num_buckets
      BY <3>1, <3>2, <3>3, HashTableAssumption
    <3>. QED
      BY <3>2, <3>4, <1>2, <1>4, SMTT(30) DEF SlotOK
  <2>2. \E v : Commit(c, [Table(c) EXCEPT ![f] = e], v)
    BY <1>7, SMTT(30) DEF InsertStore, k
  <2>. HIDE DEF e, f
  <2>3. p \in DOMAIN snap[g].tables => TableOK([Table(c) EXCEPT ![f] = e], g, p)
    BY <1>5, <2>1, StoreSlot
  <2>. QED
    BY <2>2, <2>3, CommitStep, Zenon DEF g, p
<1>8. CASE InsertMove(c)
  <2>. DEFINE f == cl[c].free
              i == Min(Movable(Table(c), f))
              t == [Table(c) EXCEPT ![f] = Moved(Table(c), i, f), ![i] = Empty]
  <2>1. /\ Movable(Table(c), f) # {}
        /\ snap' = [snap EXCEPT ![g].tables[p] = t]
        /\ cl' = [cl EXCEPT ![c] = [cl[c] EXCEPT !.free = i]]
        /\ UNCHANGED <<current_, grace, growVars, waiters, request, grown_mu_>>
    BY <1>8 DEF InsertMove, g, p
  <2>2. p \in DOMAIN snap[g].tables => TableOK(t, g, p)
    BY <1>3, <1>5, <2>1, MoveOK
  <2>3. i \in SlotIdx /\ f < i + kHopRange
    <3>1. Movable(Table(c), f) \in SUBSET Nat
      BY DEF Movable, SlotIdx
    <3>2. i \in Movable(Table(c), f)
      BY <2>1, <3>1, MinNat
    <3>. QED
      BY <3>2, SMTT(30) DEF Movable
  <2>. HIDE DEF t, i
  <2>4. SnapOK' /\ CopyOK' /\ DOMAIN snap'[current_'].tables = Tables(current_')
    BY <1>3, <2>1, <2>2, WriteFrame, Zenon DEF GrowInv, growVars
  <2>5. ClientsOK'
    <3>1. HomeOf[k] <= i
      BY <1>2, <1>3, <1>8, <2>3, HashTableAssumption, SMTT(30)
         DEF InsertMove, InReach, k, SlotIdx, Buckets, total_slots
    <3>2. ClientOK(c, [cl[c] EXCEPT !.free = i], current_)
      BY <1>1, <2>3, <3>1 DEF ClientOK, RoleOK, k
    <3>. QED
      BY <1>1, <2>1, <3>2, ClientStep, Zenon
  <2>6. CurOK' /\ WakerOK' /\ ScalarsOK'
    BY <2>1, <2>4 DEF GrowInv, CurOK, WakerOK, ScalarsOK, growVars
  <2>7. waker'.fits = TRUE
    BY <2>1, Zenon DEF GrowInv, growVars
  <2>. QED
    BY <2>4, <2>5, <2>6, <2>7 DEF GrowInv
<1>. QED
  BY <1>6, <1>7, <1>8

-----------------------------------------------------------------------------
(* The steps of the space waker.                                           *)

\* The waiters go back to the start of their attempt, or fail.
LEMMA ResumeOK ==
    ASSUME IInv, NEW g, NEW rc, ResumeWaiters(g, rc), current_' = current_
    PROVE  ClientsOK' /\ waiters' = {}
<1>1. ClientsOK /\ current_ \in Nat /\ waiters \subseteq Writers
  BY CurFacts, Zenon DEF IInv, GrowInv, ScalarsOK
<1>2. ASSUME NEW c \in Clients PROVE ClientOK(c, cl'[c], current_)
  <2>1. ClientOK(c, cl[c], current_) /\ ClientOK(c, NoClient, current_)
    BY <1>1, IdleOK DEF ClientsOK
  <2>2. \/ cl'[c] = cl[c] \/ cl'[c] = NoClient
        \/ c \in waiters /\ cl'[c] = [cl[c] EXCEPT !.pc = "load", !.sec = TRUE,
                                                   !.grow = None]
    BY Zenon DEF ResumeWaiters
  <2>3. CASE c \in waiters
    <3>1. cl[c].pc = "wait"
      BY <2>3 DEF IInv, WaitOK
    <3>2. ClientOK(c, [cl[c] EXCEPT !.pc = "load", !.sec = TRUE, !.grow = None],
                   current_)
      BY <1>1, <2>1, <2>3, <3>1, DirectoryAssumption DEF ClientOK, RoleOK
    <3>. QED
      BY <2>1, <2>2, <3>2
  <2>4. CASE c \notin waiters
    BY <2>1, <2>2, <2>4
  <2>. QED
    BY <2>3, <2>4
<1>3. DOMAIN cl' = Clients /\ waiters' = {}
  BY Zenon DEF ResumeWaiters
<1>. QED
  BY <1>2, <1>3 DEF ClientsOK

\* The waker's record as a whole, for the steps that change several fields.
LEMMA NoGrowOK ==
    /\ NoGrow.pc = "idle" /\ NoGrow.gen = None /\ NoGrow.built = 0
    /\ NoGrow.slot = 0 /\ NoGrow.fits = TRUE
    /\ DOMAIN NoGrow = {"pc", "gen", "rc", "built", "waits", "todo", "table",
                        "slot", "fits"}
<1>1. NoGrow.fits = TRUE
  BY Zenon DEF NoGrow
<1>. QED
  BY <1>1, SMTT(30) DEF NoGrow

\* A step of the waker outside the copy: it leaves the snapshots alone, and is
\* not in the copy after it.
LEMMA WakerStep ==
    ASSUME GrowInv, UNCHANGED dirVars, ClientsOK', ScalarsOK', WakerOK',
           ~(waker'.pc \in {"sync", "table", "copy"}), waker'.fits = TRUE
    PROVE  GrowInv'
<1>1. SnapOK' /\ CurOK'
  BY SMTT(30) DEF GrowInv, SnapOK, CurOK, dirVars
<1>2. CopyOK'
  BY DEF CopyOK, Copying
<1>. QED
  BY <1>1, <1>2 DEF GrowInv

\* The waker between grows.
LEMMA IdleSteps ==
    ASSUME IInv, WakerTick \/ WakerResume \/ WakerTake \/ WakerAfter
    PROVE  GrowInv'
<1>. USE DEF IInv
<1>1. /\ UNCHANGED dirVars /\ current_' = current_
      /\ UNCHANGED <<segs, data, spare, grown_mu_>>
  BY DEF WakerTick, WakerResume, WakerTake, WakerAfter, dirVars
<1>2. total_slots \in Nat /\ Gens \cup {None} \subseteq Int
  BY HashTableAssumption, BitsNat DEF total_slots, None, Gens
<1>3. WakerOK /\ ClientsOK /\ waker.fits = TRUE
  BY DEF GrowInv
<1>4. ASSUME WakerTick PROVE GrowInv'
  <2>1. waker' = [waker EXCEPT !.pc = "tick"] /\ UNCHANGED <<cl, waiters, request>>
    BY <1>4 DEF WakerTick
  <2>2. waker'.fits = waker.fits
    BY <2>1, <1>3 DEF WakerOK
  <2>3. waker'.fits = TRUE
    BY <1>3, <2>2, Zenon
  <2>4. WakerOK' /\ waker'.pc = "tick"
    BY <2>1, <1>1, <1>3 DEF WakerOK
  <2>5. ClientsOK' /\ ScalarsOK'
    BY <1>1, <2>1 DEF GrowInv, ClientsOK, ScalarsOK
  <2>. QED
    BY <1>1, <2>3, <2>4, <2>5, WakerStep, Zenon
<1>5. ASSUME WakerResume PROVE GrowInv'
  <2>1. waker' = NoGrow /\ ResumeWaiters(None, "ok") /\ UNCHANGED request
    BY <1>5 DEF WakerResume
  <2>2. ClientsOK' /\ waiters' = {}
    BY <1>1, <2>1, ResumeOK
  <2>3. ScalarsOK'
    BY <1>1, <2>1, <2>2 DEF GrowInv, ScalarsOK
  <2>4. WakerOK' /\ waker'.fits = TRUE /\ waker'.pc = "idle"
    BY <1>2, <2>1, NoGrowOK DEF WakerOK
  <2>. QED
    BY <1>1, <2>2, <2>3, <2>4, WakerStep, Zenon
<1>6. ASSUME WakerTake PROVE GrowInv'
  <2>. DEFINE w == [NoGrow EXCEPT !.pc = "begin", !.gen = request]
  <2>1. waker' = w /\ request' = None /\ UNCHANGED <<cl, waiters>>
    BY <1>6 DEF WakerTake
  <2>2. w.fits = NoGrow.fits
    BY NoGrowOK
  <2>3. w.fits = TRUE
    BY <2>2, NoGrowOK, Zenon
  <2>4. /\ DOMAIN w = DOMAIN NoGrow /\ w.pc = "begin" /\ w.gen = request
        /\ w.built = NoGrow.built /\ w.slot = NoGrow.slot
    BY NoGrowOK
  <2>. HIDE DEF w
  <2>5. WakerOK'
    BY <1>2, <2>1, <2>4, NoGrowOK, SMTT(30) DEF WakerOK, GrowInv, ScalarsOK
  <2>6. ClientsOK' /\ ScalarsOK'
    BY <1>1, <2>1 DEF GrowInv, ClientsOK, ScalarsOK
  <2>. QED
    BY <1>1, <2>1, <2>3, <2>4, <2>5, <2>6, WakerStep, Zenon
<1>7. ASSUME WakerAfter PROVE GrowInv'
  <2>1. /\ waker' = NoGrow
        /\ ResumeWaiters(None, "ok") \/ ResumeWaiters(waker.gen, waker.rc)
        /\ request' \in {request, None, waker.gen, Max({request, waker.gen})}
    BY <1>7, Zenon DEF WakerAfter
  <2>2. ClientsOK' /\ waiters' = {}
    BY <1>1, <2>1, ResumeOK
  <2>3. request \in Gens \cup {None} /\ waker.gen \in Gens \cup {None}
    BY SMTT(30) DEF GrowInv, ScalarsOK, WakerOK
  <2>4. Max({request, waker.gen}) \in {request, waker.gen}
    <3>1. request \in Int /\ waker.gen \in Int
      BY <1>2, <2>3
    <3>. QED
      BY <3>1, MaxOfTwo
  <2>5. ScalarsOK'
    BY <1>1, <2>1, <2>2, <2>3, <2>4, SMTT(30) DEF GrowInv, ScalarsOK
  <2>6. WakerOK' /\ waker'.fits = TRUE /\ waker'.pc = "idle"
    BY <1>2, <2>1, NoGrowOK, SMTT(30) DEF WakerOK
  <2>. QED
    BY <1>1, <2>2, <2>5, <2>6, WakerStep, Zenon
<1>. QED
  BY <1>4, <1>5, <1>6, <1>7

\* grow() until it freezes the snapshot: tables are made, kept or given back.
LEMMA BuildSteps ==
    ASSUME IInv, GrowBegin \/ GrowTable \/ GrowAgain \/ GrowFails
    PROVE  GrowInv'
<1>1. GrowInv /\ WakerOK /\ ScalarsOK /\ waker.fits = TRUE /\ current_ \in Gens
  BY SMTT(30) DEF IInv, GrowInv, CurOK
<1>2. UNCHANGED dirVars /\ UNCHANGED <<data, cl, waiters, request, grown_mu_>>
  BY DEF GrowBegin, GrowTable, GrowAgain, GrowFails, dirVars
<1>3. waker'.fits = TRUE
  <2>1. waker'.fits = waker.fits
    BY <1>1, Zenon DEF WakerOK, GrowBegin, GrowTable, GrowAgain, GrowFails, Returns
  <2>. QED
    BY <1>1, <2>1, Zenon
<1>. DEFINE Built == /\ WakerOK' /\ segs' \in Nat /\ spare' \in Nat
                     /\ waker'.pc \in {"after", "tables"}
<1>4. Built
  <2>. USE <1>1, <1>2 DEF WakerOK, ScalarsOK, dirVars
  <2>1. ASSUME GrowBegin PROVE Built
    <3>1. waker.pc = "begin" /\ segs' = segs
      BY <2>1 DEF GrowBegin
    <3>2. CASE waker.gen # current_ \/ table_bits(current_) >= kMaxTableBits
      BY <2>1, <3>1, <3>2, Zenon DEF GrowBegin, Returns
    <3>3. CASE ~(waker.gen # current_ \/ table_bits(current_) >= kMaxTableBits)
      <4>1. current_ + 1 \in Gens
        BY <3>3, NextGen, SMTT(30)
      <4>2. waker' = [waker EXCEPT !.pc = "tables", !.built = spare] /\ spare' = 0
        BY <2>1, <3>3 DEF GrowBegin
      <4>. QED
        BY <3>1, <4>1, <4>2
    <3>. QED
      BY <3>2, <3>3, SMTT(30)
  <2>2. ASSUME GrowTable PROVE Built
    BY <2>2 DEF GrowTable
  <2>3. ASSUME GrowAgain PROVE Built
    BY <2>3 DEF GrowAgain, Returns
  <2>4. ASSUME GrowFails PROVE Built
    BY <2>4 DEF GrowFails, Returns
  <2>. QED
    BY <2>1, <2>2, <2>3, <2>4, SMTT(30)
<1>5. ClientsOK' /\ ScalarsOK'
  BY <1>2, <1>4 DEF IInv, GrowInv, ClientsOK, ScalarsOK, dirVars
<1>. QED
  BY <1>1, <1>2, <1>3, <1>4, <1>5, WakerStep, Zenon

\* The freeze: the new snapshot's tables are all there, and empty.
LEMMA FreezeStep ==
    ASSUME IInv, GrowFreeze
    PROVE  GrowInv'
<1>. DEFINE n == current_ + 1
            new == [p \in Tables(n) |-> ClearTable]
<1>1. /\ GrowInv /\ WakerOK /\ ScalarsOK /\ waker.fits = TRUE
      /\ current_ \in Gens /\ n \in Gens /\ current_ # n /\ current_ \in Nat
  <2>1. GrowInv /\ WakerOK /\ ScalarsOK /\ waker.fits = TRUE
    BY DEF IInv, GrowInv
  <2>2. n \in Gens
    BY <2>1 DEF WakerOK, GrowFreeze
  <2>. QED
    BY <2>1, <2>2, CurFacts
<1>2. /\ snap' = [snap EXCEPT ![current_].frozen = TRUE, ![n].tables = new]
      /\ UNCHANGED <<current_, grace, segs, data, cl, waiters, request, grown_mu_>>
      /\ waker' = [waker EXCEPT !.pc = "sync", !.built = Needed, !.waits = Open]
      /\ spare' = waker.built - Needed /\ waker.built >= Needed
  BY DEF GrowFreeze
<1>3. Needed \in Nat
  <2>1. table_bits(current_) \in Int
    BY <1>1, BitsNat DEF table_bits
  <2>2. Cardinality(Tables(current_)) \in Nat
    BY <2>1, TablesFinite, Zenon DEF Tables
  <2>. QED
    BY <2>2 DEF Needed
<1>. HIDE DEF new, n
<1>4. /\ DOMAIN snap' = Gens
      /\ \A g \in Gens : g # current_ /\ g # n => snap'[g] = snap[g]
      /\ snap'[current_] = [snap[current_] EXCEPT !.frozen = TRUE]
      /\ snap'[n] = [snap[n] EXCEPT !.tables = new]
  BY <1>1, <1>2, Zenon DEF GrowInv, SnapOK
<1>5. /\ DOMAIN snap'[n] = {"tables", "frozen", "freed"}
      /\ snap'[n].tables = new
      /\ snap'[n].frozen = snap[n].frozen /\ snap'[n].freed = snap[n].freed
  BY <1>1, <1>4 DEF GrowInv, SnapOK
<1>6. /\ DOMAIN snap'[current_] = {"tables", "frozen", "freed"}
      /\ snap'[current_].tables = snap[current_].tables
      /\ snap'[current_].freed = snap[current_].freed
  BY <1>1, <1>4 DEF GrowInv, SnapOK
<1>7. snap'[current_].frozen \in BOOLEAN
  BY <1>1, <1>4 DEF GrowInv, SnapOK
<1>8. /\ DOMAIN new = Tables(n)
      /\ \A p \in Tables(n) : TableOK(new[p], n, p)
      /\ \A p \in Tables(n), i \in SlotIdx : IsEmpty(new[p][i])
  BY ClearTableOK DEF new
<1>9. SnapOK'
  <2>1. ASSUME NEW g \in Gens
        PROVE  /\ DOMAIN snap'[g] = {"tables", "frozen", "freed"}
               /\ snap'[g].frozen \in BOOLEAN /\ snap'[g].freed \in BOOLEAN
               /\ \A p \in DOMAIN snap'[g].tables :
                     p \in Tables(g) /\ TableOK(snap'[g].tables[p], g, p)
    <3>1. CASE g = n
      BY <1>1, <1>5, <1>8, <3>1, SMTT(30) DEF GrowInv, SnapOK
    <3>2. CASE g = current_
      BY <1>1, <1>6, <1>7, <3>2, SMTT(30) DEF GrowInv, SnapOK
    <3>3. CASE g # n /\ g # current_
      BY <1>1, <1>4, <3>3 DEF GrowInv, SnapOK
    <3>. QED
      BY <3>1, <3>2, <3>3, SMTT(30)
  <2>. QED
    BY <1>4, <2>1 DEF SnapOK
<1>10. CurOK' /\ ClientsOK'
  BY <1>1, <1>2, <1>6, Zenon DEF GrowInv, CurOK, ClientsOK
<1>11. ScalarsOK'
  BY <1>1, <1>2, <1>3 DEF ScalarsOK, WakerOK
<1>12. WakerOK'
  BY <1>1, <1>2, <1>3 DEF WakerOK, n
<1>13. CopyOK'
  BY <1>2, <1>5, <1>8, Zenon DEF CopyOK, n
<1>14. waker'.fits = TRUE
  <2>1. waker'.fits = waker.fits
    BY <1>1, <1>2 DEF WakerOK
  <2>. QED
    BY <1>1, <2>1, Zenon
<1>. QED
  BY <1>9, <1>10, <1>11, <1>12, <1>13, <1>14 DEF GrowInv

\* From table to table.
LEMMA TableSteps ==
    ASSUME IInv, GrowSynced \/ GrowNextTable \/ GrowTableDone
    PROVE  GrowInv'
<1>1. /\ GrowInv /\ WakerOK /\ CopyOK /\ waker.fits = TRUE
      /\ Copying /\ current_ + 1 \in Gens
  BY Zenon DEF IInv, GrowInv, WakerOK, Copying, GrowSynced, GrowNextTable, GrowTableDone
<1>2. /\ UNCHANGED <<dirVars, segs, data, spare, cl, waiters, request, grown_mu_>>
      /\ UNCHANGED <<snap, current_>>
  BY Zenon DEF GrowSynced, GrowNextTable, GrowTableDone, dirVars
<1>3. SnapOK' /\ CurOK' /\ ClientsOK' /\ ScalarsOK'
  BY <1>1, <1>2, SMTT(30) DEF GrowInv, SnapOK, CurOK, ClientsOK, ScalarsOK, dirVars
<1>4. waker'.fits = TRUE
  <2>1. waker'.fits = waker.fits
    BY <1>1, Zenon DEF WakerOK, GrowSynced, GrowNextTable, GrowTableDone
  <2>. QED
    BY <1>1, <2>1, Zenon
<1>5. total_slots \in Nat /\ 0 \in 0..total_slots
  BY SlotsNat
<1>6. ASSUME GrowSynced PROVE WakerOK' /\ CopyOK'
  <2>1. WakerOK'
    BY <1>1, <1>2, <1>6 DEF GrowSynced, WakerOK
  <2>2. \A p, i : Untouched(p, i)' => Untouched(p, i)
    BY <1>6 DEF GrowSynced, Untouched
  <2>. QED
    BY <1>1, <1>2, <2>1, <2>2, SMTT(30) DEF CopyOK
<1>7. ASSUME GrowNextTable PROVE WakerOK' /\ CopyOK'
  <2>1. PICK q \in waker.todo :
           waker' = [waker EXCEPT !.pc = "copy", !.todo = @ \ {q}, !.table = q,
                                  !.slot = 0]
    BY <1>7, Zenon DEF GrowNextTable
  <2>2. /\ waker'.pc = "copy" /\ waker'.todo = waker.todo \ {q}
        /\ waker'.table = q /\ waker'.slot = 0
        /\ waker'.gen = waker.gen /\ waker'.built = waker.built
        /\ DOMAIN waker' = DOMAIN waker
    BY <1>1, <2>1 DEF WakerOK
  <2>3. WakerOK'
    <3>1. waker.todo \subseteq Tables(current_)
      BY <1>1, <1>7, Zenon DEF GrowNextTable, WakerOK
    <3>2. q \in Tables(current_) \ (waker.todo \ {q})
      BY <3>1
    <3>. QED
      BY <1>1, <1>2, <1>5, <2>2, <3>1, <3>2, Zenon DEF WakerOK
  <2>4. \A p, i : Untouched(p, i)' => Untouched(p, i)
    BY <1>2, <2>2, SMTT(30) DEF Untouched
  <2>. QED
    BY <1>1, <1>2, <2>3, <2>4, Zenon DEF CopyOK
<1>8. ASSUME GrowTableDone PROVE WakerOK' /\ CopyOK'
  <2>1. /\ waker'.pc = "table" /\ waker'.todo = waker.todo
        /\ waker'.slot = waker.slot /\ waker'.gen = waker.gen
        /\ waker'.built = waker.built /\ DOMAIN waker' = DOMAIN waker
    BY <1>1, <1>8 DEF GrowTableDone, WakerOK
  <2>2. WakerOK'
    BY <1>1, <1>2, <1>8, <2>1 DEF GrowTableDone, WakerOK
  <2>3. \A p, i : Untouched(p, i)' => Untouched(p, i)
    BY <1>2, <2>1, SMTT(30) DEF Untouched
  <2>. QED
    BY <1>1, <1>2, <2>2, <2>3 DEF CopyOK
<1>. QED
  BY <1>3, <1>4, <1>6, <1>7, <1>8 DEF GrowInv

\* The copy of one slot: the insert succeeds, in a slot not above the one copied.
LEMMA CopyStep ==
    ASSUME IInv, GrowCopy
    PROVE  GrowInv'
<1>. DEFINE n == current_ + 1
            s == waker.slot
            e == snap[current_].tables[waker.table][s]
            p == table_index(e.tag, n)
            t == snap[n].tables[p]
            r == insert_locked(t, s - e.off, e.tag, e.size, e.pba)
<1>1. /\ GrowInv /\ SnapOK /\ CurOK /\ WakerOK /\ CopyOK /\ waker.fits = TRUE
      /\ Copying /\ waker.pc = "copy" /\ s < total_slots
  BY Zenon DEF IInv, GrowInv, GrowCopy, Copying
<1>2. /\ current_ \in Gens /\ n \in Gens /\ current_ # n
      /\ s \in SlotIdx /\ s \in Nat /\ total_slots \in Nat
  <2>1. current_ \in Gens /\ current_ \in Nat
    BY <1>1, CurFacts
  <2>2. n \in Gens /\ s \in 0..total_slots
    BY <1>1, SMTT(30) DEF WakerOK
  <2>3. s \in Nat
    BY <2>2, SlotsNat
  <2>. QED
    BY <1>1, <2>1, <2>2, <2>3, SlotsNat
<1>3. UNCHANGED <<current_, grace, segs, data, spare, cl, waiters, request,
                  grown_mu_>>
  BY Zenon DEF GrowCopy
<1>4. CurOK => ClientsOK' /\ ScalarsOK'
  BY <1>1, <1>3, SMTT(30) DEF GrowInv, ClientsOK, ScalarsOK
<1>5. waker.table \in Tables(current_) \ waker.todo
  BY <1>1, SMTT(30) DEF WakerOK
<1>6. SlotOK(e, s, current_, waker.table)
  BY <1>1, <1>2, <1>5, SMTT(30) DEF SnapOK, CurOK, TableOK
<1>7. CASE IsEmpty(e)
  <2>1. waker' = [waker EXCEPT !.slot = @ + 1] /\ snap' = snap
    BY <1>7, Zenon DEF GrowCopy
  <2>2. /\ waker'.pc = waker.pc /\ waker'.todo = waker.todo
        /\ waker'.table = waker.table /\ waker'.slot = s + 1
        /\ waker'.gen = waker.gen /\ waker'.built = waker.built
        /\ DOMAIN waker' = DOMAIN waker /\ waker'.fits = waker.fits
    BY <1>1, <2>1 DEF WakerOK
  <2>3. waker'.fits = TRUE
    BY <1>1, <2>2, Zenon
  <2>4. s + 1 \in 0..total_slots
    BY <1>1, <1>2
  <2>5. WakerOK'
    BY <1>1, <1>3, <2>2, <2>4, SMTT(30) DEF WakerOK
  <2>6. ASSUME NEW q, NEW i \in SlotIdx, Untouched(q, i)' PROVE Untouched(q, i)
    <3>1. i \in Int /\ (s + 1 <= i => s <= i)
      BY <1>2 DEF SlotIdx
    <3>. QED
      BY <1>3, <2>2, <2>6, <3>1, SMTT(30) DEF Untouched
  <2>7. CopyOK'
    BY <1>1, <1>3, <2>1, <2>6 DEF CopyOK
  <2>8. SnapOK' /\ CurOK'
    BY <1>1, <1>3, <2>1 DEF SnapOK, CurOK
  <2>. QED
    BY <1>1, <1>4, <2>3, <2>5, <2>7, <2>8 DEF GrowInv
<1>8. CASE ~IsEmpty(e)
  <2>1. e.tag \in Tags /\ table_index(e.tag, current_) = waker.table
    BY <1>6, <1>8, Zenon DEF SlotOK
  <2>2. p \in Tables(n) /\ table_index(p, current_) = waker.table
    BY <1>2, <2>1, SplitTable, SMTT(30)
  <2>3. SlotOK(e, s, n, p)
    BY <1>6, <1>8, <2>1, Zenon DEF SlotOK
  <2>4. DOMAIN snap[n].tables = Tables(n)
    BY <1>1 DEF CopyOK
  <2>5. TableOK(t, n, p)
    BY <1>1, <1>2, <2>2, <2>4, Zenon DEF SnapOK
  <2>6. \A i \in SlotIdx : s <= i => IsEmpty(t[i])
    BY <1>1, <2>2, Zenon DEF CopyOK, Untouched
  <2>7. /\ r.ok = TRUE /\ TableOK(r.t, n, p)
        /\ \A i \in SlotIdx : s + 1 <= i => IsEmpty(r.t[i])
    <3>. HIDE DEF e, n, s, p, t
    <3>. QED
      BY <1>2, <1>8, <2>3, <2>5, <2>6, CopyInsert, Zenon
  <2>8. /\ snap' = [snap EXCEPT ![n].tables[p] = r.t]
        /\ waker' = [waker EXCEPT !.slot = @ + 1, !.fits = @ /\ r.ok]
    BY <1>8, Zenon DEF GrowCopy
  <2>. HIDE DEF r, t, p, e, n, s
  <2>9. /\ waker'.pc = waker.pc /\ waker'.todo = waker.todo
        /\ waker'.table = waker.table /\ waker'.slot = s + 1
        /\ waker'.gen = waker.gen /\ waker'.built = waker.built
        /\ DOMAIN waker' = DOMAIN waker
    BY <1>1, <2>8 DEF WakerOK, s
  <2>10. waker'.fits = TRUE
    <3>1. waker'.fits = (waker.fits /\ r.ok)
      BY <1>1, <2>8 DEF WakerOK
    <3>. QED
      BY <1>1, <2>7, <3>1, Zenon
  <2>11. s + 1 \in 0..total_slots
    BY <1>1, <1>2
  <2>12. WakerOK'
    BY <1>1, <1>3, <2>9, <2>11, SMTT(30) DEF WakerOK
  <2>13. /\ DOMAIN snap' = Gens
         /\ \A g \in Gens : g # n => snap'[g] = snap[g]
         /\ snap'[n] = [snap[n] EXCEPT !.tables = [snap[n].tables EXCEPT ![p] = r.t]]
    BY <1>1, <1>2, <2>8 DEF SnapOK
  <2>14. /\ DOMAIN snap'[n] = {"tables", "frozen", "freed"}
         /\ snap'[n].tables = [snap[n].tables EXCEPT ![p] = r.t]
         /\ snap'[n].frozen = snap[n].frozen /\ snap'[n].freed = snap[n].freed
    BY <1>1, <1>2, <2>13 DEF SnapOK
  <2>15. SnapOK'
    <3>1. ASSUME NEW g \in Gens, g # n
          PROVE  /\ DOMAIN snap'[g] = {"tables", "frozen", "freed"}
                 /\ snap'[g].frozen \in BOOLEAN /\ snap'[g].freed \in BOOLEAN
                 /\ \A q \in DOMAIN snap'[g].tables :
                       q \in Tables(g) /\ TableOK(snap'[g].tables[q], g, q)
      BY <1>1, <2>13, <3>1 DEF SnapOK
    <3>2. \A q \in DOMAIN snap'[n].tables :
             q \in Tables(n) /\ TableOK(snap'[n].tables[q], n, q)
      BY <1>1, <1>2, <2>7, <2>14, Zenon DEF SnapOK
    <3>3. snap'[n].frozen \in BOOLEAN /\ snap'[n].freed \in BOOLEAN
      BY <1>1, <1>2, <2>14, SMTT(30) DEF SnapOK
    <3>. QED
      BY <2>13, <2>14, <3>1, <3>2, <3>3 DEF SnapOK
  <2>16. CurOK'
    BY <1>1, <1>2, <1>3, <2>13 DEF CurOK
  <2>17. CopyOK'
    <3>1. ASSUME NEW q \in Tables(n), NEW i \in SlotIdx, Untouched(q, i)'
          PROVE  IsEmpty(snap'[n].tables[q][i])
      <4>1. Untouched(q, i) /\ (q = p => s + 1 <= i)
        <5>1. i \in Int /\ (s + 1 <= i => s <= i)
          BY <1>2 DEF SlotIdx
        <5>2. \/ table_index(q, current_) \in waker.todo
              \/ table_index(q, current_) = waker.table /\ s + 1 <= i
          BY <1>1, <1>3, <2>9, <3>1, SMTT(30) DEF Untouched
        <5>3. Untouched(q, i)
          BY <1>1, <5>1, <5>2, SMTT(30) DEF Untouched, s
        <5>4. q = p => s + 1 <= i
          BY <1>5, <2>2, <5>2, SMTT(30)
        <5>. QED
          BY <5>3, <5>4
      <4>2. CASE q = p
        BY <2>4, <2>7, <2>14, <4>1, <4>2, SMTT(30)
      <4>3. CASE q # p
        BY <1>1, <2>4, <2>14, <3>1, <4>1, <4>3, SMTT(30) DEF CopyOK, n
      <4>. QED
        BY <4>2, <4>3
    <3>2. DOMAIN snap'[n].tables = Tables(n)
      BY <2>4, <2>14, SMTT(30)
    <3>. QED
      BY <1>3, <3>1, <3>2, SMTT(30) DEF CopyOK, n
  <2>. QED
    BY <1>1, <1>4, <2>10, <2>12, <2>15, <2>16, <2>17 DEF GrowInv
<1>. QED
  BY <1>7, <1>8, SMTT(30)

\* The publication, and what grow() and the RCU callback do after it.
LEMMA EndSteps ==
    ASSUME IInv,
           \/ GrowPublish \/ GrowNotify \/ SegmentFreed
           \/ \E g \in Gens : FreeSnapshot(g)
    PROVE  GrowInv'
<1>1. /\ GrowInv /\ SnapOK /\ CurOK /\ ClientsOK /\ ScalarsOK /\ WakerOK /\ CopyOK
      /\ waker.fits = TRUE
  BY DEF IInv, GrowInv
<1>2. current_ \in Gens /\ current_ \in Nat /\ Gens \subseteq Nat
  BY <1>1, BitsNat, SMTT(30) DEF CurOK, Gens
<1>3. ASSUME GrowPublish PROVE GrowInv'
  <2>1. /\ current_' = current_ + 1
        /\ UNCHANGED <<snap, grace, segs, data, spare, cl, waiters, request,
                       grown_mu_>>
        /\ waker.pc = "table" /\ current_ + 1 \in Gens /\ Copying
    BY <1>1, <1>3 DEF GrowPublish, WakerOK, Copying
  <2>2. waker' = [waker EXCEPT !.pc = "notify", !.built = 0]
    BY <1>3 DEF GrowPublish
  <2>3. SnapOK' /\ ScalarsOK'
    BY <1>1, <2>1, SMTT(30) DEF SnapOK, ScalarsOK
  <2>4. CurOK'
    <3>1. DOMAIN snap[current_ + 1].tables = Tables(current_ + 1)
      BY <1>1, <2>1 DEF CopyOK
    <3>2. ASSUME NEW g \in Gens, grace[g] # {} PROVE g < current_ + 1
      <4>1. g < current_
        BY <1>1, <3>2, SMTT(30) DEF CurOK
      <4>. QED
        BY <1>2, <4>1
    <3>3. DOMAIN grace = Gens
      BY <1>1 DEF CurOK
    <3>. QED
      BY <2>1, <3>1, <3>2, <3>3, SMTT(30) DEF CurOK
  <2>5. ClientsOK'
    <3>1. ASSUME NEW c \in Clients PROVE ClientOK(c, cl[c], current_ + 1)
      <4>1. ClientOK(c, cl[c], current_)
        BY <1>1 DEF ClientsOK
      <4>2. \A g \in 0..current_ : g \in 0..current_ + 1
        BY <1>2
      <4>. QED
        BY <4>1, <4>2, SMTT(30) DEF ClientOK
    <3>2. DOMAIN cl = Clients
      BY <1>1 DEF ClientsOK
    <3>. QED
      BY <2>1, <3>1, <3>2 DEF ClientsOK
  <2>6. WakerOK' /\ waker'.pc = "notify" /\ waker'.fits = waker.fits
    BY <1>1, <2>2 DEF WakerOK
  <2>7. waker'.fits = TRUE
    BY <1>1, <2>6, Zenon
  <2>8. CopyOK'
    BY <2>6, SMTT(30) DEF CopyOK, Copying
  <2>. QED
    BY <2>3, <2>4, <2>5, <2>6, <2>7, <2>8 DEF GrowInv
<1>4. ASSUME GrowNotify PROVE GrowInv'
  <2>1. /\ UNCHANGED <<snap, current_, data, spare, waiters, request, grown_mu_>>
        /\ waker' = Returns(waker, "ok")
        /\ segs' = segs + Cardinality(Tables(current_ - 1))
        /\ grace' = [grace EXCEPT ![current_ - 1] = Open \cup {Nobody}]
    BY <1>4 DEF GrowNotify
  <2>2. WakerOK' /\ waker'.pc = "after" /\ waker'.fits = waker.fits
    BY <1>1, <2>1 DEF WakerOK, Returns
  <2>3. waker'.fits = TRUE
    BY <1>1, <2>2, Zenon
  <2>4. CopyOK'
    BY <2>2, SMTT(30) DEF CopyOK, Copying
  <2>5. SnapOK'
    BY <1>1, <2>1, SMTT(30) DEF SnapOK
  <2>6. CurOK'
    BY <1>1, <1>2, <2>1, SMTT(30) DEF CurOK
  <2>7. ScalarsOK'
    <3>1. table_bits(current_ - 1) \in Int
      BY <1>2, BitsNat DEF table_bits
    <3>2. Cardinality(Tables(current_ - 1)) \in Nat
      BY <3>1, TablesFinite, Zenon DEF Tables
    <3>. QED
      BY <1>1, <2>1, <3>2, SMTT(30) DEF ScalarsOK
  <2>8. ClientsOK'
    <3>1. ASSUME NEW c \in Clients PROVE ClientOK(c, cl'[c], current_)
      <4>1. ClientOK(c, cl[c], current_)
        BY <1>1 DEF ClientsOK
      <4>2. \/ cl'[c] = cl[c]
            \/ cl[c].pc = "asleep" /\ cl'[c] = [cl[c] EXCEPT !.pc = "cv"]
        BY <1>4 DEF GrowNotify
      <4>3. cl[c].pc = "asleep" => ClientOK(c, [cl[c] EXCEPT !.pc = "cv"], current_)
        BY <4>1 DEF ClientOK, RoleOK
      <4>. QED
        BY <4>1, <4>2, <4>3
    <3>2. DOMAIN cl' = Clients
      BY <1>4 DEF GrowNotify
    <3>. QED
      BY <2>1, <3>1, <3>2, SMTT(30) DEF ClientsOK
  <2>. QED
    BY <2>2, <2>3, <2>4, <2>5, <2>6, <2>7, <2>8, Zenon DEF GrowInv
<1>5. ASSUME SegmentFreed PROVE GrowInv'
  <2>1. /\ UNCHANGED <<dirVars, waker, spare, cl, waiters, request, grown_mu_>>
        /\ data > 0 /\ data' = data - 1 /\ segs' = segs + 1
    BY <1>5 DEF SegmentFreed
  <2>2a. ClientsOK' /\ ScalarsOK'
    BY <1>1, <2>1, SMTT(30) DEF ClientsOK, ScalarsOK, dirVars
  <2>2b. SnapOK' /\ CurOK'
    BY <1>1, <2>1, SMTT(30) DEF SnapOK, CurOK, dirVars
  <2>2c. WakerOK'
    BY <1>1, <2>1, SMTT(30) DEF WakerOK, dirVars
  <2>2. ClientsOK' /\ ScalarsOK' /\ SnapOK' /\ CurOK' /\ WakerOK'
    BY <2>2a, <2>2b, <2>2c
  <2>3. CopyOK'
    BY <1>1, <2>1, SMTT(30) DEF CopyOK, Copying, Untouched, dirVars
  <2>4. waker'.fits = TRUE
    BY <1>1, <2>1, Zenon
  <2>. QED
    BY <2>2, <2>3, <2>4 DEF GrowInv
<1>6. ASSUME NEW g \in Gens, FreeSnapshot(g) PROVE GrowInv'
  <2>1. /\ grace[g] # {} /\ grace' = [grace EXCEPT ![g] = {}]
        /\ snap' = [snap EXCEPT ![g] = [NoSnap EXCEPT !.freed = TRUE]]
        /\ UNCHANGED <<current_, growVars, cl, waiters, request, grown_mu_>>
    BY <1>6 DEF FreeSnapshot
  <2>2. g < current_
    BY <1>1, <2>1 DEF CurOK
  <2>3. /\ DOMAIN snap' = Gens
        /\ \A h \in Gens : h # g => snap'[h] = snap[h]
        /\ snap'[g] = [NoSnap EXCEPT !.freed = TRUE]
    BY <1>1, <2>1 DEF SnapOK
  <2>4. /\ DOMAIN snap'[g] = {"tables", "frozen", "freed"}
        /\ snap'[g].tables = <<>>
    BY <2>3 DEF NoSnap
  <2>5. snap'[g].frozen \in BOOLEAN /\ snap'[g].freed \in BOOLEAN
    BY <2>3 DEF NoSnap
  <2>6. SnapOK'
    <3>1. ASSUME NEW h \in Gens, h # g
          PROVE  /\ DOMAIN snap'[h] = {"tables", "frozen", "freed"}
                 /\ snap'[h].frozen \in BOOLEAN /\ snap'[h].freed \in BOOLEAN
                 /\ \A q \in DOMAIN snap'[h].tables :
                       q \in Tables(h) /\ TableOK(snap'[h].tables[q], h, q)
      BY <1>1, <2>3, <3>1 DEF SnapOK
    <3>2. \A q \in DOMAIN snap'[g].tables :
             q \in Tables(g) /\ TableOK(snap'[g].tables[q], g, q)
      BY <2>4, SMTT(30)
    <3>3. ASSUME NEW h \in Gens
          PROVE  /\ DOMAIN snap'[h] = {"tables", "frozen", "freed"}
                 /\ snap'[h].frozen \in BOOLEAN /\ snap'[h].freed \in BOOLEAN
                 /\ \A q \in DOMAIN snap'[h].tables :
                       q \in Tables(h) /\ TableOK(snap'[h].tables[q], h, q)
      BY <2>4, <2>5, <3>1, <3>2, Zenon
    <3>. QED
      BY <2>3, <3>3 DEF SnapOK
  <2>7. CurOK'
    BY <1>1, <1>2, <2>1, <2>2, <2>3 DEF CurOK
  <2>8. ClientsOK' /\ ScalarsOK' /\ WakerOK'
    BY <1>1, <2>1 DEF ClientsOK, ScalarsOK, WakerOK, growVars
  <2>9. CopyOK'
    <3>1. Copying => current_ + 1 \in Gens /\ g # current_ + 1
      BY <1>1, <1>2, <2>2, SMTT(30) DEF WakerOK, Copying
    <3>2. Copying => snap'[current_ + 1] = snap[current_ + 1]
      BY <2>3, <3>1
    <3>. QED
      BY <1>1, <2>1, <3>2, Zenon DEF CopyOK, Copying, Untouched, growVars
  <2>10. waker'.fits = TRUE
    BY <1>1, <2>1, Zenon DEF growVars
  <2>. QED
    BY <2>6, <2>7, <2>8, <2>9, <2>10 DEF GrowInv
<1>. QED
  BY <1>3, <1>4, <1>5, <1>6

\* A step of a client that does not wait keeps the queue what it is.
LEMMA WaitFrame ==
    ASSUME IInv, NEW c \in Clients, cl[c].pc # "wait", waiters' = waiters,
           \A x \in Clients : x # c => cl'[x].pc = cl[x].pc
    PROVE  WaitOK'
<1>1. waiters \subseteq Clients
  BY SMTT(30) DEF IInv, GrowInv, ScalarsOK, Clients
<1>. QED
  BY <1>1 DEF IInv, WaitOK

LEMMA ClientsHavePc ==
    ASSUME IInv
    PROVE  DOMAIN cl = Clients /\ \A x \in Clients : "pc" \in DOMAIN cl[x]
<1>1. ClientsOK
  BY Zenon DEF IInv, GrowInv
<1>2. ASSUME NEW x \in Clients PROVE "pc" \in DOMAIN cl[x]
  <2>1. ClientOK(x, cl[x], current_)
    BY <1>1, Zenon DEF ClientsOK
  <2>. QED
    BY <2>1, Zenon DEF ClientOK
<1>. QED
  BY <1>1, <1>2, Zenon DEF ClientsOK

\* Queueing for the waker.
LEMMA WaitQueued ==
    ASSUME IInv, NEW c \in Clients, SpaceWait(c)
    PROVE  WaitOK'
<1>1. waiters \subseteq Clients /\ WaitOK
  BY SMTT(30) DEF IInv, GrowInv, ScalarsOK, Clients
<1>2. DOMAIN cl = Clients /\ "pc" \in DOMAIN cl[c]
  BY ClientsHavePc
<1>3. cl' = [cl EXCEPT ![c].pc = "wait"] /\ waiters' = waiters \cup {c}
  BY Zenon DEF SpaceWait
<1>4. \A x \in Clients : x # c => cl'[x] = cl[x]
  BY <1>2, <1>3
<1>5. cl'[c].pc = "wait"
  BY <1>2, <1>3
<1>. QED
  BY <1>1, <1>3, <1>4, <1>5 DEF WaitOK

\* The steps of the clients.
LEMMA ClientWaitStep ==
    ASSUME IInv, NEW c \in Clients,
           StartWrite(c) \/ StartGc(c) \/ StartGet(c) \/ Write(c) \/ Get(c)
    PROVE  WaitOK'
<1>1. DOMAIN cl = Clients /\ \A x \in Clients : "pc" \in DOMAIN cl[x]
  BY ClientsHavePc
<1>2. CASE StartWrite(c) \/ StartGc(c) \/ StartGet(c)
  BY <1>1, <1>2, WaitFrame, Zenon DEF StartWrite, StartGc, StartGet
<1>3. CASE LoadSnapshot(c) \/ LockStripe(c) \/ NotFrozen(c) \/ WriteInsert(c)
  BY <1>1, <1>3, WaitFrame DEF LoadSnapshot, LockStripe, NotFrozen, WriteInsert
<1>4. CASE WriteNothing(c) \/ InsertMove(c) \/ CvSleep(c)
  BY <1>1, <1>4, WaitFrame, SMTT(30) DEF WriteNothing, InsertMove, CvSleep
<1>5. CASE CvCheck(c)
  BY <1>1, <1>5, WaitFrame DEF CvCheck
<1>6. CASE Get(c)
  BY <1>1, <1>6, WaitFrame, Zenon DEF Get, GetLoad, GetScan, GetVerify, EndGet
<1>7. ASSUME NEW t, NEW v, Commit(c, t, v), cl[c].pc # "wait" PROVE WaitOK'
  <2>1. waiters' = waiters
    BY <1>7, SMTT(30) DEF Commit
  <2>2. \A x \in Clients : x # c => cl'[x].pc = cl[x].pc
    BY <1>1, <1>7 DEF Commit
  <2>. QED
    BY <1>7, <2>1, <2>2, WaitFrame, Zenon
<1>8. CASE WriteEntry(c) \/ InsertStore(c)
  BY <1>7, <1>8, SMTT(30) DEF WriteEntry, InsertStore
<1>9. CASE Frozen(c) \/ InsertFull(c)
  <2>1. cl[c].pc # "wait" /\ waiters' = waiters
    BY <1>9, Zenon DEF Frozen, InsertFull
  <2>2. \A x \in Clients : x # c => cl'[x] = cl[x]
    BY <1>1, <1>9, Zenon DEF Frozen, InsertFull
  <2>. QED
    BY <2>1, <2>2, WaitFrame, Zenon
<1>10. CASE SpaceWait(c)
  BY <1>10, WaitQueued
<1>. QED
  BY <1>2, <1>3, <1>4, <1>5, <1>6, <1>8, <1>9, <1>10, SMTT(30) DEF Write

\* The steps of the waker and of the callbacks.
LEMMA WakerWaitStep ==
    ASSUME IInv, Waker \/ SegmentFreed \/ \E g \in Gens : FreeSnapshot(g)
    PROVE  WaitOK'
<1>1. WaitOK /\ waiters \subseteq Clients
  BY SMTT(30) DEF IInv, GrowInv, ScalarsOK, Clients
<1>2. CASE WakerResume \/ WakerAfter
  BY <1>2, Zenon DEF WakerResume, WakerAfter, ResumeWaiters, WaitOK
<1>3. CASE GrowNotify
  BY <1>1, <1>3 DEF GrowNotify, WaitOK
<1>4. CASE UNCHANGED <<cl, waiters>>
  BY <1>1, <1>4 DEF WaitOK
<1>5. CASE WakerTick \/ WakerTake \/ GrowBegin \/ GrowTable \/ GrowAgain \/ GrowFails
  BY <1>4, <1>5
     DEF WakerTick, WakerTake, GrowBegin, GrowTable, GrowAgain, GrowFails
<1>6. CASE GrowFreeze \/ GrowSynced \/ GrowNextTable \/ GrowTableDone \/ GrowPublish
  BY <1>4, <1>6, Zenon
     DEF GrowFreeze, GrowSynced, GrowNextTable, GrowTableDone, GrowPublish
<1>7. CASE GrowCopy
  BY <1>4, <1>7, Zenon DEF GrowCopy
<1>8. CASE SegmentFreed \/ \E g \in Gens : FreeSnapshot(g)
  BY <1>4, <1>8 DEF SegmentFreed, FreeSnapshot
<1>. QED
  BY <1>2, <1>3, <1>5, <1>6, <1>7, <1>8 DEF Waker

\* Every step keeps the invariant.
LEMMA NextInv == IInv /\ [Next]_vars => IInv'
<1>. SUFFICES ASSUME IInv, [Next]_vars PROVE IInv'
  OBVIOUS
<1>1. GrowInv
  BY DEF IInv
<1>2. ASSUME NEW c \in Clients,
             StartWrite(c) \/ StartGc(c) \/ StartGet(c) \/ Write(c) \/ Get(c)
      PROVE  IInv'
  <2>1. GrowInv'
    BY <1>1, <1>2, StartSteps, QuietSteps, QueueStep, LeaveSteps, WriteSteps,
       SMTT(30) DEF Write, Get
  <2>. QED
    BY <1>2, <2>1, ClientWaitStep DEF IInv
<1>3. ASSUME Waker \/ SegmentFreed \/ \E g \in Gens : FreeSnapshot(g) PROVE IInv'
  <2>1. GrowInv'
    BY <1>3, IdleSteps, BuildSteps, FreezeStep, TableSteps, CopyStep, EndSteps
       DEF Waker
  <2>. QED
    BY <1>3, <2>1, WakerWaitStep DEF IInv
<1>4. CASE UNCHANGED vars
  <2>1. UNCHANGED <<snap, current_, grace, waker, segs, data, spare, cl, waiters,
                    request, grown_mu_>>
    BY <1>4 DEF vars, dirVars, growVars
  <2>2. SnapOK' /\ CurOK' /\ ClientsOK' /\ ScalarsOK' /\ WakerOK' /\ CopyOK'
    BY <1>1, <2>1, Zenon
       DEF GrowInv, SnapOK, CurOK, ClientsOK, ScalarsOK, WakerOK, CopyOK, Copying,
           Untouched
  <2>3. waker'.fits = TRUE
    BY <1>1, <2>1, Zenon DEF GrowInv
  <2>4. WaitOK'
    BY <2>1, SMTT(30) DEF IInv, WaitOK
  <2>. QED
    BY <2>2, <2>3, <2>4 DEF IInv, GrowInv
<1>. QED
  BY <1>2, <1>3, <1>4 DEF Next

LEMMA InvTypeOK == IInv => TypeOK
<1>. SUFFICES ASSUME IInv PROVE TypeOK
  OBVIOUS
<1>1. SnapOK /\ CurOK /\ ClientsOK /\ ScalarsOK /\ WakerOK /\ CopyOK
  BY DEF IInv, GrowInv
<1>2. current_ \in Gens /\ 0..current_ \subseteq Gens
  BY <1>1, BitsNat, SMTT(30) DEF CurOK, Gens
<1>3. ASSUME NEW g \in Gens, g = current_ \/ (Copying /\ g = current_ + 1)
      PROVE  /\ DOMAIN snap[g].tables = Tables(g)
             /\ \A p \in Tables(g) : TableOK(snap[g].tables[p], g, p)
  <2>1. DOMAIN snap[g].tables = Tables(g)
    BY <1>1, <1>3, SMTT(30) DEF CurOK, CopyOK
  <2>. QED
    BY <1>1, <2>1, SMTT(30) DEF SnapOK
<1>4. \A g \in Gens : snap[g].frozen \in BOOLEAN /\ snap[g].freed \in BOOLEAN
  BY <1>1 DEF SnapOK
<1>5. \A c \in Clients :
          /\ cl[c].pc \in {"idle", "load", "lock", "check", "write", "reach",
                           "queue", "wait", "cv", "sleep", "asleep", "get", "scan",
                           "verify", "done"}
          /\ cl[c].snap \in Gens /\ cl[c].free \in SlotIdx
          /\ cl[c].sec \in BOOLEAN
  BY <1>1, <1>2, SMTT(30) DEF ClientsOK, ClientOK
<1>. QED
  BY <1>1, <1>2, <1>3, <1>4, <1>5, Zenon DEF TypeOK, ScalarsOK, WakerOK

\* Whatever the keys, their tags, the tables the store was opened with and the
\* interleaving of writers, gets, collector and waker: every published snapshot
\* has all its tables, and every entry of a table is within kHopRange of the home
\* bucket of its tag, in the table its tag selects.
THEOREM TypeCorrect == Spec => []TypeOK
<1>1. Init => IInv
  BY InitInv
<1>2. IInv /\ [Next]_vars => IInv'
  BY NextInv
<1>3. IInv => TypeOK
  BY InvTypeOK
<1>. QED
  BY <1>1, <1>2, <1>3, PTL DEF Spec

\* grow()'s "the copy always fits" (the assert behind its insert): no insert into
\* a new table fails, because a new table is filled bottom up from one old table,
\* so the slot an entry came from, or one below it, is free when it is copied.
THEOREM CopyAlwaysFits == Spec => []CopyFits
<1>1. Init => IInv
  BY InitInv
<1>2. IInv /\ [Next]_vars => IInv'
  BY NextInv
<1>3. IInv => CopyFits
  BY Zenon DEF IInv, GrowInv, CopyFits
<1>. QED
  BY <1>1, <1>2, <1>3, PTL DEF Spec
-----------------------------------------------------------------------------
\* Only GrowBegin lets a grow start, and only a grow that was started publishes.
LEMMA OnceStep == IInv /\ GrowsOnce /\ [Next]_vars => GrowsOnce'
<1>. SUFFICES ASSUME IInv, GrowsOnce, [Next]_vars PROVE GrowsOnce'
  OBVIOUS
<1>. DEFINE G == {"tables", "sync", "table", "copy"}
<1>1. {"pc", "gen", "rc", "built", "waits", "todo", "table", "slot", "fits"} = DOMAIN waker
  BY Zenon DEF IInv, GrowInv, WakerOK
<1>2. CASE waker'.pc \notin G
  BY <1>2 DEF GrowsOnce, Copying
<1>3. CASE UNCHANGED current_ /\ waker'.gen = waker.gen /\ (waker'.pc \in G => waker.pc \in G)
  BY <1>3 DEF GrowsOnce, Copying
<1>4. CASE UNCHANGED <<current_, waker>>
  BY <1>3, <1>4
<1>5. ASSUME NEW c, Leave({c}), UNCHANGED current_ PROVE GrowsOnce'
  <2>1. waker'.gen = waker.gen /\ waker'.pc = waker.pc
    BY <1>1, <1>5 DEF Leave
  <2>. QED
    BY <1>3, <1>5, <2>1
<1>6. ASSUME NEW c \in Clients,
             StartWrite(c) \/ StartGc(c) \/ StartGet(c) \/ Write(c) \/ Get(c)
      PROVE  GrowsOnce'
  <2>1. CASE StartWrite(c) \/ StartGc(c) \/ StartGet(c)
    BY <1>4, <2>1, Zenon DEF StartWrite, StartGc, StartGet, dirVars, growVars
  <2>2. CASE \/ LoadSnapshot(c) \/ LockStripe(c) \/ NotFrozen(c) \/ WriteInsert(c)
             \/ CvCheck(c) \/ CvSleep(c) \/ SpaceWait(c)
    BY <1>4, <2>2, Zenon DEF LoadSnapshot, LockStripe, NotFrozen, WriteInsert, CvCheck,
         CvSleep, SpaceWait, dirVars, growVars
  <2>3. CASE GetLoad(c) \/ GetScan(c) \/ GetVerify(c) \/ InsertMove(c)
    BY <1>4, <2>3, Zenon DEF GetLoad, GetScan, GetVerify, InsertMove, dirVars, growVars
  <2>4. CASE Frozen(c) \/ WriteNothing(c) \/ InsertFull(c) \/ EndGet(c)
    BY <1>5, <2>4, Zenon DEF Frozen, WriteNothing, InsertFull, EndGet
  <2>5. CASE WriteEntry(c) \/ InsertStore(c)
    BY <1>5, <2>5, Zenon DEF WriteEntry, InsertStore, Commit
  <2>. QED
    BY <1>6, <2>1, <2>2, <2>3, <2>4, <2>5, Zenon DEF Write, Get
<1>7. CASE GrowBegin
  <2>1. CASE waker.gen = current_
    BY <1>1, <1>7, <2>1 DEF GrowBegin, Returns, GrowsOnce, dirVars
  <2>2. CASE waker.gen # current_
    BY <1>1, <1>2, <1>7, <2>2 DEF GrowBegin, Returns
  <2>. QED
    BY <2>1, <2>2
<1>8. CASE WakerTick \/ WakerResume \/ WakerTake \/ WakerAfter
  <2>1. WakerTick => waker'.pc = "tick"
    BY <1>1 DEF WakerTick
  <2>2. NoGrow.pc = "idle" /\ "pc" \in DOMAIN NoGrow /\ "gen" \in DOMAIN NoGrow
    BY DEF NoGrow
  <2>3. [NoGrow EXCEPT !.pc = "begin", !.gen = request].pc = "begin"
    BY <2>2
  <2>4. WakerTake => waker'.pc = "begin"
    BY <2>3, Zenon DEF WakerTake
  <2>5. WakerResume \/ WakerAfter => waker'.pc = "idle"
    BY <2>2, Zenon DEF WakerResume, WakerAfter
  <2>. QED
    BY <1>2, <1>8, <2>1, <2>4, <2>5
<1>9. CASE GrowAgain \/ GrowFails \/ GrowPublish \/ GrowNotify
  BY <1>1, <1>2, <1>9 DEF GrowAgain, GrowFails, GrowPublish, GrowNotify, Returns
<1>10. CASE GrowTable \/ GrowFreeze \/ GrowSynced
  BY <1>1, <1>3, <1>10 DEF GrowTable, GrowFreeze, GrowSynced, dirVars
<1>11. CASE GrowNextTable \/ GrowTableDone
  BY <1>1, <1>3, <1>11 DEF GrowNextTable, GrowTableDone, dirVars
<1>12. CASE GrowCopy
  <2>1. \/ waker' = [waker EXCEPT !.slot = @ + 1]
        \/ \E b : waker' = [waker EXCEPT !.slot = @ + 1, !.fits = b]
    BY <1>12, Zenon DEF GrowCopy
  <2>2. UNCHANGED current_
    BY <1>12, Zenon DEF GrowCopy
  <2>. QED
    BY <1>1, <1>3, <2>1, <2>2
<1>13. CASE SegmentFreed \/ \E g \in Gens : FreeSnapshot(g)
  BY <1>4, <1>13, Zenon DEF SegmentFreed, FreeSnapshot, dirVars, growVars
<1>14. CASE UNCHANGED vars
  BY <1>4, <1>14, Zenon DEF vars, dirVars, growVars
<1>. QED
  BY <1>6, <1>7, <1>8, <1>9, <1>10, <1>11, <1>12, <1>13, <1>14, Zenon DEF Next, Waker

\* However many writers find a table full, and however late they queue behind a
\* grow that is over: the directory is grown for a generation only while that is
\* the current one.
THEOREM GrowsOnlyOnce == Spec => []GrowsOnce
<1>1. Init => IInv /\ GrowsOnce
  BY InitInv, NoGrowOK DEF Init, GrowsOnce, Copying
<1>2. IInv /\ GrowsOnce /\ [Next]_vars => IInv' /\ GrowsOnce'
  BY NextInv, OnceStep
<1>. QED
  BY <1>1, <1>2, PTL DEF Spec
=============================================================================
