----------------------------- MODULE Directory -----------------------------
(***************************************************************************)
(* The directory of hash tables (src/src/udepot/directory.h, directory.cc) *)
(* and the protocol by which store.cc grows it: a write that finds its     *)
(* table full leaves its read section, then asks the space waker thread    *)
(* for a grow; one that finds the snapshot frozen leaves and waits. grow() *)
(* takes index segments for twice the tables, freezes the snapshot, waits  *)
(* for a grace period, copies slot by slot and publishes.                  *)
(*                                                                         *)
(* A snapshot is named by its generation.  Its tables are named by the top *)
(* bits of the tags they hold, so a tag is the sequence of its bits.       *)
(* Writes to one table are atomic here (HashTable shows what that takes);  *)
(* a table this small has one stripe.  A pba is a record <<key, n>>.       *)
(***************************************************************************)
EXTENDS HashTableOps, Sequences, FiniteSets

CONSTANTS Keys, HomeOf, TagOf,
          Writers,          \* operations run as coroutines: put, del
          Getters,          \* gets
          GcThread,         \* the garbage collector, which may block
          kMaxTableBits,    \* the tag's width
          InitBits,         \* table_bits of the directory open() made
          Restored,         \* and its tables
          FreeSegs,         \* segments free at the start
          DataSegs,         \* segments garbage collection can still free
          MaxWrites, MaxGets, MaxGc     \* bounds

Tags == [1..kMaxTableBits -> {0, 1}]
Gens == 0..kMaxTableBits - InitBits
None == kMaxTableBits + 1

\* Every grow doubles the tables.
table_bits(g) == InitBits + g
Tables(g) == [1..table_bits(g) -> {0, 1}]

\* table_index() in snapshot g: the top bits of the tag.
table_index(tag, g) == [i \in 1..table_bits(g) |-> tag[i]]

\* Slot i of a table of snapshot g named p: empty, or an entry in the
\* neighbourhood of its home bucket whose tag belongs in the table.
SlotOK(e, i, g, p) ==
    IsEmpty(e) \/ /\ e.off \in Nat /\ e.off < kHopRange /\ e.off <= i
                  /\ i - e.off < num_buckets
                  /\ e.tag \in Tags
                  /\ table_index(e.tag, g) = p

TableOK(t, g, p) == /\ DOMAIN t = SlotIdx
                    /\ \A i \in SlotIdx : SlotOK(t[i], i, g, p)

ASSUME DirectoryAssumption ==
    /\ kMaxTableBits \in Nat /\ InitBits \in 0..kMaxTableBits
    /\ HomeOf \in [Keys -> Buckets]
    /\ TagOf \in [Keys -> Tags]
    /\ DOMAIN Restored = Tables(0)
    /\ \A p \in Tables(0) : TableOK(Restored[p], 0, p)
    /\ FreeSegs \in Nat /\ DataSegs \in Nat
    /\ GcThread \notin Writers \cup Getters /\ Writers \cap Getters = {}
    /\ MaxWrites \in Nat /\ MaxGets \in Nat /\ MaxGc \in Nat

VARIABLES
    snap,           \* snap[g]: the snapshot of generation g
    current_,       \* the generation of the published one
    cl,             \* the clients: writers, getters and the GC thread
    held,           \* stripe locks: [snap, table, by]
    waiters,        \* space_waiters_
    request,        \* grow_request_, or None
    waker,          \* the space waker, in grow() or not
    segs,           \* free segments
    data,           \* segments garbage collection can still free
    spare,          \* spare_: tables kept from an earlier attempt
    grown_mu_,      \* its holder, or Nobody
    grace,          \* per snapshot handed to Rcu::call(), who it waits for
    val,            \* history: per key, its committed [pba, size]
    ops             \* bound: operations started, by kind

dirVars == <<snap, current_, grace>>
growVars == <<waker, segs, data, spare>>
vars == <<dirVars, growVars, cl, held, waiters, request, grown_mu_, val, ops>>

Absent == kUnusedPba
Nobody == "nobody"
Clients == Writers \cup Getters \cup {GcThread}
\* What a get answers for a key whose entry is v.
NoVal == [pba |-> Absent, size |-> 0]
Answer(v) == IF v.size = 0 THEN Absent ELSE v.pba

NoSnap == [tables |-> <<>>, frozen |-> FALSE, freed |-> FALSE]
NoClient == [pc |-> "idle", key |-> Absent, op |-> "none", sec |-> FALSE,
             snap |-> 0, pba |-> Absent, start |-> 0, cur |-> Absent,
             free |-> 0, grow |-> None, win |-> {}, res |-> Absent]
NoGrow == [pc |-> "idle", gen |-> None, rc |-> "ok", built |-> 0, waits |-> {},
           todo |-> {}, table |-> <<>>, slot |-> 0, fits |-> TRUE]

\* The slots of table t that hold key k.
Own(t, k) == {i \in Neighbourhood(HomeOf[k]) :
                Matches(t, HomeOf[k], TagOf[k], i) /\ t[i].pba[1] = k}

RestoredVal(k) ==
    LET t == Restored[table_index(TagOf[k], 0)]
        own == Own(t, k)
    IN  IF own = {} THEN NoVal
        ELSE [pba |-> t[Min(own)].pba, size |-> t[Min(own)].size]

Init ==
    /\ snap = [g \in Gens |-> IF g = 0
                 THEN [NoSnap EXCEPT !.tables = Restored]
                 ELSE NoSnap]
    /\ current_ = 0
    /\ cl = [c \in Clients |-> NoClient]
    /\ held = {}
    /\ waiters = {}
    /\ request = None
    /\ waker = NoGrow
    /\ segs = FreeSegs /\ data = DataSegs /\ spare = 0
    /\ grown_mu_ = Nobody
    /\ grace = [g \in Gens |-> {}]
    /\ val = [k \in Keys |-> RestoredVal(k)]
    /\ ops = [write |-> 0, get |-> 0, gc |-> 0]
-----------------------------------------------------------------------------
(* Read sections.                                                          *)

Open == {c \in Clients : cl[c].sec}

\* Sections that end release the grow and the callbacks that wait for them.
Leave(S) ==
    /\ grace' = [g \in Gens |-> grace[g] \ S]
    /\ waker' = [waker EXCEPT !.waits = @ \ S]

TableOf(c) == table_index(TagOf[cl[c].key], cl[c].snap)
Table(c) == snap[cl[c].snap].tables[TableOf(c)]

-----------------------------------------------------------------------------
(* Writes: put and del as far as the directory sees them, and the GC       *)
(* thread's with_table_blocking().                                         *)

StartWrite(c) ==
    /\ c \in Writers /\ cl[c].pc = "idle"
    /\ ops.write < MaxWrites
    /\ ops' = [ops EXCEPT !.write = @ + 1]
    /\ \E k \in Keys, op \in {"put", "del"} :
          cl' = [cl EXCEPT ![c] = [NoClient EXCEPT !.pc = "load", !.key = k,
                    !.op = op, !.sec = TRUE, !.pba = <<k, ops.write + 1>>]]
    /\ UNCHANGED <<dirVars, growVars, held, waiters, request, grown_mu_, val>>

\* gc_record(): the entry of some record is repointed, or a tombstone's dropped.
StartGc(c) ==
    /\ c = GcThread /\ cl[c].pc = "idle"
    /\ ops.gc < MaxGc
    /\ ops' = [ops EXCEPT !.gc = @ + 1]
    /\ \E k \in Keys, op \in {"move", "drop"} :
          cl' = [cl EXCEPT ![c] = [NoClient EXCEPT !.pc = "load", !.key = k,
                    !.op = op, !.sec = TRUE,
                    !.pba = <<k, MaxWrites + ops.gc + 1>>]]
    /\ UNCHANGED <<dirVars, growVars, held, waiters, request, grown_mu_, val>>

\* lock_for(): the current snapshot, the stripe of the table, the frozen flag.
LoadSnapshot(c) ==
    /\ cl[c].pc = "load"
    /\ cl' = [cl EXCEPT ![c].snap = current_, ![c].pc = "lock"]
    /\ UNCHANGED <<dirVars, growVars, held, waiters, request, grown_mu_, val,
                   ops>>

LockStripe(c) ==
    /\ cl[c].pc = "lock"
    /\ \A h \in held : h.snap # cl[c].snap \/ h.table # TableOf(c)
    /\ held' = held \cup {[snap |-> cl[c].snap, table |-> TableOf(c), by |-> c]}
    /\ cl' = [cl EXCEPT ![c].pc = "check"]
    /\ UNCHANGED <<dirVars, growVars, waiters, request, grown_mu_, val, ops>>

NotFrozen(c) ==
    /\ cl[c].pc = "check"
    /\ ~snap[cl[c].snap].frozen
    /\ cl' = [cl EXCEPT ![c].pc = "write"]
    /\ UNCHANGED <<dirVars, growVars, held, waiters, request, grown_mu_, val,
                   ops>>

Unlock(c) == held' = {h \in held : h.by # c}

\* A frozen snapshot: unlock, leave the section, then wait.  The GC thread waits in
\* Directory::wait_for_grow(), an operation in the store's.
Frozen(c) ==
    /\ cl[c].pc = "check"
    /\ snap[cl[c].snap].frozen
    /\ Unlock(c) /\ Leave({c})
    /\ cl' = [cl EXCEPT ![c].pc = IF c = GcThread THEN "cv" ELSE "queue",
                        ![c].sec = FALSE]
    /\ UNCHANGED <<snap, current_, segs, data, spare, waiters, request, grown_mu_,
                   val, ops>>

\* SpaceWait::await_suspend(), out of the section: queue up, and ask for the grow of
\* the generation whose table was full, if one was.  That grow may be over by now.
SpaceWait(c) ==
    /\ cl[c].pc = "queue"
    /\ cl' = [cl EXCEPT ![c].pc = "wait"]
    /\ waiters' = waiters \cup {c}
    /\ request' = IF cl[c].grow = None THEN request
                  ELSE IF request = None THEN cl[c].grow
                  ELSE Max({request, cl[c].grow})
    /\ UNCHANGED <<dirVars, growVars, held, grown_mu_, val, ops>>

\* Ends the operation: its table is then t, its key's entry v.
Commit(c, t, v) ==
    /\ snap' = [snap EXCEPT ![cl[c].snap].tables[TableOf(c)] = t]
    /\ val' = [val EXCEPT ![cl[c].key] = v]
    /\ cl' = [x \in Clients |->
                IF x = c THEN NoClient
                ELSE IF cl[x].key = cl[c].key
                     THEN [cl[x] EXCEPT !.win = @ \cup {Answer(v)}] ELSE cl[x]]
    /\ Unlock(c) /\ Leave({c})
    /\ UNCHANGED <<current_, segs, data, spare, waiters, request, grown_mu_,
                   ops>>

\* The key's own entry, under the lock: a put updates it, a delete makes it a
\* deleted entry, the collector repoints it or drops a deleted one.
OwnEntry(c) == LET own == Own(Table(c), cl[c].key)
               IN  IF own = {} THEN Empty ELSE Table(c)[Min(own)]
Applies(c) == LET e == OwnEntry(c)
              IN  /\ ~IsEmpty(e)
                  /\ cl[c].op = "del" => ~IsDeleted(e)
                  /\ cl[c].op = "drop" => IsDeleted(e)

WriteEntry(c) ==
    /\ cl[c].pc = "write"
    /\ Applies(c)
    /\ LET k == cl[c].key
           e == OwnEntry(c)
           size == CASE cl[c].op = "put" -> 1
                     [] cl[c].op = "del" -> 0
                     [] OTHER -> e.size
       IN  IF cl[c].op = "drop"
           THEN Commit(c, remove_locked(Table(c), HomeOf[k], TagOf[k], e.pba), NoVal)
           ELSE Commit(c, update_locked(Table(c), HomeOf[k], TagOf[k], e.pba, size,
                                        cl[c].pba),
                       [pba |-> cl[c].pba, size |-> size])

\* Nothing to delete, to move or to drop.
WriteNothing(c) ==
    /\ cl[c].pc = "write" /\ cl[c].op # "put"
    /\ ~Applies(c)
    /\ cl' = [cl EXCEPT ![c] = NoClient]
    /\ Unlock(c) /\ Leave({c})
    /\ UNCHANGED <<snap, current_, segs, data, spare, waiters, request,
                   grown_mu_, val, ops>>

\* insert_locked() for a put of a new key: the free slot.
WriteInsert(c) ==
    /\ cl[c].pc = "write" /\ cl[c].op = "put"
    /\ ~Applies(c)
    /\ find_free_slot(Table(c), HomeOf[cl[c].key]) < total_slots
    /\ cl' = [cl EXCEPT ![c].pc = "reach",
                 ![c].free = find_free_slot(Table(c), HomeOf[cl[c].key])]
    /\ UNCHANGED <<dirVars, growVars, held, waiters, request, grown_mu_, val,
                   ops>>

\* Mutant: the neighbourhood is one slot longer.
InReach_OffByOne(c) == cl[c].free <= HomeOf[cl[c].key] + kHopRange

InReach(c) == cl[c].free < HomeOf[cl[c].key] + kHopRange

InsertMove(c) ==
    /\ cl[c].pc = "reach" /\ ~InReach(c)
    /\ LET m == Movable(Table(c), cl[c].free)
       IN  /\ m # {}
           /\ snap' = [snap EXCEPT ![cl[c].snap].tables[TableOf(c)] =
                   [Table(c) EXCEPT
                       ![cl[c].free] = Moved(Table(c), Min(m), cl[c].free),
                       ![Min(m)] = Empty]]
           /\ cl' = [cl EXCEPT ![c].free = Min(m)]
    /\ UNCHANGED <<current_, grace, growVars, held, waiters, request,
                   grown_mu_, val, ops>>

InsertStore(c) ==
    /\ cl[c].pc = "reach" /\ InReach(c)
    /\ Commit(c, [Table(c) EXCEPT ![cl[c].free] =
                     Entry(cl[c].free - HomeOf[cl[c].key], TagOf[cl[c].key], 1,
                           cl[c].pba)],
              [pba |-> cl[c].pba, size |-> 1])

\* The table is full: leave, to ask for a grow, or -ENOSPC at the most tables there
\* can be.
InsertFull(c) ==
    /\ \/ /\ cl[c].pc = "write" /\ cl[c].op = "put"
          /\ ~Applies(c)
          /\ find_free_slot(Table(c), HomeOf[cl[c].key]) = total_slots
       \/ /\ cl[c].pc = "reach" /\ ~InReach(c)
          /\ Movable(Table(c), cl[c].free) = {}
    /\ cl' = [cl EXCEPT ![c] =
                IF table_bits(cl[c].snap) >= kMaxTableBits THEN NoClient
                ELSE [@ EXCEPT !.pc = "queue", !.sec = FALSE, !.grow = cl[c].snap]]
    /\ Unlock(c) /\ Leave({c})
    /\ UNCHANGED <<snap, current_, segs, data, spare, waiters, request, grown_mu_,
                   val, ops>>

\* Directory::wait_for_grow(): the predicate is evaluated under grown_mu_.
CvCheck(c) ==
    /\ cl[c].pc = "cv" /\ grown_mu_ = Nobody
    /\ IF current_ # cl[c].snap
       THEN /\ cl' = [cl EXCEPT ![c].pc = "load", ![c].sec = TRUE]
            /\ UNCHANGED grown_mu_
       ELSE /\ cl' = [cl EXCEPT ![c].pc = "sleep"]
            /\ grown_mu_' = c
    /\ UNCHANGED <<dirVars, growVars, held, waiters, request, val, ops>>

CvSleep(c) ==
    /\ cl[c].pc = "sleep" /\ grown_mu_ = c
    /\ cl' = [cl EXCEPT ![c].pc = "asleep"]
    /\ grown_mu_' = Nobody
    /\ UNCHANGED <<dirVars, growVars, held, waiters, request, val, ops>>

Write(c) ==
    \/ LoadSnapshot(c) \/ LockStripe(c) \/ NotFrozen(c) \/ Frozen(c)
    \/ SpaceWait(c)
    \/ WriteEntry(c) \/ WriteNothing(c)
    \/ WriteInsert(c) \/ InsertMove(c) \/ InsertStore(c) \/ InsertFull(c)
    \/ CvCheck(c) \/ CvSleep(c)
-----------------------------------------------------------------------------
(* Gets: Directory::lookup() behind each mismatch, in one read section.    *)

StartGet(c) ==
    /\ c \in Getters /\ cl[c].pc = "idle"
    /\ ops.get < MaxGets
    /\ ops' = [ops EXCEPT !.get = @ + 1]
    /\ \E k \in Keys :
          cl' = [cl EXCEPT ![c] = [NoClient EXCEPT !.pc = "get", !.key = k,
                    !.op = "get", !.sec = TRUE, !.win = {Answer(val[k])}]]
    /\ UNCHANGED <<dirVars, growVars, held, waiters, request, grown_mu_, val>>

GetLoad(c) ==
    /\ cl[c].pc = "get"
    /\ cl' = [cl EXCEPT ![c].snap = current_, ![c].pc = "scan"]
    /\ UNCHANGED <<dirVars, growVars, held, waiters, request, grown_mu_, val,
                   ops>>

GetScan(c) ==
    /\ cl[c].pc = "scan"
    /\ LET k == cl[c].key
           i == lookup(Table(c), HomeOf[k], TagOf[k], cl[c].start, FALSE)
       IN  cl' = [cl EXCEPT ![c] =
                IF i = total_slots THEN [@ EXCEPT !.pc = "done"]
                ELSE [@ EXCEPT !.pc = "verify", !.cur = Table(c)[i].pba,
                               !.start = Table(c)[i].off + 1]]
    /\ UNCHANGED <<dirVars, growVars, held, waiters, request, grown_mu_, val,
                   ops>>

GetVerify(c) ==
    /\ cl[c].pc = "verify"
    /\ cl' = [cl EXCEPT ![c] =
                IF cl[c].cur[1] = cl[c].key
                THEN [@ EXCEPT !.pc = "done", !.res = cl[c].cur]
                ELSE [@ EXCEPT !.pc = "get"]]
    /\ UNCHANGED <<dirVars, growVars, held, waiters, request, grown_mu_, val,
                   ops>>

EndGet(c) ==
    /\ cl[c].pc = "done"
    /\ cl' = [cl EXCEPT ![c] = NoClient]
    /\ Leave({c})
    /\ UNCHANGED <<snap, current_, segs, data, spare, held, waiters, request,
                   grown_mu_, val, ops>>

Get(c) == GetLoad(c) \/ GetScan(c) \/ GetVerify(c) \/ EndGet(c)
-----------------------------------------------------------------------------
(* The space waker and grow().                                             *)

\* resume_waiters(): the waiters that asked for generation g fail with rc, the
\* others retry in a new section.
ResumeWaiters(g, rc) ==
    /\ cl' = [c \in Clients |->
                IF c \notin waiters THEN cl[c]
                ELSE IF rc # "ok" /\ cl[c].grow = g THEN NoClient
                ELSE [cl[c] EXCEPT !.pc = "load", !.sec = TRUE, !.grow = None]]
    /\ waiters' = {}

\* Nobody asked for a grow: sleep, then let the waiters retry.
WakerTick ==
    /\ waker.pc = "idle" /\ request = None
    /\ waiters # {}
    /\ waker' = [waker EXCEPT !.pc = "tick"]
    /\ UNCHANGED <<dirVars, segs, data, spare, cl, held, waiters, request,
                   grown_mu_, val, ops>>

WakerResume ==
    /\ waker.pc = "tick"
    /\ ResumeWaiters(None, "ok")
    /\ waker' = NoGrow
    /\ UNCHANGED <<dirVars, segs, data, spare, held, request, grown_mu_, val,
                   ops>>

WakerTake ==
    /\ waker.pc = "idle" /\ request # None
    /\ waker' = [NoGrow EXCEPT !.pc = "begin", !.gen = request]
    /\ request' = None
    /\ UNCHANGED <<dirVars, segs, data, spare, cl, held, waiters, grown_mu_,
                   val, ops>>

Returns(w, rc) == [w EXCEPT !.pc = "after", !.rc = rc]

\* Mutant: whatever the generation asked for.
GrowBegin_AnyGeneration ==
    /\ waker.pc = "begin"
    /\ IF table_bits(current_) >= kMaxTableBits
       THEN waker' = Returns(waker, "ENOSPC") /\ UNCHANGED spare
       ELSE /\ waker' = [waker EXCEPT !.pc = "tables", !.built = spare]
            /\ spare' = 0
    /\ UNCHANGED <<dirVars, segs, data, cl, held, waiters, request, grown_mu_,
                   val, ops>>

\* grow(): someone else grew it, it is at its largest, or it takes up the
\* spare tables.
GrowBegin ==
    /\ waker.pc = "begin"
    /\ IF waker.gen # current_
       THEN waker' = Returns(waker, "ok") /\ UNCHANGED spare
       ELSE IF table_bits(current_) >= kMaxTableBits
       THEN waker' = Returns(waker, "ENOSPC") /\ UNCHANGED spare
       ELSE /\ waker' = [waker EXCEPT !.pc = "tables", !.built = spare]
            /\ spare' = 0
    /\ UNCHANGED <<dirVars, segs, data, cl, held, waiters, request, grown_mu_,
                   val, ops>>

Needed == 2 * Cardinality(Tables(current_))

GrowTable ==
    /\ waker.pc = "tables" /\ waker.built < Needed
    /\ segs > 0
    /\ segs' = segs - 1
    /\ waker' = [waker EXCEPT !.built = @ + 1]
    /\ UNCHANGED <<dirVars, data, spare, cl, held, waiters, request, grown_mu_,
                   val, ops>>

\* No segment free now (-EAGAIN): the tables so far are kept for the next try.
GrowAgain ==
    /\ waker.pc = "tables" /\ waker.built < Needed
    /\ segs = 0
    /\ spare' = waker.built
    /\ waker' = Returns([waker EXCEPT !.built = 0], "EAGAIN")
    /\ UNCHANGED <<dirVars, segs, data, cl, held, waiters, request, grown_mu_,
                   val, ops>>

\* Mutant: the tables so far are dropped with their segments.
GrowFails_Keep ==
    /\ waker.pc = "tables" /\ waker.built < Needed
    /\ waker' = Returns([waker EXCEPT !.built = 0], "ENOSPC")
    /\ UNCHANGED <<dirVars, segs, data, spare, cl, held, waiters, request,
                   grown_mu_, val, ops>>

\* new_table() failed for good: the tables so far are retired.
GrowFails ==
    /\ waker.pc = "tables" /\ waker.built < Needed
    /\ segs' = segs + waker.built
    /\ waker' = Returns([waker EXCEPT !.built = 0], "ENOSPC")
    /\ UNCHANGED <<dirVars, data, spare, cl, held, waiters, request, grown_mu_,
                   val, ops>>

\* Mutant: a new table keeps what its memory held.
GrowFreeze_NotCleared ==
    /\ waker.pc = "tables" /\ waker.built >= Needed
    /\ snap' = [snap EXCEPT
                 ![current_].frozen = TRUE,
                 ![current_ + 1].tables = [p \in Tables(current_ + 1) |->
                     snap[current_].tables[[i \in 1..table_bits(current_) |-> p[i]]]]]
    /\ spare' = waker.built - Needed
    /\ waker' = [waker EXCEPT !.pc = "sync", !.built = Needed, !.waits = Open]
    /\ UNCHANGED <<current_, grace, segs, data, cl, held, waiters, request,
                   grown_mu_, val, ops>>

\* The new snapshot is made, the old one frozen, and synchronize() called.
GrowFreeze ==
    /\ waker.pc = "tables" /\ waker.built >= Needed
    /\ snap' = [snap EXCEPT
                 ![current_].frozen = TRUE,
                 ![current_ + 1].tables = [p \in Tables(current_ + 1) |->
                                             ClearTable]]
    /\ spare' = waker.built - Needed
    /\ waker' = [waker EXCEPT !.pc = "sync", !.built = Needed, !.waits = Open]
    /\ UNCHANGED <<current_, grace, segs, data, cl, held, waiters, request,
                   grown_mu_, val, ops>>

\* Mutant: the copy starts without a grace period.
GrowSynced_NoWait ==
    /\ waker.pc = "sync"
    /\ waker' = [waker EXCEPT !.pc = "table",
                              !.todo = Tables(current_)]
    /\ UNCHANGED <<dirVars, segs, data, spare, cl, held, waiters, request,
                   grown_mu_, val, ops>>

\* synchronize() returns.
GrowSynced ==
    /\ waker.pc = "sync" /\ waker.waits = {}
    /\ waker' = [waker EXCEPT !.pc = "table",
                              !.todo = Tables(current_)]
    /\ UNCHANGED <<dirVars, segs, data, spare, cl, held, waiters, request,
                   grown_mu_, val, ops>>

\* The copy, table by table and slot by slot.
GrowNextTable ==
    /\ waker.pc = "table" /\ waker.todo # {}
    /\ \E p \in waker.todo :
          waker' = [waker EXCEPT !.pc = "copy", !.todo = @ \ {p}, !.table = p,
                                 !.slot = 0]
    /\ UNCHANGED <<dirVars, segs, data, spare, cl, held, waiters, request,
                   grown_mu_, val, ops>>

\* Mutant: the slot is taken for the home bucket.
GrowCopy_ForgetOffset ==
    /\ waker.pc = "copy" /\ waker.slot < total_slots
    /\ LET e == snap[current_].tables[waker.table][waker.slot]
           p == table_index(e.tag, current_ + 1)
           r == insert_locked(snap[current_ + 1].tables[p], waker.slot,
                              e.tag, e.size, e.pba)
       IN  IF IsEmpty(e)
           THEN /\ waker' = [waker EXCEPT !.slot = @ + 1]
                /\ UNCHANGED snap
           ELSE /\ snap' = [snap EXCEPT ![current_ + 1].tables[p] = r.t]
                /\ waker' = [waker EXCEPT !.slot = @ + 1, !.fits = @ /\ r.ok]
    /\ UNCHANGED <<current_, grace, segs, data, spare, cl, held, waiters,
                   request, grown_mu_, val, ops>>

\* An entry holds its tag and its home bucket: the new table and the bucket.
GrowCopy ==
    /\ waker.pc = "copy" /\ waker.slot < total_slots
    /\ LET e == snap[current_].tables[waker.table][waker.slot]
           p == table_index(e.tag, current_ + 1)
           r == insert_locked(snap[current_ + 1].tables[p], waker.slot - e.off,
                              e.tag, e.size, e.pba)
       IN  IF IsEmpty(e)
           THEN /\ waker' = [waker EXCEPT !.slot = @ + 1]
                /\ UNCHANGED snap
           ELSE /\ snap' = [snap EXCEPT ![current_ + 1].tables[p] = r.t]
                /\ waker' = [waker EXCEPT !.slot = @ + 1, !.fits = @ /\ r.ok]
    /\ UNCHANGED <<current_, grace, segs, data, spare, cl, held, waiters,
                   request, grown_mu_, val, ops>>

GrowTableDone ==
    /\ waker.pc = "copy" /\ waker.slot = total_slots
    /\ waker' = [waker EXCEPT !.pc = "table"]
    /\ UNCHANGED <<dirVars, segs, data, spare, cl, held, waiters, request,
                   grown_mu_, val, ops>>

GrowPublish ==
    /\ waker.pc = "table" /\ waker.todo = {}
    /\ current_' = current_ + 1
    /\ waker' = [waker EXCEPT !.pc = "notify", !.built = 0]
    /\ UNCHANGED <<snap, grace, segs, data, spare, cl, held, waiters, request,
                   grown_mu_, val, ops>>

\* Mutant: grown_mu_ is not taken.
GrowNotify_NoHandshake ==
    /\ waker.pc = "notify"
    /\ cl' = [c \in Clients |-> IF cl[c].pc = "asleep"
                                THEN [cl[c] EXCEPT !.pc = "cv"] ELSE cl[c]]
    /\ segs' = segs + Cardinality(Tables(current_ - 1))
    /\ grace' = [grace EXCEPT ![current_ - 1] = Open \cup {Nobody}]
    /\ waker' = Returns(waker, "ok")
    /\ UNCHANGED <<snap, current_, data, spare, held, waiters, request,
                   grown_mu_, val, ops>>

\* Mutant: the old snapshot is deleted without a grace period.
GrowNotify_FreeNow ==
    /\ waker.pc = "notify" /\ grown_mu_ = Nobody
    /\ cl' = [c \in Clients |-> IF cl[c].pc = "asleep"
                                THEN [cl[c] EXCEPT !.pc = "cv"] ELSE cl[c]]
    /\ segs' = segs + Cardinality(Tables(current_ - 1))
    /\ grace' = [grace EXCEPT ![current_ - 1] = {Nobody}]
    /\ waker' = Returns(waker, "ok")
    /\ UNCHANGED <<snap, current_, data, spare, held, waiters, request,
                   grown_mu_, val, ops>>

\* grown_mu_ is taken and let go between the store and the notification; the
\* old tables' segments are given back; the old snapshot goes to Rcu::call().
GrowNotify ==
    /\ waker.pc = "notify" /\ grown_mu_ = Nobody
    /\ cl' = [c \in Clients |-> IF cl[c].pc = "asleep"
                                THEN [cl[c] EXCEPT !.pc = "cv"] ELSE cl[c]]
    /\ segs' = segs + Cardinality(Tables(current_ - 1))
    /\ grace' = [grace EXCEPT ![current_ - 1] = Open \cup {Nobody}]
    /\ waker' = Returns(waker, "ok")
    /\ UNCHANGED <<snap, current_, data, spare, held, waiters, request,
                   grown_mu_, val, ops>>

\* After grow(): a request that has to wait for a segment is made again.
WakerAfter ==
    /\ waker.pc = "after"
    /\ IF waker.rc = "EAGAIN"
       THEN /\ request' = IF request = None THEN waker.gen
                          ELSE Max({request, waker.gen})
            /\ ResumeWaiters(None, "ok")
       ELSE /\ request' = IF request = waker.gen THEN None ELSE request
            /\ ResumeWaiters(waker.gen, waker.rc)
    /\ waker' = NoGrow
    /\ UNCHANGED <<dirVars, segs, data, spare, held, grown_mu_, val, ops>>

\* The callback: the old snapshot is deleted.
FreeSnapshot(g) ==
    /\ grace[g] = {Nobody}
    /\ grace' = [grace EXCEPT ![g] = {}]
    /\ snap' = [snap EXCEPT ![g] = [NoSnap EXCEPT !.freed = TRUE]]
    /\ UNCHANGED <<current_, growVars, cl, held, waiters, request, grown_mu_,
                   val, ops>>

\* Garbage collection frees a segment the index can have.
SegmentFreed ==
    /\ data > 0
    /\ data' = data - 1 /\ segs' = segs + 1
    /\ UNCHANGED <<dirVars, waker, spare, cl, held, waiters, request,
                   grown_mu_, val, ops>>

Waker ==
    \/ WakerTick \/ WakerResume \/ WakerTake
    \/ GrowBegin \/ GrowTable \/ GrowAgain \/ GrowFails
    \/ GrowFreeze \/ GrowSynced \/ GrowNextTable \/ GrowCopy \/ GrowTableDone
    \/ GrowPublish \/ GrowNotify \/ WakerAfter
-----------------------------------------------------------------------------
Next ==
    \/ \E c \in Clients :
          StartWrite(c) \/ StartGc(c) \/ StartGet(c) \/ Write(c) \/ Get(c)
    \/ Waker
    \/ SegmentFreed
    \/ \E g \in Gens : FreeSnapshot(g)

Spec == Init /\ [][Next]_vars

\* Threads run and I/O completes; garbage collection goes on freeing segments.
FairSpec ==
    /\ Spec
    /\ \A c \in Writers \cup {GcThread} : WF_vars(Write(c))
    /\ \A c \in Getters : WF_vars(Get(c))
    /\ WF_vars(Waker)
    /\ WF_vars(SegmentFreed)
-----------------------------------------------------------------------------
(* Properties.                                                             *)

Copying == waker.pc \in {"sync", "table", "copy"}

\* Every variable has its type; the tables of the current snapshot, and of the
\* one being filled, are well formed.
TypeOK ==
    /\ \A g \in Gens :
          /\ snap[g].frozen \in BOOLEAN /\ snap[g].freed \in BOOLEAN
          /\ g = current_ \/ (Copying /\ g = current_ + 1) =>
                /\ DOMAIN snap[g].tables = Tables(g)
                /\ \A p \in Tables(g) : TableOK(snap[g].tables[p], g, p)
    /\ current_ \in Gens
    /\ \A c \in Clients :
          /\ cl[c].pc \in {"idle", "load", "lock", "check", "write", "reach",
                           "queue", "wait", "cv", "sleep", "asleep", "get", "scan",
                           "verify", "done"}
          /\ cl[c].snap \in Gens /\ cl[c].free \in SlotIdx
          /\ cl[c].sec \in BOOLEAN
    /\ waiters \subseteq Writers
    /\ request \in Gens \cup {None} /\ waker.gen \in Gens \cup {None}
    /\ waker.slot \in 0..total_slots
    /\ segs \in Nat /\ data \in Nat /\ spare \in Nat /\ waker.built \in Nat
    /\ grown_mu_ \in {Nobody, GcThread}

\* Writes that find one table full get one grow between them: a request that was
\* queued, or made again, when the grow of its generation was over or under way
\* takes no segment and grows nothing.
GrowsOnce == waker.pc = "tables" \/ Copying => waker.gen = current_

\* "Splitting a table halves its load, so the copy always fits": no insert of
\* grow()'s copy fails (its assert), whatever the old tables hold.
CopyFits == waker.fits

\* No write is lost and none is done twice, across freezing, copying and
\* publishing: the current snapshot holds every key's last committed entry, in
\* the table and the neighbourhood where a lookup looks for it, and once.
EntriesExact ==
    \A k \in Keys :
        LET at == {x \in Tables(current_) \X SlotIdx :
                     LET e == snap[current_].tables[x[1]][x[2]]
                     IN  ~IsEmpty(e) /\ e.pba[1] = k}
        IN  /\ Cardinality(at) = IF val[k] = NoVal THEN 0 ELSE 1
            /\ \A x \in at :
                  LET t == snap[current_].tables[x[1]]
                  IN  /\ x[1] = table_index(TagOf[k], current_)
                      /\ Matches(t, HomeOf[k], TagOf[k], x[2])
                      /\ val[k] = [pba |-> t[x[2]].pba, size |-> t[x[2]].size]

\* A snapshot is deleted only when no section that could have loaded it is open.
SnapshotAlive ==
    \A c \in Clients :
        cl[c].pc \in {"lock", "check", "write", "reach", "scan"} =>
            ~snap[cl[c].snap].freed

\* Every segment is free, a data segment, a spare table's, one of the tables
\* being built or one of the current tables', on every way out of grow().
SegmentsExact ==
    LET start == Cardinality(Tables(0))
        old == IF waker.pc = "notify" THEN Cardinality(Tables(current_ - 1)) ELSE 0
    IN  segs + data + spare + waker.built + Cardinality(Tables(current_)) + old
          = FreeSegs + DataSegs + start

\* A get answers with a value its key had, or its absence, between its start
\* and its return, whatever a grow does meanwhile.
GetLinearizable ==
    \A c \in Getters : cl[c].pc = "done" => cl[c].res \in cl[c].win

\* Every write ends: no request for a grow and no waiter is lost, and a GC
\* thread that slept through the publication is woken.
WritesEnd ==
    \A c \in Writers \cup {GcThread} : []<>(cl[c].pc = "idle")
=============================================================================
