------------------------------- MODULE Store -------------------------------
(***************************************************************************)
(* The log-structured store of src/src/udepot/store.cc: put, del and get   *)
(* against a log of segments, relocating garbage collection, and recovery  *)
(* of the index from the log after a crash.                                *)
(*                                                                         *)
(* Disk: per segment its metadata timestamp and its records, one grain     *)
(* each.  Memory: the directory, the per-segment timestamps and flags, and *)
(* salsa's life cycle of a segment (free, staged, collectable, waiting for *)
(* a grace period).  Every key has the same bucket and tag, the worst case *)
(* for the key probe: the directory is the slots of that one neighbourhood *)
(* and only the record an entry points at tells whose it is.  Stripe locks *)
(* make a commit one step; garbage collection holds them across its I/O    *)
(* (gc.locked).  Hash tables and growing are in HashTable and Directory,   *)
(* grace periods in GracePeriod: here a grace period is the set of         *)
(* operations it still waits for.                                          *)
(***************************************************************************)
EXTENDS Naturals, FiniteSets, FiniteSetsExt, Functions

CONSTANTS Keys, Vals, Clients,
          Segs,         \* segments on the device
          SegSize,      \* records per segment
          Modes,        \* PutMode values the clients use
          Kinds,        \* operations the clients run: "put", "del", "get"
          MaxTs,        \* bound: segments allocated
          Budgets       \* bound: pairs of how many operations and how many faults
                        \* and failed device reads and writes a behaviour may have

ASSUME StoreAssumption ==
    /\ IsFiniteSet(Segs) /\ SegSize \in Nat \ {0}
    /\ Modes \subseteq {"upsert", "create", "replace"}
    /\ Kinds \subseteq {"put", "del", "get"}
    /\ MaxTs \in Nat /\ Budgets \subseteq Nat \X Nat

VARIABLES
    \* the device
    mdTs,           \* timestamp in a segment's metadata, 0 for none
    disk,           \* disk[p]: the record at grain p, or NoRec
    \* memory
    dir,            \* the neighbourhood: dir[i] is an entry or Empty
    segTs,          \* seg_timestamps_
    segMdOk,        \* seg_md_ok_
    segLive,        \* seg_live_
    seg_alloc_nr_,
    seg,            \* salsa's segments: [st, next, out, valid, grace]
    stage,          \* per stream, the segment in its stage_fifo or NoSeg
    staging,        \* per stream, [seg, ts] being staged; seg = NoSeg if none
    q_rel_segs,     \* free segments kept for relocation
    cl,             \* the operations of the clients
    gc,             \* the garbage collector
    last,           \* history: per key, the newest position ever committed
    ops, faults     \* for the bounds

devVars == <<mdTs, disk>>
memVars == <<segTs, segMdOk, segLive>>
salsaVars == <<seg_alloc_nr_, seg, stage, staging, q_rel_segs>>
vars == <<devVars, dir, memVars, salsaVars, cl, gc, last, ops, faults>>

Pbas == Segs \X (0..SegSize - 1)
NoSeg == "no segment"
NoPba == <<NoSeg, 0>>
Tomb == "tombstone"
Absent == "absent"
NoRec == [key |-> Absent, val |-> Absent, ts |-> 0]

\* A key has at most one entry, so one slot always stays free.
Slots == 0..Cardinality(Keys)
Empty == [pba |-> NoPba, del |-> FALSE]
Streams == {"data", "reloc"}

\* SALSA_MIN_REL_SEGMENTS
MinRelSegs == 1

NoOp == [op |-> "none", key |-> Absent, val |-> Absent, mode |-> "upsert",
         pc |-> "idle", sec |-> FALSE, pba |-> NoPba, seen |-> {},
         start |-> 0, cur |-> NoPba, rep |-> NoPba, win |-> {}, res |-> Absent]
NoGc == [pc |-> "idle", victim |-> NoSeg, off |-> 0, drop |-> FALSE,
         dst |-> NoPba, attempt |-> 0, locked |-> FALSE]
FreeSeg == [st |-> "free", next |-> 0, out |-> 0, valid |-> 0, grace |-> {}]

Init ==
    /\ mdTs = [s \in Segs |-> 0]
    /\ disk = [p \in Pbas |-> NoRec]
    /\ dir = [i \in Slots |-> Empty]
    /\ segTs = [s \in Segs |-> 0]
    /\ segMdOk = [s \in Segs |-> FALSE]
    /\ segLive = [s \in Segs |-> FALSE]
    /\ seg_alloc_nr_ = 0
    /\ seg = [s \in Segs |-> FreeSeg]
    /\ stage = [t \in Streams |-> NoSeg]
    /\ staging = [t \in Streams |-> [seg |-> NoSeg, ts |-> 0]]
    /\ q_rel_segs \in kSubset(MinRelSegs, Segs)
    /\ cl = [c \in Clients |-> NoOp]
    /\ gc = NoGc
    /\ last = [k \in Keys |-> <<0, 0>>]
    /\ ops = 0 /\ faults = 0
-----------------------------------------------------------------------------
(* Recovery order, and what a record or an entry stands for.               *)

\* The bound: o operations and f faults.
Within(o, f) == \E b \in Budgets : o <= b[1] /\ f <= b[2]

\* A crash, or a read or write the device reports as failed.
Fault == Within(ops, faults + 1) /\ faults' = faults + 1

\* Mutant: the commits do not compare positions.
Newer_Always(p, q) == TRUE

\* newer_than(): segment timestamp, then grain.
Newer(p, q) ==
    IF p[1] # q[1] THEN segTs[q[1]] < segTs[p[1]] ELSE q[2] < p[2]

\* A record's place in recovery order.
Position(p) == <<segTs[p[1]], p[2]>>
Before(x, y) == x[1] < y[1] \/ (x[1] = y[1] /\ x[2] < y[2])

\* History: a record of key k at grain p was committed.
Committed(k, p) ==
    last' = [last EXCEPT ![k] = IF Before(@, Position(p)) THEN Position(p) ELSE @]

Used == {i \in Slots : dir[i] # Empty}

\* entry_at(): the slot that points at grain p.
SlotAt(p) == {i \in Used : dir[i].pba = p}

\* The slots that hold key k, known from the records.
SlotsOf(k) == {i \in Used : disk[dir[i].pba].key = k}

\* What the store holds for key k, as a client sees it.
Value(k) ==
    LET live == {i \in SlotsOf(k) : ~dir[i].del}
    IN  IF live = {} THEN Absent ELSE disk[dir[Min(live)].pba].val
-----------------------------------------------------------------------------
(* Segments: salsa's allocator, capacity manager and garbage collector     *)
(* queues, as functions on the segment table.                              *)

Open == {c \in Clients : cl[c].sec}

\* A segment with no valid grain left is freed after a grace period
\* (defer_free_seg).
Defer(m, s) == [m EXCEPT ![s].st = "grace", ![s].grace = Open]

\* invalidate_grains(): the last valid grain of a collectable segment frees it.
Invalidate(m, s) ==
    LET n == [m EXCEPT ![s].valid = @ - 1]
    IN  IF n[s].st = "gc" /\ n[s].valid = 0 THEN Defer(n, s) ELSE n

\* release_grains(): the grain's I/O is done.
Release(m, s) == [m EXCEPT ![s].out = @ - 1]

Drop(m, p) == Release(Invalidate(m, p[1]), p[1])

\* The end of an operation's read section.
Leave(m, c) == [s \in Segs |-> [m[s] EXCEPT !.grace = @ \ {c}]]

\* allocate_grains(): the next grain of the staged segment.  A segment whose
\* last grain is handed out leaves the stage.
CanAllocate(t) == stage[t] # NoSeg
AllocPba(t) == <<stage[t], seg[stage[t]].next>>
AllocSeg(t) ==
    LET s == stage[t]
        full == seg[s].next = SegSize - 1
    IN  [seg EXCEPT ![s].next = @ + 1, ![s].out = @ + 1, ![s].valid = @ + 1,
                    ![s].st = IF full THEN "unstaged" ELSE @]
AllocStage(t) ==
    [stage EXCEPT ![t] = IF seg[@].next = SegSize - 1 THEN NoSeg ELSE @]

\* drain_remaining_grains(): close the staged segment.
DrainSeg(m, t) ==
    IF stage[t] = NoSeg THEN m ELSE [m EXCEPT ![stage[t]].st = "unstaged"]
DrainStage(t) == [stage EXCEPT ![t] = NoSeg]

\* An operation, or the collector, asks for a grain of stream t.
Wanted(t) == IF t = "data" THEN \E c \in Clients : cl[c].pc \in {"alloc", "space"}
                           ELSE gc.pc = "alloc"

\* allocator_allocate_segment(), first half, by whoever finds the stage empty:
\* a free segment and its number.  Only relocation may take the segments kept
\* for it.
StageBegin(t) ==
    /\ Wanted(t)
    /\ stage[t] = NoSeg /\ staging[t].seg = NoSeg
    /\ seg_alloc_nr_ < MaxTs
    /\ \E s \in Segs :
          /\ seg[s].st = "free"
          /\ (t = "reloc") <=> (s \in q_rel_segs)
          /\ seg' = [seg EXCEPT ![s].st = "staging"]
          /\ q_rel_segs' = q_rel_segs \ {s}
          /\ staging' = [staging EXCEPT ![t] = [seg |-> s,
                                                ts |-> seg_alloc_nr_ + 1]]
    /\ seg_alloc_nr_' = seg_alloc_nr_ + 1
    /\ UNCHANGED <<devVars, last, dir, memVars, stage, cl, gc, ops, faults>>

\* Mutant: the result of writing the metadata is not looked at.
StageEnd_IgnoreError(t) ==
    /\ staging[t].seg # NoSeg
    /\ LET s == staging[t].seg
           ts == staging[t].ts
       IN  /\ mdTs' \in {mdTs, [mdTs EXCEPT ![s] = ts]}
           /\ segTs' = [segTs EXCEPT ![s] = ts]
           /\ segLive' = [segLive EXCEPT ![s] = TRUE]
           /\ segMdOk' = [segMdOk EXCEPT ![s] = TRUE]
           /\ seg' = [seg EXCEPT ![s] = [FreeSeg EXCEPT !.st = "staged"]]
           /\ stage' = [stage EXCEPT ![t] = s]
    /\ staging' = [staging EXCEPT ![t] = [seg |-> NoSeg, ts |-> 0]]
    /\ UNCHANGED <<disk, last, dir, seg_alloc_nr_, q_rel_segs, cl, gc, ops,
                   faults>>

\* Second half, seg_md_callback(): the metadata goes to the device before the
\* segment is staged.  A write reported as failed may have landed or not.
StageEnd(t) ==
    /\ staging[t].seg # NoSeg
    /\ LET s == staging[t].seg
           ts == staging[t].ts
       IN  /\ \/ /\ mdTs' = [mdTs EXCEPT ![s] = ts]
                 /\ segTs' = [segTs EXCEPT ![s] = ts]
                 /\ segLive' = [segLive EXCEPT ![s] = TRUE]
                 /\ segMdOk' = [segMdOk EXCEPT ![s] = TRUE]
                 /\ UNCHANGED faults
              \/ /\ Fault
                 /\ mdTs' \in {mdTs, [mdTs EXCEPT ![s] = ts]}
                 /\ segMdOk' = [segMdOk EXCEPT ![s] = FALSE]
                 /\ UNCHANGED <<segTs, segLive>>
           /\ seg' = [seg EXCEPT ![s] = [FreeSeg EXCEPT !.st = "staged"]]
           /\ stage' = [stage EXCEPT ![t] = s]
    /\ staging' = [staging EXCEPT ![t] = [seg |-> NoSeg, ts |-> 0]]
    /\ UNCHANGED <<disk, last, dir, seg_alloc_nr_, q_rel_segs, cl, gc, ops>>

\* Mutant: a segment is destaged with I/O outstanding.
Destage_Early(s) ==
    /\ seg[s].st = "unstaged"
    /\ seg' = IF seg[s].valid = 0 THEN Defer(seg, s)
                                  ELSE [seg EXCEPT ![s].st = "gc"]
    /\ UNCHANGED <<devVars, last, dir, memVars, seg_alloc_nr_, stage, staging,
                   q_rel_segs, cl, gc, ops, faults>>

\* The allocator thread: a segment off the stage with no I/O outstanding goes
\* to the garbage collector, or is freed if nothing in it is valid.
Destage(s) ==
    /\ seg[s].st = "unstaged"
    /\ seg[s].out = 0
    /\ seg' = IF seg[s].valid = 0 THEN Defer(seg, s)
                                  ELSE [seg EXCEPT ![s].st = "gc"]
    /\ UNCHANGED <<devVars, last, dir, memVars, seg_alloc_nr_, stage, staging,
                   q_rel_segs, cl, gc, ops, faults>>

\* scm_put_free_seg() at the end of the grace period.
PutFree(s) ==
    /\ seg[s].st = "grace"
    /\ seg[s].grace = {}
    /\ seg' = [seg EXCEPT ![s].st = "free", ![s].next = 0]
    /\ q_rel_segs' = IF Cardinality(q_rel_segs) < MinRelSegs
                     THEN q_rel_segs \cup {s} ELSE q_rel_segs
    /\ UNCHANGED <<devVars, last, dir, memVars, seg_alloc_nr_, stage, staging, cl, gc,
                   ops, faults>>
-----------------------------------------------------------------------------
(* Operations.  An operation is inside one read section from its start to  *)
(* its return, except while it waits for space.                            *)

\* Returns to the caller, closing the section.
Return(c, m) ==
    /\ cl' = [cl EXCEPT ![c] = NoOp]
    /\ seg' = Leave(m, c)

Start(c) ==
    /\ cl[c].pc = "idle"
    /\ Within(ops + 1, faults)
    /\ ops' = ops + 1
    /\ \E k \in Keys :
          \/ /\ "put" \in Kinds
             /\ \E v \in Vals, m \in Modes :
                   cl' = [cl EXCEPT ![c] = [NoOp EXCEPT
                            !.op = "put", !.key = k, !.val = v, !.mode = m,
                            !.pc = "alloc", !.sec = TRUE]]
          \/ /\ "del" \in Kinds
             /\ cl' = [cl EXCEPT ![c] = [NoOp EXCEPT
                            !.op = "del", !.key = k, !.val = Tomb,
                            !.pc = "probe", !.sec = TRUE]]
          \/ /\ "get" \in Kinds
             /\ cl' = [cl EXCEPT ![c] = [NoOp EXCEPT
                            !.op = "get", !.key = k, !.pc = "probe",
                            !.sec = TRUE, !.win = {Value(k)}]]
    /\ UNCHANGED <<devVars, last, dir, memVars, salsaVars, gc, faults>>

\* try_allocate_grains(): a grain of the staged segment, given back if the
\* segment's metadata could not be written.
Allocate(c) ==
    /\ cl[c].pc = "alloc"
    /\ CanAllocate("data")
    /\ IF segMdOk[stage["data"]]
       THEN /\ cl' = [cl EXCEPT ![c].pba = AllocPba("data"), ![c].pc = "write"]
            /\ seg' = AllocSeg("data")
       ELSE Return(c, Drop(AllocSeg("data"), AllocPba("data")))
    /\ stage' = AllocStage("data")
    /\ UNCHANGED <<devVars, last, dir, memVars, seg_alloc_nr_, staging, q_rel_segs, gc,
                   ops, faults>>

\* No space yet (-EAGAIN): leave the section, forget the probe, and wait.
WaitSpace(c) ==
    /\ cl[c].pc = "alloc"
    /\ ~CanAllocate("data")
    /\ cl' = [cl EXCEPT ![c].pc = "space", ![c].sec = FALSE, ![c].seen = {}]
    /\ seg' = Leave(seg, c)
    /\ UNCHANGED <<devVars, last, dir, memVars, seg_alloc_nr_, stage, staging,
                   q_rel_segs, gc, ops, faults>>

Resume(c) ==
    /\ cl[c].pc = "space"
    /\ CanAllocate("data")
    /\ cl' = [cl EXCEPT ![c].pc = "alloc", ![c].sec = TRUE]
    /\ UNCHANGED <<devVars, last, dir, memVars, salsaVars, gc, ops, faults>>

RecordOf(c) == [key |-> cl[c].key, val |-> cl[c].val,
                ts |-> segTs[cl[c].pba[1]]]

\* The record is on the device.
WriteOk(c) ==
    /\ cl[c].pc = "write"
    /\ disk' = [disk EXCEPT ![cl[c].pba] = RecordOf(c)]
    /\ cl' = [cl EXCEPT ![c].pc = "probe", ![c].start = 0]
    /\ UNCHANGED <<mdTs, last, dir, memVars, salsaVars, gc, ops, faults>>

\* The write failed, whether or not it reached the device.
WriteFail(c) ==
    /\ Fault
    /\ cl[c].pc = "write"
    /\ disk' \in {disk, [disk EXCEPT ![cl[c].pba] = RecordOf(c)]}
    /\ Return(c, Drop(seg, cl[c].pba))
    /\ UNCHANGED <<mdTs, last, dir, memVars, seg_alloc_nr_, stage, staging,
                   q_rel_segs, gc, ops>>

\* The directory lookups of probe_key() and get_record(): the next entry of
\* the bucket and tag from start on.  A get skips deleted entries, a probe the
\* grains it has verified already.
Seen(c, p) == \E x \in cl[c].seen : x.pba = p
Ahead(c) == {i \in Used : /\ i >= cl[c].start
                          /\ cl[c].op = "get" => ~dir[i].del
                          /\ ~Seen(c, dir[i].pba)}

Lookup(c) ==
    /\ cl[c].pc = "probe"
    /\ Ahead(c) # {}
    /\ cl' = [cl EXCEPT ![c].cur = dir[Min(Ahead(c))].pba,
                        ![c].start = Min(Ahead(c)) + 1,
                        ![c].pc = "verify"]
    /\ UNCHANGED <<devVars, dir, memVars, salsaVars, gc, last, ops, faults>>

LookupEnd(c) ==
    /\ cl[c].pc = "probe"
    /\ Ahead(c) = {}
    /\ cl' = [cl EXCEPT ![c].pc = IF cl[c].op = "get" THEN "got" ELSE "commit"]
    /\ UNCHANGED <<devVars, dir, memVars, salsaVars, gc, last, ops, faults>>

\* verify_key_at_pba(): the record at the grain the entry named.  A get that
\* finds its key has its value.
Verify(c) ==
    /\ cl[c].pc = "verify"
    /\ LET r == disk[cl[c].cur]
           match == r.key = cl[c].key
       IN  \/ /\ cl[c].op = "get"
              /\ cl' = [cl EXCEPT ![c] =
                   [@ EXCEPT !.pc = IF match THEN "got" ELSE "probe",
                             !.res = IF match THEN r.val ELSE @,
                             !.cur = NoPba]]
           \/ /\ cl[c].op # "get"
              /\ cl' = [cl EXCEPT ![c] =
                   [@ EXCEPT !.pc = "probe", !.cur = NoPba,
                             !.seen = @ \cup {[pba |-> cl[c].cur, match |-> match]}]]
    /\ UNCHANGED <<devVars, dir, memVars, salsaVars, gc, last, ops, faults>>

\* The read failed: the operation gives up what it wrote and fails.
VerifyFail(c) ==
    /\ Fault
    /\ cl[c].pc = "verify"
    /\ Return(c, IF cl[c].pba = NoPba THEN seg ELSE Drop(seg, cl[c].pba))
    /\ UNCHANGED <<devVars, dir, memVars, seg_alloc_nr_, stage, staging,
                   q_rel_segs, gc, last, ops>>

GetReturn(c) ==
    /\ cl[c].pc = "got"
    /\ Return(c, seg)
    /\ UNCHANGED <<devVars, last, dir, memVars, seg_alloc_nr_, stage, staging,
                   q_rel_segs, gc, ops, faults>>

\* Mutant: the commit trusts the probe.
Settled_Always(c) == TRUE

\* probe_settled(): every entry was verified; the key's own, if any.
Settled(c) == \A i \in Used : Seen(c, dir[i].pba)
Match(c) == {i \in Used : [pba |-> dir[i].pba, match |-> TRUE] \in cl[c].seen}

\* The locked update of slot i that commits c's record, and what the gets in
\* progress may answer from then on.
SetSlot(c, i, rep) ==
    /\ dir' = [dir EXCEPT ![i] = [pba |-> cl[c].pba, del |-> cl[c].op = "del"]]
    /\ Committed(cl[c].key, cl[c].pba)
    /\ cl' = [g \in Clients |->
                IF g = c THEN [cl[c] EXCEPT !.pc = "finish", !.rep = rep]
                ELSE IF cl[g].op = "get" /\ cl[g].key = cl[c].key
                     THEN [cl[g] EXCEPT !.win = @ \cup
                             {IF cl[c].op = "del" THEN Absent ELSE cl[c].val}]
                     ELSE cl[g]]

\* commit_put() and commit_del() run under the key's stripe locks.
AtCommit(c) == cl[c].pc = "commit" /\ ~gc.locked

CommitRetry(c) ==
    /\ AtCommit(c)
    /\ ~Settled(c)
    /\ cl' = [cl EXCEPT ![c].pc = "probe", ![c].start = 0]
    /\ UNCHANGED <<devVars, last, dir, memVars, salsaVars, gc, ops, faults>>

Live(c) == {i \in Match(c) : ~dir[i].del}

\* The put's mode forbids it, or there is nothing to delete: -EEXIST, -ENOENT.
Forbidden(c) ==
    \/ cl[c].op = "put" /\ cl[c].mode = "replace" /\ Live(c) = {}
    \/ cl[c].op = "put" /\ cl[c].mode = "create" /\ Live(c) # {}
    \/ cl[c].op = "del" /\ Live(c) = {}

Reject(c) ==
    /\ AtCommit(c) /\ Settled(c) /\ Forbidden(c)
    /\ Return(c, IF cl[c].pba = NoPba THEN seg ELSE Drop(seg, cl[c].pba))
    /\ UNCHANGED <<devVars, last, dir, memVars, seg_alloc_nr_, stage, staging,
                   q_rel_segs, gc, ops, faults>>

\* kNeedTomb: a delete writes its tombstone once it knows the key is there.
NeedTomb(c) ==
    /\ AtCommit(c) /\ Settled(c) /\ ~Forbidden(c)
    /\ cl[c].pba = NoPba
    /\ cl' = [cl EXCEPT ![c].pc = "alloc"]
    /\ UNCHANGED <<devVars, last, dir, memVars, salsaVars, gc, ops, faults>>

\* insert_locked() takes the lowest free slot.
Insert(c) ==
    /\ AtCommit(c) /\ Settled(c) /\ ~Forbidden(c)
    /\ Match(c) = {}
    /\ Used # Slots
    /\ SetSlot(c, Min(Slots \ Used), NoPba)
    /\ UNCHANGED <<devVars, memVars, salsaVars, gc, ops, faults>>

\* The key's entry, live or deleted, is replaced in place by a newer record.
Update(c) ==
    /\ AtCommit(c) /\ Settled(c) /\ ~Forbidden(c)
    /\ cl[c].pba # NoPba /\ Match(c) # {}
    /\ LET i == Min(Match(c))
       IN  /\ Newer(cl[c].pba, dir[i].pba)
           /\ SetSlot(c, i, dir[i].pba)
    /\ UNCHANGED <<devVars, memVars, salsaVars, gc, ops, faults>>

\* Mutant: the record that lost the race is not given back.
Rewrite_KeepGrain(c) ==
    /\ AtCommit(c) /\ Settled(c) /\ ~Forbidden(c)
    /\ cl[c].pba # NoPba /\ Match(c) # {}
    /\ ~Newer(cl[c].pba, dir[Min(Match(c))].pba)
    /\ cl' = [cl EXCEPT ![c].pba = NoPba, ![c].start = 0,
                        ![c].pc = IF cl[c].op = "put" THEN "alloc" ELSE "probe"]
    /\ UNCHANGED <<devVars, last, dir, memVars, salsaVars, gc, ops, faults>>

\* kRewrite: the entry is newer than the record that would replace it.  Give
\* the record up and write again; if the entry is in another segment, close
\* the staged one first.
Rewrite(c) ==
    /\ AtCommit(c) /\ Settled(c) /\ ~Forbidden(c)
    /\ cl[c].pba # NoPba /\ Match(c) # {}
    /\ LET old == dir[Min(Match(c))].pba
       IN  /\ ~Newer(cl[c].pba, old)
           /\ IF old[1] # cl[c].pba[1]
              THEN /\ seg' = DrainSeg(Drop(seg, cl[c].pba), "data")
                   /\ stage' = DrainStage("data")
              ELSE /\ seg' = Drop(seg, cl[c].pba)
                   /\ UNCHANGED stage
    /\ cl' = [cl EXCEPT ![c].pba = NoPba, ![c].start = 0,
                        ![c].pc = IF cl[c].op = "put" THEN "alloc" ELSE "probe"]
    /\ UNCHANGED <<devVars, last, dir, memVars, seg_alloc_nr_, staging, q_rel_segs, gc,
                   ops, faults>>

\* Mutant: the replaced grain is released as well.
Finish_ReleaseBoth(c) ==
    /\ cl[c].pc = "finish"
    /\ Return(c, Release(IF cl[c].rep = NoPba THEN seg
                         ELSE Drop(seg, cl[c].rep), cl[c].pba[1]))
    /\ UNCHANGED <<devVars, last, dir, memVars, seg_alloc_nr_, stage, staging,
                   q_rel_segs, gc, ops, faults>>

\* After the commit, unlocked: invalidate what was replaced, release, return.
Finish(c) ==
    /\ cl[c].pc = "finish"
    /\ Return(c, Release(IF cl[c].rep = NoPba THEN seg
                         ELSE Invalidate(seg, cl[c].rep[1]), cl[c].pba[1]))
    /\ UNCHANGED <<devVars, last, dir, memVars, seg_alloc_nr_, stage, staging,
                   q_rel_segs, gc, ops, faults>>

Client(c) ==
    \/ Start(c) \/ Allocate(c) \/ WaitSpace(c) \/ Resume(c)
    \/ WriteOk(c) \/ WriteFail(c)
    \/ Lookup(c) \/ LookupEnd(c) \/ Verify(c) \/ VerifyFail(c) \/ GetReturn(c)
    \/ CommitRetry(c) \/ Reject(c) \/ NeedTomb(c)
    \/ Insert(c) \/ Update(c) \/ Rewrite(c) \/ Finish(c)
-----------------------------------------------------------------------------
(* Garbage collection: gc_callback() and gc_record().                      *)

VictimTs == segTs[gc.victim]
VictimPba == <<gc.victim, gc.off>>

\* Mutant: tombstones are dropped while older segments can be replayed.
GcCallback_DropAlways(s) ==
    [NoGc EXCEPT !.pc = "walk", !.victim = s, !.drop = TRUE]

\* gc_callback() on segment s.  Tombstones may go if no older segment can
\* still be replayed.
GcCallback(s) ==
    [NoGc EXCEPT !.pc = "walk", !.victim = s,
       !.drop = \A o \in Segs \ {s} : segLive[o] => segTs[o] >= segTs[s]]

GcPick(s) ==
    /\ gc.pc = "idle"
    /\ seg[s].st = "gc"
    /\ seg' = [seg EXCEPT ![s].st = "victim"]
    /\ gc' = GcCallback(s)
    /\ UNCHANGED <<devVars, dir, memVars, seg_alloc_nr_, stage, staging,
                   q_rel_segs, cl, last, ops, faults>>

Walking == gc.pc = "walk" /\ gc.off < SegSize

\* A grain with no record of this life of the segment, or whose record the
\* directory no longer points at.
GcSkip ==
    /\ Walking
    /\ disk[VictimPba].ts # VictimTs \/ SlotAt(VictimPba) = {}
    /\ gc' = [gc EXCEPT !.off = @ + 1]
    /\ UNCHANGED <<devVars, dir, memVars, salsaVars, cl, last, ops, faults>>

GcDropTombstone ==
    /\ Walking /\ gc.drop
    /\ disk[VictimPba].ts = VictimTs
    /\ \E i \in SlotAt(VictimPba) :
          /\ dir[i].del
          /\ dir' = [dir EXCEPT ![i] = Empty]
    /\ seg' = Invalidate(seg, gc.victim)
    /\ gc' = [gc EXCEPT !.off = @ + 1]
    /\ UNCHANGED <<devVars, memVars, seg_alloc_nr_, stage, staging, q_rel_segs,
                   cl, last, ops, faults>>

\* The record moves: the stripes are locked until it has.
GcLock ==
    /\ Walking
    /\ disk[VictimPba].ts = VictimTs
    /\ \E i \in SlotAt(VictimPba) : ~(dir[i].del /\ gc.drop)
    /\ gc' = [gc EXCEPT !.pc = "alloc", !.locked = TRUE, !.attempt = 0]
    /\ UNCHANGED <<devVars, dir, memVars, salsaVars, cl, last, ops, faults>>

\* The callback failed: the victim goes back to the collector's queues.
\* Nothing of what moved is undone.
GcFailed(m) ==
    /\ seg' = [m EXCEPT ![gc.victim].st = "gc"]
    /\ gc' = NoGc

\* A grain of the relocation stream, which must be in a segment newer than
\* the victim; an older one is closed once, for a fresh segment.
GcAllocate ==
    /\ gc.pc = "alloc"
    /\ CanAllocate("reloc")
    /\ LET p == AllocPba("reloc")
           m == AllocSeg("reloc")
           newer == segTs[p[1]] > VictimTs
       IN  \/ /\ newer /\ segMdOk[p[1]]
              /\ gc' = [gc EXCEPT !.pc = "copy", !.dst = p]
              /\ seg' = m
              /\ stage' = AllocStage("reloc")
           \/ /\ newer /\ ~segMdOk[p[1]]
              /\ GcFailed(Drop(m, p))
              /\ stage' = AllocStage("reloc")
           \/ /\ ~newer /\ gc.attempt = 0
              /\ gc' = [gc EXCEPT !.attempt = 1]
              /\ seg' = [Drop(m, p) EXCEPT ![p[1]].st = "unstaged"]
              /\ stage' = DrainStage("reloc")
           \/ /\ ~newer /\ gc.attempt = 1
              /\ GcFailed(Drop(m, p))
              /\ stage' = AllocStage("reloc")
    /\ UNCHANGED <<devVars, dir, memVars, seg_alloc_nr_, staging, q_rel_segs, cl,
                   last, ops, faults>>

\* No segment for the relocation stream in time (EAGAIN): salsa calls
\* gc_callback() again, and gives up after a thousand calls.
GcNoSpace ==
    /\ gc.pc = "alloc"
    /\ ~CanAllocate("reloc")
    /\ \/ gc' = GcCallback(gc.victim) /\ UNCHANGED seg
       \/ GcFailed(seg)
    /\ UNCHANGED <<devVars, dir, memVars, seg_alloc_nr_, stage, staging,
                   q_rel_segs, cl, last, ops, faults>>

\* The copy carries the timestamp of its new segment.
GcCopyRec == [disk[VictimPba] EXCEPT !.ts = segTs[gc.dst[1]]]

GcCopyOk ==
    /\ gc.pc = "copy"
    /\ disk' = [disk EXCEPT ![gc.dst] = GcCopyRec]
    /\ gc' = [gc EXCEPT !.pc = "repoint"]
    /\ UNCHANGED <<mdTs, last, dir, memVars, salsaVars, cl, ops, faults>>

GcCopyFail ==
    /\ Fault
    /\ gc.pc = "copy"
    /\ disk' \in {disk, [disk EXCEPT ![gc.dst] = GcCopyRec]}
    /\ GcFailed(Drop(seg, gc.dst))
    /\ UNCHANGED <<mdTs, last, dir, memVars, seg_alloc_nr_, stage, staging,
                   q_rel_segs, cl, ops>>

GcRepoint ==
    /\ gc.pc = "repoint"
    /\ \E i \in SlotAt(VictimPba) : dir' = [dir EXCEPT ![i].pba = gc.dst]
    /\ Committed(disk[gc.dst].key, gc.dst)
    /\ seg' = Invalidate(Release(seg, gc.dst[1]), gc.victim)
    /\ gc' = [gc EXCEPT !.pc = "walk", !.off = @ + 1, !.dst = NoPba,
                        !.locked = FALSE]
    /\ UNCHANGED <<devVars, memVars, seg_alloc_nr_, stage, staging, q_rel_segs,
                   cl, ops, faults>>

\* Mutant: the victim is reused without a grace period.
GcSynchronize_NoWait ==
    /\ gc.pc = "walk" /\ gc.off = SegSize
    /\ seg' = [seg EXCEPT ![gc.victim].st = "grace"]
    /\ gc' = NoGc
    /\ UNCHANGED <<devVars, last, dir, memVars, seg_alloc_nr_, stage, staging,
                   q_rel_segs, cl, ops, faults>>

\* Every record moved: synchronize(), and the segment is freed after it.
GcSynchronize ==
    /\ gc.pc = "walk" /\ gc.off = SegSize
    /\ seg' = [seg EXCEPT ![gc.victim].st = "grace", ![gc.victim].grace = Open]
    /\ gc' = NoGc
    /\ UNCHANGED <<devVars, last, dir, memVars, seg_alloc_nr_, stage, staging,
                   q_rel_segs, cl, ops, faults>>

Gc ==
    \/ \E s \in Segs : GcPick(s)
    \/ GcSkip \/ GcDropTombstone \/ GcLock \/ GcAllocate \/ GcNoSpace
    \/ GcCopyOk \/ GcCopyFail \/ GcRepoint \/ GcSynchronize
-----------------------------------------------------------------------------
(* Crash and recovery: open() with no usable index runs crash_recovery().  *)

\* The records a log scan takes as valid, of key k.
Replayed(d, m, k) ==
    {p \in Pbas : m[p[1]] # 0 /\ d[p].ts = m[p[1]] /\ d[p].key = k}

\* recover_record(): the newest record of a key wins.
Newest(d, P) ==
    CHOOSE p \in P : \A q \in P \ {p} : Before(<<d[q].ts, q[2]>>, <<d[p].ts, p[2]>>)

\* Writes in flight at the crash reach the device or not, each on its own.
InFlight ==
    {<<cl[c].pba, RecordOf(c)>> : c \in {x \in Clients : cl[x].pc = "write"}}
        \cup (IF gc.pc = "copy" THEN {<<gc.dst, GcCopyRec>>} ELSE {})

CrashRecover ==
    /\ Fault
    /\ \E landed \in SUBSET InFlight,
          staged \in SUBSET {t \in Streams : staging[t].seg # NoSeg} :
          LET d == [p \in Pbas |->
                        IF \E w \in landed : w[1] = p
                        THEN (CHOOSE w \in landed : w[1] = p)[2] ELSE disk[p]]
              m == [s \in Segs |->
                        IF \E t \in staged : staging[t].seg = s
                        THEN staging[CHOOSE t \in staged : staging[t].seg = s].ts
                        ELSE mdTs[s]]
              found == {k \in Keys : Replayed(d, m, k) # {}}
              win == [k \in found |-> Newest(d, Replayed(d, m, k))]
              live(s) == Cardinality({k \in found : win[k][1] = s})
              free == {s \in Segs : live(s) = 0}
          IN  /\ mdTs' = m /\ disk' = d
              /\ \E order \in Injection(found, Slots) :
                    /\ Range(order) = 0..Cardinality(found) - 1
                    /\ dir' = [i \in Slots |->
                          IF i \in Range(order)
                          THEN LET p == win[CHOOSE k \in found : order[k] = i]
                               IN  [pba |-> p, del |-> d[p].val = Tomb]
                          ELSE Empty]
              /\ last' = [k \in Keys |->
                            IF k \in found THEN <<d[win[k]].ts, win[k][2]>>
                                          ELSE last[k]]
              /\ segTs' = m
              /\ segMdOk' = [s \in Segs |-> m[s] # 0]
              /\ segLive' = [s \in Segs |-> m[s] # 0]
              /\ seg_alloc_nr_' = Max({m[s] : s \in Segs})
              /\ seg' = [s \in Segs |->
                            IF live(s) = 0 THEN FreeSeg
                            ELSE [FreeSeg EXCEPT !.st = "gc", !.next = SegSize,
                                                 !.valid = live(s)]]
              /\ q_rel_segs' \in kSubset(Min({MinRelSegs, Cardinality(free)}), free)
    /\ stage' = [t \in Streams |-> NoSeg]
    /\ staging' = [t \in Streams |-> [seg |-> NoSeg, ts |-> 0]]
    /\ cl' = [c \in Clients |-> NoOp]
    /\ gc' = NoGc
    /\ UNCHANGED ops
-----------------------------------------------------------------------------
Next ==
    \/ \E c \in Clients : Client(c)
    \/ \E t \in Streams : StageBegin(t) \/ StageEnd(t)
    \/ \E s \in Segs : Destage(s) \/ PutFree(s)
    \/ Gc
    \/ CrashRecover

Spec == Init /\ [][Next]_vars
-----------------------------------------------------------------------------
(* Properties.                                                             *)

OpType ==
    [op : {"none", "put", "del", "get"}, key : Keys \cup {Absent},
     val : Vals \cup {Tomb, Absent}, mode : Modes \cup {"upsert"},
     pc : {"idle", "alloc", "space", "write", "probe", "verify", "commit",
           "finish", "got"},
     sec : BOOLEAN, pba : Pbas \cup {NoPba},
     seen : SUBSET [pba : Pbas, match : BOOLEAN], start : Nat,
     cur : Pbas \cup {NoPba}, rep : Pbas \cup {NoPba},
     win : SUBSET (Vals \cup {Absent}), res : Vals \cup {Tomb, Absent}]

\* Every variable has its type; salsa's counts stay within a segment.
TypeOK ==
    /\ mdTs \in [Segs -> 0..MaxTs]
    /\ disk \in [Pbas -> {NoRec} \cup
                   [key : Keys, val : Vals \cup {Tomb}, ts : 1..MaxTs]]
    /\ dir \in [Slots -> {Empty} \cup [pba : Pbas, del : BOOLEAN]]
    /\ segTs \in [Segs -> 0..MaxTs]
    /\ segMdOk \in [Segs -> BOOLEAN] /\ segLive \in [Segs -> BOOLEAN]
    /\ seg_alloc_nr_ \in 0..MaxTs
    /\ \A s \in Segs :
          /\ seg[s].st \in {"free", "staging", "staged", "unstaged", "gc",
                            "victim", "grace"}
          /\ seg[s].next \in 0..SegSize
          /\ seg[s].out \in 0..seg[s].next /\ seg[s].valid \in 0..seg[s].next
          /\ seg[s].grace \subseteq Clients
    /\ stage \in [Streams -> Segs \cup {NoSeg}]
    /\ \A t \in Streams : staging[t] \in [seg : Segs \cup {NoSeg}, ts : 0..MaxTs]
    /\ q_rel_segs \subseteq Segs
    /\ \A c \in Clients : cl[c] \in OpType
    /\ gc \in [pc : {"idle", "walk", "alloc", "copy", "repoint"},
               victim : Segs \cup {NoSeg}, off : 0..SegSize, drop : BOOLEAN,
               dst : Pbas \cup {NoPba}, attempt : 0..1, locked : BOOLEAN]
    /\ last \in [Keys -> (0..MaxTs) \X (0..SegSize - 1)]
    /\ Within(ops, faults)

\* A crash at this moment loses no committed write and brings back nothing a
\* committed write replaced or deleted: of the records a log scan would replay,
\* up to the key's newest commit, the newest is the one the directory points at;
\* where garbage collection has dropped the tombstone from the directory, it is
\* that tombstone or there is none.  This is what newer_than(), kRewrite, the
\* timestamp check of gc_record() and drop_tombstones are for.
RecoveryKeepsCommits ==
    \A k \in Keys :
        LET old == {p \in Replayed(disk, mdTs, k) :
                        ~Before(last[k], <<disk[p].ts, p[2]>>)}
            new == Newest(disk, old)
        IN  /\ SlotsOf(k) # {} =>
                  /\ old # {}
                  /\ \A i \in SlotsOf(k) : dir[i] = [pba |-> new,
                                                    del |-> disk[new].val = Tomb]
            /\ SlotsOf(k) = {} /\ old # {} => disk[new].val = Tomb

\* A key has one entry: racing puts of a new key do not both insert, and no
\* commit acts on a probe that another commit or the collector outdated
\* (probe_settled()).
OneEntryPerKey == \A k \in Keys : Cardinality(SlotsOf(k)) <= 1

\* A get answers with a value the key had, or its absence, at some moment
\* between its start and its return, whatever is replaced, deleted, relocated
\* and reused under it.
GetLinearizable ==
    \A c \in Clients : cl[c].pc = "got" => cl[c].res \in cl[c].win

\* A segment that is free or being staged is one no operation reads or writes,
\* no entry points into and no count is held on.
FreeIsUnreferenced ==
    \A s \in Segs : seg[s].st \in {"free", "staging"} =>
        /\ seg[s].valid = 0 /\ seg[s].out = 0
        /\ \A i \in Used : dir[i].pba[1] # s
        /\ \A c \in Clients :
              s \notin {cl[c].pba[1], cl[c].cur[1], cl[c].rep[1]}
        /\ s \notin {gc.victim, gc.dst[1]}

\* The grains salsa counts as valid in a segment are the ones an entry points
\* at, an operation or the collector still holds, or a commit replaced and is
\* about to invalidate: none is leaked and none is given back twice, on any
\* error path.
ValidIsExact ==
    \A s \in Segs :
        seg[s].valid =
            Cardinality({i \in Used : dir[i].pba[1] = s})
          + Cardinality({c \in Clients : cl[c].pba[1] = s /\ cl[c].pc # "finish"})
          + Cardinality({c \in Clients : cl[c].rep[1] = s})
          + (IF gc.dst[1] = s THEN 1 ELSE 0)

\* An entry only ever moves to a record that recovery orders after every
\* record of the key committed before, be it by a put, a delete or a
\* relocation, and also after the key's tombstone was dropped.
CommitsMoveForward ==
    [][\A i \in Slots :
         faults' = faults /\ dir'[i] # dir[i] /\ dir'[i] # Empty =>
             Before(last[disk'[dir'[i].pba].key], Position(dir'[i].pba))]_vars

\* "so recovery always reproduces the order writes were acknowledged in": for a
\* key with no operation in progress, a log scan ends with the value the store
\* answers with.
RecoveryReproducesAcks ==
    \A k \in Keys :
        (\A c \in Clients : cl[c].key # k) =>
            LET all == Replayed(disk, mdTs, k)
                v == IF all = {} THEN Absent ELSE disk[Newest(disk, all)].val
            IN  Value(k) = IF v = Tomb THEN Absent ELSE v
=============================================================================
