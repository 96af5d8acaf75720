--------------------------- MODULE IndexPersist ---------------------------
(***************************************************************************)
(* The index on the device (src/src/udepot/store.cc 417-1327): the         *)
(* segments the hash tables own, close() writing the tables back, open()   *)
(* restoring them or scanning the log, and crashes between any two writes. *)
(*                                                                         *)
(* A segment on the device has metadata (whose it is and a timestamp) and  *)
(* grains.  A data segment's grains are records.  An index segment's first *)
(* grain is a table's header and slots, its last one the footer; it keeps  *)
(* the records of its past until a table is written over them.             *)
(*                                                                         *)
(* Operations, one record of the collector and a log scan are one step     *)
(* each: their interleavings are the subject of Store, and those of a grow *)
(* with them the subject of Directory.                                     *)
(***************************************************************************)
EXTENDS Naturals, Sequences, FiniteSets, FiniteSetsExt
Seqs == INSTANCE SequencesExt

CONSTANTS Keys, Vals, Segs,
          SegSize,      \* grains of a segment
          BitOf,        \* BitOf[k]: the tag bit that selects k's table of two
          MaxOps,       \* bound: puts and deletes
          MaxTs,        \* bound: numbers given to data segments
          MaxEvents,    \* bound: closes, crashes and failing device operations
          NumbersKept   \* leave out that a data segment's number is given twice

ASSUME IndexPersistAssumption ==
    /\ IsFiniteSet(Segs) /\ SegSize \in Nat /\ SegSize >= 2
    /\ BitOf \in [Keys -> 0..1]
    /\ MaxOps \in Nat /\ MaxTs \in Nat /\ MaxEvents \in Nat
    /\ NumbersKept \in BOOLEAN

VARIABLES
    \* the device
    md,             \* per segment: [type, ts]
    disk,           \* per grain: a record, a table image, a footer or Nothing
    \* memory
    pc,             \* where the store is in its life: see the actions
    dir,            \* per key its entry [pba, del], or NoEntry
    tabs,           \* the tables' segments, in order; NoSeg: unbacked
    fresh,          \* segments of the tables a grow has made so far
    segTs, segLive, \* seg_timestamps_, seg_live_
    seg_alloc_nr_, index_ts_,
    seg,            \* salsa's segments: [st, valid]
    stage,          \* per stream: the staged segment and its next grain
    flush,          \* close(): the timestamp and the writes still to come
    clear,          \* open(): the footers to clear, the index loaded and its counts
    ops, events,
    given           \* history: the largest number a data segment was given

devVars == <<md, disk>>
salsaVars == <<segTs, segLive, seg_alloc_nr_, seg, stage>>
vars == <<devVars, pc, dir, tabs, fresh, salsaVars, index_ts_, flush, clear,
          ops, events, given>>

Pbas == Segs \X (0..SegSize - 1)
Streams == {"data", "reloc"}
NoSeg == "no segment"
NoEntry == [pba |-> <<NoSeg, 0>>, del |-> FALSE]
Nothing == [kind |-> "nothing"]
Absent == "absent"
Tomb == "tombstone"
Torn == [k \in {} |-> NoEntry]

Record(k, v, ts) == [kind |-> "record", key |-> k, val |-> v, ts |-> ts]
Image(id, slots) == [kind |-> "image", id |-> id, slots |-> slots]
Footer(id) == [kind |-> "footer", id |-> id]
Id(ts, n, idx) == [ts |-> ts, dir_size |-> n, idx |-> idx]

First(s) == <<s, 0>>
Last(s) == <<s, SegSize - 1>>
FreeSeg == [st |-> "free", valid |-> 0]
Empty == [seg |-> NoSeg, next |-> 0]
NoFlush == [ts |-> 0, left |-> <<>>]
NoDir == [k \in Keys |-> NoEntry]
NoCount == [s \in Segs |-> 0]
NoClear == [left |-> {}, ok |-> FALSE, dir |-> NoDir, tabs |-> <<>>,
            valid |-> NoCount]
NoStage == [t \in Streams |-> Empty]

\* The table of key k in a directory of n tables.
TableOf(k, n) == IF n = 1 THEN 1 ELSE BitOf[k] + 1
MaxTables == 2

Running == pc \in {"assign", "run"}

\* A fresh store: open() has given the first table its segment.
Init ==
    /\ \E s \in Segs :
          /\ md = [x \in Segs |-> [type |-> IF x = s THEN "index" ELSE "none",
                                   ts |-> 0]]
          /\ tabs = <<s>>
          /\ seg = [x \in Segs |-> [FreeSeg EXCEPT
                                      !.st = IF x = s THEN "index" ELSE "free"]]
    /\ disk = [p \in Pbas |-> Nothing]
    /\ pc = "run"
    /\ dir = NoDir
    /\ fresh = <<>>
    /\ segTs = [s \in Segs |-> 0] /\ segLive = [s \in Segs |-> FALSE]
    /\ seg_alloc_nr_ = 0 /\ index_ts_ = 0
    /\ stage = NoStage
    /\ flush = NoFlush
    /\ clear = NoClear
    /\ ops = 0 /\ events = 0 /\ given = 0
-----------------------------------------------------------------------------
(* A running session: the log.                                             *)

\* Mutant: a grain is invalidated twice.
Invalidate_Twice(m, p) ==
    IF p[1] = NoSeg THEN m ELSE [m EXCEPT ![p[1]].valid = @ - 2]

\* invalidate_grains(): a full segment with no valid grain left is free.
Invalidate(m, p) ==
    IF p[1] = NoSeg THEN m
    ELSE LET n == [m EXCEPT ![p[1]].valid = @ - 1]
         IN  IF n[p[1]].st = "full" /\ n[p[1]].valid = 0
             THEN [n EXCEPT ![p[1]].st = "free"] ELSE n

\* drain_remaining_grains() and the end of a staged segment.
Unstage(m, s) == [m EXCEPT ![s].st = IF m[s].valid = 0 THEN "free" ELSE "full"]

\* A collector drops a tombstone when no older segment has records.
Droppable(s) == \A o \in Segs \ {s} : segLive[o] => segTs[o] >= segTs[s]

InVictim(k) == dir[k] # NoEntry /\ seg[dir[k].pba[1]].st = "full"
Dropped(k) == dir[k].del /\ Droppable(dir[k].pba[1])
Movable(k) == InVictim(k) /\ ~Dropped(k)

\* seg_md_callback(): a free segment becomes stream t's, under the next number.
Stage(t) ==
    /\ IF t = "data" THEN pc = "run" /\ ops < MaxOps
       ELSE Running /\ \E k \in Keys : Movable(k)
    /\ stage[t].seg = NoSeg
    /\ seg_alloc_nr_ < MaxTs
    /\ NumbersKept => seg_alloc_nr_ >= given
    /\ \E s \in Segs :
          /\ seg[s].st = "free"
          /\ md' = [md EXCEPT ![s] = [type |-> "data", ts |-> seg_alloc_nr_ + 1]]
          /\ segTs' = [segTs EXCEPT ![s] = seg_alloc_nr_ + 1]
          /\ segLive' = [segLive EXCEPT ![s] = TRUE]
          /\ seg' = [seg EXCEPT ![s].st = "staged"]
          /\ stage' = [stage EXCEPT ![t] = [seg |-> s, next |-> 0]]
    /\ seg_alloc_nr_' = seg_alloc_nr_ + 1
    /\ given' = Max({given, seg_alloc_nr_ + 1})
    /\ UNCHANGED <<disk, pc, dir, tabs, fresh, index_ts_, flush, clear, ops,
                   events>>

\* newer_than(): segment timestamp, then grain.
newer_than(p, q) == IF p[1] # q[1] THEN segTs[q[1]] < segTs[p[1]] ELSE q[2] < p[2]

NextGrain(t) == <<stage[t].seg, stage[t].next>>

\* A record of key k goes to the next grain of stream t and is committed in
\* place of the key's entry.
Commit(t, k, v) ==
    LET p == NextGrain(t)
        full == p[2] = SegSize - 1
        m == Invalidate([seg EXCEPT ![p[1]].valid = @ + 1], dir[k].pba)
    IN  /\ disk' = [disk EXCEPT ![p] = Record(k, v, segTs[p[1]])]
        /\ dir' = [dir EXCEPT ![k] = [pba |-> p, del |-> v = Tomb]]
        /\ seg' = IF full THEN Unstage(m, p[1]) ELSE m
        /\ stage' = [stage EXCEPT ![t] = IF full THEN Empty
                                         ELSE [@ EXCEPT !.next = @ + 1]]

Held(k) == dir[k] # NoEntry /\ ~dir[k].del
Writing == pc = "run" /\ ops < MaxOps /\ stage["data"].seg # NoSeg
Follows(k) == dir[k] # NoEntry => newer_than(NextGrain("data"), dir[k].pba)

Put(k, v) ==
    /\ Writing /\ Follows(k)
    /\ Commit("data", k, v)
    /\ ops' = ops + 1
    /\ UNCHANGED <<md, pc, tabs, fresh, segTs, segLive, seg_alloc_nr_, index_ts_,
                   flush, clear, events, given>>

Del(k) ==
    /\ Writing /\ Follows(k)
    /\ Held(k)
    /\ Commit("data", k, Tomb)
    /\ ops' = ops + 1
    /\ UNCHANGED <<md, pc, tabs, fresh, segTs, segLive, seg_alloc_nr_, index_ts_,
                   flush, clear, events, given>>

\* kRewrite: the collector has moved the key to a newer segment than the one a
\* put or delete has written to.  The record stays behind, uncommitted, and the
\* staged segment is closed; the operation's next attempt is a Put or Del.
Rewrite(k, v) ==
    /\ Writing /\ ~Follows(k)
    /\ v = Tomb => Held(k)
    /\ LET p == NextGrain("data")
       IN  /\ disk' = [disk EXCEPT ![p] = Record(k, v, segTs[p[1]])]
           /\ seg' = Unstage(seg, p[1])
    /\ stage' = [stage EXCEPT !["data"] = Empty]
    /\ UNCHANGED <<md, pc, dir, tabs, fresh, segTs, segLive, seg_alloc_nr_,
                   index_ts_, flush, clear, ops, events, given>>

\* gc_record() of a victim: a tombstone that guards nothing goes, any other
\* record moves to a newer segment.  (How a relocation segment older than the
\* victim is closed first is part of Store.)
GcRecord(k) ==
    /\ Running
    /\ InVictim(k)
    /\ \/ /\ Dropped(k)
          /\ dir' = [dir EXCEPT ![k] = NoEntry]
          /\ seg' = Invalidate(seg, dir[k].pba)
          /\ UNCHANGED <<disk, stage>>
       \/ /\ Movable(k)
          /\ stage["reloc"].seg # NoSeg
          /\ segTs[stage["reloc"].seg] > segTs[dir[k].pba[1]]
          /\ Commit("reloc", k, disk[dir[k].pba].val)
    /\ UNCHANGED <<md, pc, tabs, fresh, segTs, segLive, seg_alloc_nr_, index_ts_,
                   flush, clear, ops, events, given>>
-----------------------------------------------------------------------------
(* Index segments.                                                         *)

\* A device operation fails, or a session ends.
Event == events < MaxEvents /\ events' = events + 1

\* The metadata of an index segment takes the data segments' current number.
IndexMd(s) == [md EXCEPT ![s] = [type |-> "index", ts |-> seg_alloc_nr_]]

\* allocate_index_segment() and index_seg_md_callback(): a free segment, whose
\* metadata says it is the index's before it is used.  If the write fails, it
\* may have landed or not: the segment's records may still count.
IndexSegment(s, ok) ==
    /\ seg[s].st = "free"
    /\ md' \in IF ok THEN {IndexMd(s)} ELSE {md, IndexMd(s)}
    /\ segLive' = IF ok THEN [segLive EXCEPT ![s] = FALSE] ELSE segLive

FreeAll(m, ss) ==
    [s \in Segs |-> IF \E i \in DOMAIN ss : ss[i] = s THEN FreeSeg ELSE m[s]]

\* A table is full, and the larger directory lacks tables.
Growing ==
    /\ pc = "run"
    /\ fresh # <<>> \/ \E k \in Keys : dir[k] # NoEntry
    /\ 2 * Len(tabs) <= MaxTables
    /\ Len(fresh) < 2 * Len(tabs)

\* grow(): a segment for each table of the larger directory (new_index_table).
GrowTable ==
    /\ Growing
    /\ \E s \in Segs :
          /\ IndexSegment(s, TRUE)
          /\ fresh' = Append(fresh, s)
          /\ seg' = [seg EXCEPT ![s].st = "index"]
    /\ UNCHANGED <<disk, pc, dir, tabs, segTs, seg_alloc_nr_, stage, index_ts_,
                   flush, clear, ops, events, given>>

\* A metadata write fails, or no segment is free: the tables made are retired.
GrowFails ==
    /\ Growing
    /\ \/ /\ Event
          /\ \E s \in Segs : IndexSegment(s, FALSE)
       \/ /\ fresh # <<>>
          /\ \A s \in Segs : seg[s].st # "free"
          /\ UNCHANGED <<md, segLive, events>>
    /\ seg' = FreeAll(seg, fresh)
    /\ fresh' = <<>>
    /\ UNCHANGED <<disk, pc, dir, tabs, segTs, seg_alloc_nr_, stage, index_ts_,
                   flush, clear, ops, given>>

\* The copied directory is published and the old tables are retired
\* (retire_index_table).
GrowPublish ==
    /\ pc = "run"
    /\ fresh # <<>> /\ Len(fresh) = 2 * Len(tabs)
    /\ seg' = FreeAll(seg, tabs)
    /\ tabs' = fresh
    /\ fresh' = <<>>
    /\ UNCHANGED <<devVars, pc, dir, segTs, segLive, seg_alloc_nr_, stage,
                   index_ts_, flush, clear, ops, events, given>>
-----------------------------------------------------------------------------
(* close(): the tables are written back, all of them before any footer.    *)

\* The end of a session: memory is gone.
Forget ==
    /\ pc' = "down"
    /\ dir' = NoDir
    /\ tabs' = <<>> /\ fresh' = <<>>
    /\ segTs' = [s \in Segs |-> 0] /\ segLive' = [s \in Segs |-> FALSE]
    /\ seg_alloc_nr_' = 0 /\ index_ts_' = 0
    /\ seg' = [s \in Segs |-> FreeSeg]
    /\ stage' = NoStage
    /\ flush' = NoFlush
    /\ clear' = NoClear

\* Mutant: the footers are written first.
FlushOrder_FooterFirst(n) ==
    [i \in 1..n |-> <<"footer", i>>] \o [i \in 1..n |-> <<"image", i>>]

\* The writes of flush_index(), in order.
FlushOrder(n) ==
    [i \in 1..n |-> <<"image", i>>] \o [i \in 1..n |-> <<"footer", i>>]

\* close(): the waker and the collector have stopped.  Tables that a grow could
\* not complete (spare_) are not part of the index that is written.
Close ==
    /\ pc = "run"
    /\ Event
    /\ pc' = "flush"
    /\ flush' = [ts |-> Max({index_ts_, seg_alloc_nr_}) + 1,
                 left |-> FlushOrder(Len(tabs))]
    /\ UNCHANGED <<devVars, dir, tabs, fresh, salsaVars, index_ts_, clear, ops,
                   given>>

Slots(i) ==
    [k \in {x \in Keys : TableOf(x, Len(tabs)) = i} |-> dir[k]]

\* The device after write w of the flush; a table's slots may be torn.
Written(w, slots) ==
    LET s == tabs[w[2]]
        id == Id(flush.ts, Len(tabs), w[2])
    IN  IF w[1] = "footer" THEN [disk EXCEPT ![Last(s)] = Footer(id)]
        ELSE [p \in Pbas |-> IF p = First(s) THEN Image(id, slots)
                             ELSE IF p[1] = s /\ p # Last(s) THEN Nothing
                             ELSE disk[p]]

FlushWrite ==
    /\ pc = "flush" /\ flush.left # <<>>
    /\ disk' = Written(Head(flush.left), Slots(Head(flush.left)[2]))
    /\ flush' = [flush EXCEPT !.left = Tail(@)]
    /\ UNCHANGED <<md, pc, dir, tabs, fresh, salsaVars, index_ts_, clear, ops,
                   events, given>>

\* A write the device did not finish: not at all, in part, or unacknowledged.
Unfinished == {disk} \cup {Written(Head(flush.left), sl) :
                             sl \in {Torn, Slots(Head(flush.left)[2])}}

\* Written back, or a write failed and the rest is not attempted.
Closed ==
    /\ pc = "flush"
    /\ \/ flush.left = <<>> /\ UNCHANGED <<disk, events>>
       \/ flush.left # <<>> /\ Event /\ disk' \in Unfinished
    /\ Forget
    /\ UNCHANGED <<md, ops, given>>

Crash ==
    /\ pc # "down"
    /\ Event
    /\ disk' \in IF pc = "flush" /\ flush.left # <<>> THEN Unfinished ELSE {disk}
    /\ Forget
    /\ UNCHANGED <<md, ops, given>>
-----------------------------------------------------------------------------
(* open(): restore_index(), then crash_recovery() if nothing was restored. *)

DataSegs == {s \in Segs : md[s].type = "data"}

\* Index segments with a valid footer, and those whose header matches it.
Found == {s \in Segs : md[s].type = "index" /\ disk[Last(s)].kind = "footer"}
Matched == {s \in Found : /\ disk[First(s)].kind = "image"
                          /\ disk[First(s)].id = disk[Last(s)].id}
HdrOf(s) == disk[Last(s)].id

\* Of those, the newest index.
NewestSet == {s \in Matched : \A o \in Matched : HdrOf(o).ts <= HdrOf(s).ts}

\* A complete set: every table of the directory, once.
Complete(set) ==
    /\ set # {}
    /\ \A s \in set : HdrOf(s).dir_size = Cardinality(set)
    /\ \A s, o \in set : s # o => HdrOf(s).idx # HdrOf(o).idx

\* The slots of a set of segments; a key without a table has no entry.
Loaded(set) ==
    [k \in Keys |->
       LET of == {s \in set : k \in DOMAIN disk[First(s)].slots}
       IN  IF of = {} THEN NoEntry
           ELSE disk[First(CHOOSE s \in of : TRUE)].slots[k]]

\* Every entry lies in a data segment, a deleted one at a tombstone of it.
Accounted(d) ==
    \A k \in Keys :
       d[k] # NoEntry =>
          LET s == d[k].pba[1]
          IN  /\ s \in DataSegs
              /\ d[k].del => disk[d[k].pba] = Record(k, Tomb, md[s].ts)

Restorable == Complete(NewestSet) /\ Accounted(Loaded(NewestSet))

\* restore_index() counts while it walks the tables' slots: the live entries
\* first, then the deleted ones it has put by, each for its tombstone.
Counted(set) ==
    LET slots == UNION {{<<s, k>> : k \in DOMAIN disk[First(s)].slots} : s \in set}
        entry(x) == disk[First(x[1])].slots[x[2]]
        tombs == {x \in slots : entry(x) # NoEntry /\ entry(x).del}
        live == {x \in slots : entry(x) # NoEntry} \ tombs
        account(x, valid) == [valid EXCEPT ![entry(x).pba[1]] = @ + 1]
    IN  FoldSet(account, FoldSet(account, NoCount, live), tombs)

\* The segments of a set in the order of their tables.
InOrder(set) ==
    [i \in 1..Cardinality(set) |-> CHOOSE s \in set : HdrOf(s).idx = i]

\* The scan of open(): what it finds is loaded, and reading it may fail.  (An
\* error of the scan itself fails the open, and changes nothing.)
Open ==
    /\ pc = "down"
    /\ pc' = "clear"
    /\ \E ok \in {Restorable, FALSE} :
          /\ IF ok = Restorable THEN UNCHANGED events ELSE Event
          /\ clear' = [left |-> Found, ok |-> ok,
                       dir |-> IF ok THEN Loaded(NewestSet) ELSE NoDir,
                       tabs |-> IF ok THEN InOrder(NewestSet) ELSE <<>>,
                       valid |-> IF ok THEN Counted(NewestSet) ELSE NoCount]
    /\ index_ts_' = Max({0} \cup
                        {disk[First(s)].id.ts : s \in
                           {x \in Segs : /\ md[x].type = "index"
                                         /\ disk[First(x)].kind = "image"}}
                        \cup {HdrOf(s).ts : s \in Found})
    /\ UNCHANGED <<devVars, dir, tabs, fresh, salsaVars, flush, ops, given>>

\* Mutant: only the footers of an index that is restored are cleared.
ClearFooter_OnlyRestored ==
    /\ pc = "clear"
    /\ \E s \in clear.left :
          /\ disk' = IF clear.ok THEN [disk EXCEPT ![Last(s)] = Nothing] ELSE disk
          /\ clear' = [clear EXCEPT !.left = @ \ {s}]
    /\ UNCHANGED <<md, pc, dir, tabs, fresh, salsaVars, index_ts_, flush, ops,
                   events, given>>

\* Every valid footer is cleared before anything is written.
ClearFooter ==
    /\ pc = "clear"
    /\ \E s \in clear.left :
          /\ disk' = [disk EXCEPT ![Last(s)] = Nothing]
          /\ clear' = [clear EXCEPT !.left = @ \ {s}]
    /\ UNCHANGED <<md, pc, dir, tabs, fresh, salsaVars, index_ts_, flush, ops,
                   events, given>>

\* A footer that cannot be cleared fails the open, whether or not it landed.
ClearFails ==
    /\ pc = "clear"
    /\ Event
    /\ \E s \in clear.left : disk' \in {disk, [disk EXCEPT ![Last(s)] = Nothing]}
    /\ Forget
    /\ UNCHANGED <<md, ops, given>>

\* Mutant: the tables' segments are not restored.
RestoreRanges_NoTables(valid, ts) ==
    [s \in Segs |-> [st |-> IF valid[s] = 0 THEN "free" ELSE "full",
                     valid |-> valid[s]]]

\* restore_grain_range() of the tables' segments and of the data segments with
\* a valid grain: salsa's segments, from the counts the way of opening made.
RestoreRanges(valid, ts) ==
    [s \in Segs |-> [st |-> IF \E i \in DOMAIN ts : ts[i] = s THEN "index"
                            ELSE IF valid[s] = 0 THEN "free" ELSE "full",
                     valid |-> valid[s]]]

\* What both ways of opening restore from the data segments' metadata.
SessionStarts(d, ts, valid) ==
    /\ dir' = d
    /\ tabs' = ts
    /\ segTs' = [s \in Segs |-> IF s \in DataSegs THEN md[s].ts ELSE 0]
    /\ segLive' = [s \in Segs |-> s \in DataSegs]
    /\ seg_alloc_nr_' = Max({0} \cup {md[s].ts : s \in DataSegs})
    /\ seg' = RestoreRanges(valid, ts)
    /\ clear' = NoClear
    /\ UNCHANGED <<devVars, fresh, stage, index_ts_, flush, ops, events, given>>

\* The end of restore_index(): the index that was persisted is the directory.
Restore ==
    /\ pc = "clear" /\ clear.left = {}
    /\ clear.ok
    /\ pc' = "run"
    /\ SessionStarts(clear.dir, clear.tabs, clear.valid)

\* A record that the scan accepts: of its segment's current number.
Accepted(p) == disk[p].kind = "record" /\ disk[p].ts = md[p[1]].ts
NewerPba(p, q) == \/ md[p[1]].ts > md[q[1]].ts
                  \/ p[1] = q[1] /\ p[2] > q[2]

\* Mutant: the record a newer one replaces is still counted.
recover_record_KeepOld(r, p) ==
    LET k == disk[p].key
    IN  IF r.dir[k] # NoEntry /\ ~NewerPba(p, r.dir[k].pba) THEN r
        ELSE [dir |-> [r.dir EXCEPT ![k] = [pba |-> p, del |-> disk[p].val = Tomb]],
              valid |-> [r.valid EXCEPT ![p[1]] = @ + 1]]

\* recover_record(): the record is inserted and counted, takes the place and the
\* count of an older one of its key, or is passed over for a newer one.
recover_record(r, p) ==
    LET k == disk[p].key
        old == r.dir[k]
        new == [r.dir EXCEPT ![k] = [pba |-> p, del |-> disk[p].val = Tomb]]
    IN  IF old = NoEntry
        THEN [dir |-> new, valid |-> [r.valid EXCEPT ![p[1]] = @ + 1]]
        ELSE IF NewerPba(p, old.pba)
        THEN [dir |-> new, valid |-> [r.valid EXCEPT ![old.pba[1]] = @ - 1,
                                                     ![p[1]] = @ + 1]]
        ELSE r

\* crash_recovery(): the data segments in their order on the device, which is
\* any, and the records of each in order.
LogScan(order) ==
    LET grains == [i \in 1..SegSize * Len(order) |->
                     <<order[(i - 1) \div SegSize + 1], (i - 1) % SegSize>>]
    IN  Seqs!FoldLeft(recover_record, [dir |-> NoDir, valid |-> NoCount],
                      SelectSeq(grains, Accepted))

\* Its tables are unbacked; it may have grown while it was filled.
Recover ==
    /\ pc = "clear" /\ clear.left = {}
    /\ ~clear.ok
    /\ pc' = "assign"
    /\ \E order \in Seqs!SetToSeqs(DataSegs), n \in 1..MaxTables :
          LET r == LogScan(order)
          IN  SessionStarts(r.dir, [i \in 1..n |-> NoSeg], r.valid)

Unbacked == {i \in DOMAIN tabs : tabs[i] = NoSeg}

\* assign_index_segments(), while the collector runs.
AssignTable ==
    /\ pc = "assign"
    /\ \E s \in Segs :
          /\ IndexSegment(s, TRUE)
          /\ tabs' = [tabs EXCEPT ![Min(Unbacked)] = s]
          /\ seg' = [seg EXCEPT ![s].st = "index"]
    /\ pc' = IF Cardinality(Unbacked) = 1 THEN "run" ELSE "assign"
    /\ UNCHANGED <<disk, dir, fresh, segTs, seg_alloc_nr_, stage, index_ts_,
                   flush, clear, ops, events, given>>

\* No segment in time, or its metadata was not written: open() fails.
AssignFails ==
    /\ pc = "assign"
    /\ \/ /\ Event
          /\ \E s \in Segs : seg[s].st = "free" /\ md' \in {md, IndexMd(s)}
       \/ /\ \A s \in Segs : seg[s].st # "free"
          /\ UNCHANGED <<md, events>>
    /\ Forget
    /\ UNCHANGED <<disk, ops, given>>

Next ==
    \/ \E t \in Streams : Stage(t)
    \/ \E k \in Keys : Del(k) \/ GcRecord(k) \/ \E v \in Vals : Put(k, v)
    \/ \E k \in Keys, v \in Vals \cup {Tomb} : Rewrite(k, v)
    \/ GrowTable \/ GrowFails \/ GrowPublish
    \/ Close \/ FlushWrite \/ Closed
    \/ Crash
    \/ Open \/ ClearFooter \/ ClearFails \/ Restore
    \/ Recover \/ AssignTable \/ AssignFails

Spec == Init /\ [][Next]_vars
-----------------------------------------------------------------------------
(* Properties.                                                             *)

\* Type correctness: the variables keep the ranges of the members of uDepot
\* (store.h) and the segment counts of salsa.
TypeOK ==
    /\ md \in [Segs -> [type : {"none", "data", "index"}, ts : 0..MaxTs]]
    /\ DOMAIN disk = Pbas
    /\ pc \in {"down", "clear", "assign", "run", "flush"}
    /\ dir \in [Keys -> [pba : Pbas \cup {<<NoSeg, 0>>}, del : BOOLEAN]]
    /\ tabs \in Seq(Segs \cup {NoSeg}) /\ fresh \in Seq(Segs)
    /\ segTs \in [Segs -> 0..MaxTs] /\ segLive \in [Segs -> BOOLEAN]
    /\ seg_alloc_nr_ \in 0..MaxTs /\ index_ts_ \in Nat
    /\ seg \in [Segs -> [st : {"free", "staged", "full", "index"},
                         valid : 0..SegSize]]

\* What the log says: each key's newest record that a scan accepts.
LogDir ==
    [k \in Keys |->
       LET of == {p \in Pbas : p[1] \in DataSegs /\ Accepted(p) /\ disk[p].key = k}
           newest == CHOOSE p \in of : \A q \in of \ {p} : NewerPba(p, q)
       IN  IF of = {} THEN NoEntry
           ELSE [pba |-> newest, del |-> disk[newest].val = Tomb]]

\* What a directory says the keys hold.
ContentsOf(d) ==
    [k \in Keys |-> IF d[k] = NoEntry \/ d[k].del THEN Absent
                    ELSE disk[d[k].pba].val]

\* The contents: the directory's while there is one, and what open() finds
\* while there is none.
Contents ==
    ContentsOf(CASE pc = "down" -> IF Restorable THEN Loaded(NewestSet) ELSE LogDir
                 [] pc = "clear" -> IF clear.ok THEN clear.dir ELSE LogDir
                 [] OTHER -> dir)

Map == INSTANCE DurableMap WITH kv <- Contents, done <- ops

\* The store over its sessions implements DurableMap: only puts and deletes
\* change the contents.  close() and open() in steps, a crash between any two of
\* them, a failed or torn write of the index, a grow and the collector do not,
\* as long as no number is given to two data segments (NumbersKept).
ImplementsDurableMap == Map!Spec

\* Whenever the device holds an index that restore_index() would load, it says
\* the same as the log: an index is complete only once all of it is written, and
\* no valid footer is left once a session may write.
IndexAgreesWithLog ==
    Restorable => ContentsOf(Loaded(NewestSet)) = ContentsOf(LogDir)

\* The valid-grain counts are those of the entries, whichever way the session
\* was opened and whatever it did since: restore_index() adds them up from the
\* slots it loads, crash_recovery() record by record as newer ones replace
\* older ones in any order of the segments, and a running session with every
\* commit.  A segment that is free or a table's holds no entry.
SegmentsExact ==
    pc \in {"assign", "run", "flush"} =>
       \A s \in Segs :
          /\ seg[s].valid = Cardinality({k \in Keys : dir[k].pba[1] = s})
          /\ seg[s].st \in {"free", "index"} => seg[s].valid = 0

\* Every table of a session, and every table a grow has made, has a segment of
\* its own that salsa counts as used and whose metadata on the device says it is
\* the index's: close() writes over nothing else and the next open finds it.
TablesOwnSegments ==
    pc \in {"run", "flush"} =>
       LET all == tabs \o fresh
       IN  /\ \A i, j \in DOMAIN all : i # j => all[i] # all[j]
           /\ \A i \in DOMAIN all : /\ seg[all[i]].st = "index"
                                    /\ md[all[i]].type = "index"

\* "Once the index's metadata is on the device, no record the segment held can
\* come back" (index_seg_md_callback): a step that is no operation changes no
\* key's value.  Checked with numbers as the code gives them: the counter
\* restarts from the data segments alone, so a segment can be staged again under
\* the number of the records it still holds.
NoRecordComesBack == [][ops' = ops => Contents' = Contents]_vars
=============================================================================
