-------------------------------- MODULE Rcu --------------------------------
(***************************************************************************)
(* udepot::Rcu (src/src/udepot/rcu.h, rcu.cc): userspace RCU with          *)
(* per-thread lock and unlock counters for two grace-period indices.       *)
(*                                                                         *)
(* A reader bumps a lock counter on the slot of the thread that opens its  *)
(* section and an unlock counter on the slot of the thread that closes it. *)
(* synchronize() reads the slots one by one while readers run.             *)
(*                                                                         *)
(* Memory model: a counter bump goes through the FIFO store buffer of the  *)
(* thread that makes it, so a reader's loads may overtake its lock bump;   *)
(* heavy_barrier() (membarrier) empties every buffer.  With ReaderFence    *)
(* the reader fences itself and its bump is visible at once.               *)
(*                                                                         *)
(* The protected data is one published pointer whose successive values are *)
(* the naturals 0, 1, ...; an updater replaces it and frees the value it   *)
(* replaced after synchronize() or through call().                         *)
(***************************************************************************)
EXTENDS Naturals, Sequences, FiniteSets, FiniteSetsExt

CONSTANTS Threads,      \* threads that run read-side sections
          Sections,     \* read-side sections (coroutines holding a ReadGuard)
          Updaters,     \* threads that replace and reclaim the pointer
          Reclaimer,    \* the thread behind call()
          kMaxThreads,  \* slots; threads beyond them use the shared slot
          ReaderFence,  \* g_reader_fence
          MaxEntries,   \* bound: read-side sections ever opened
          MaxVersion    \* bound: times the pointer is replaced

Nobody == "nobody"
Callers == Updaters \cup {Reclaimer}

\* A waits value that is no set of sections.
NotWaiting == {"not waiting"}

ASSUME RcuAssumption ==
    /\ IsFiniteSet(Threads) /\ IsFiniteSet(Sections)
    /\ Reclaimer \notin Updaters /\ Nobody \notin Callers
    /\ "not waiting" \notin Sections
    /\ kMaxThreads \in Nat
    /\ ReaderFence \in BOOLEAN
    /\ MaxEntries \in Nat /\ MaxVersion \in Nat

VARIABLES
    gp_idx_,    \* current index, counted modulo 2
    lock,       \* lock[s][i]: lock bumps visible on slot s for index i
    unlock,     \* unlock[s][i]
    in_use_,    \* slots owned by a thread
    slotOf,     \* per thread: the slot it last used, or NoSlot
    buf,        \* per thread: its store buffer
    sect,       \* per section: [st, on, idx, ref]
    entries,    \* sections opened so far
    gp,         \* the synchronize() that holds gp_mu_
    sync,       \* per caller of synchronize(): "no", "want", "in", "done"
    waits,      \* per caller: sections open at its call that have not ended
    cur,        \* the published pointer
    freed,      \* values of the pointer that were freed
    upd,        \* per updater: [pc, old, target, before]
    cb_queue_, cb_queued_, cb_done_, cb_stop_,
    rec         \* the reclaimer: [pc, batch, n]

readerVars == <<slotOf, in_use_, buf, sect, entries>>
counterVars == <<lock, unlock>>
gpVars == <<gp_idx_, gp, sync, waits>>
cbVars == <<cb_queue_, cb_queued_, cb_done_, cb_stop_>>
vars == <<readerVars, counterVars, gpVars, cbVars, cur, freed, upd, rec>>

kShared == kMaxThreads
Slots == 0..kMaxThreads
NoSlot == kMaxThreads + 1
NoPtr == MaxVersion + 1
Versions == 0..MaxVersion

\* slot order of drained(): the shared slot first, then slots_[0], ...
ScanOrder == <<kShared>> \o [i \in 1..kMaxThreads |-> i - 1]

IdleSection == [st |-> "idle", on |-> Nobody, idx |-> 0, ref |-> NoPtr]

reading == {c \in Sections : sect[c].st = "reading"}

Init ==
    /\ gp_idx_ = 0
    /\ lock = [s \in Slots |-> [i \in 0..1 |-> 0]]
    /\ unlock = [s \in Slots |-> [i \in 0..1 |-> 0]]
    /\ in_use_ = [s \in 0..kMaxThreads - 1 |-> FALSE]
    /\ slotOf = [t \in Threads |-> NoSlot]
    /\ buf = [t \in Threads |-> <<>>]
    /\ sect = [c \in Sections |-> IdleSection]
    /\ entries = 0
    /\ gp = [by |-> Nobody, pc |-> "idle", k |-> 0, unlocks |-> 0, locks |-> 0]
    /\ sync = [p \in Callers |-> "no"]
    /\ waits = [p \in Callers |-> NotWaiting]
    /\ cur = 0
    /\ freed = {}
    /\ upd = [u \in Updaters |->
                [pc |-> "idle", old |-> 0, target |-> 0, before |-> {}]]
    /\ cb_queue_ = <<>> /\ cb_queued_ = 0 /\ cb_done_ = 0 /\ cb_stop_ = FALSE
    /\ rec = [pc |-> "none", batch |-> <<>>, n |-> 0]
-----------------------------------------------------------------------------
(* Readers.                                                                *)

\* claim_slot(): the first slot not in use, else the shared one.
ClaimSlot ==
    LET free == {s \in 0..kMaxThreads - 1 : ~in_use_[s]}
    IN  IF free = {} THEN kShared ELSE Min(free)

\* this_thread_slot(): a cached slot, or a claim.  A thread on the shared slot
\* claims again when its one-entry cache was taken by another instance.
ThisThreadSlot(t, s) ==
    /\ \/ slotOf[t] # NoSlot /\ s = slotOf[t]
       \/ slotOf[t] \in {NoSlot, kShared} /\ s = ClaimSlot
    /\ slotOf' = [slotOf EXCEPT ![t] = s]
    /\ in_use_' = IF s = kShared THEN in_use_
                                 ELSE [in_use_ EXCEPT ![s] = TRUE]

\* No section is half way through read_lock() on thread t.
ThreadFree(t) == \A c \in Sections : ~(sect[c].st = "entering" /\ sect[c].on = t)

Bump(t, s, ctr, i) ==
    IF ReaderFence
    THEN /\ lock' = IF ctr = "lock" THEN [lock EXCEPT ![s][i] = @ + 1] ELSE lock
         /\ unlock' = IF ctr = "unlock" THEN [unlock EXCEPT ![s][i] = @ + 1]
                                        ELSE unlock
         /\ UNCHANGED buf
    ELSE /\ buf' = [buf EXCEPT ![t] =
                        Append(@, [ctr |-> ctr, slot |-> s, idx |-> i])]
         /\ UNCHANGED counterVars

\* read_lock() up to the load of gp_idx_: the index may be stale by the time
\* the counter is bumped.
ReadLockLoad(c, t) ==
    /\ ~cb_stop_
    /\ sect[c].st = "idle"
    /\ ThreadFree(t)
    /\ entries < MaxEntries
    /\ entries' = entries + 1
    /\ \E s \in Slots : ThisThreadSlot(t, s)
    /\ sect' = [sect EXCEPT ![c] = [st |-> "entering", on |-> t,
                                    idx |-> gp_idx_, ref |-> NoPtr]]
    /\ UNCHANGED <<buf, counterVars, gpVars, cbVars, cur, freed, upd, rec>>

ReadLockBump(c) ==
    /\ sect[c].st = "entering"
    /\ Bump(sect[c].on, slotOf[sect[c].on], "lock", sect[c].idx)
    /\ sect' = [sect EXCEPT ![c].st = "reading"]
    /\ UNCHANGED <<slotOf, in_use_, entries, gpVars, cbVars, cur, freed, upd,
                   rec>>

\* A protected load inside the section.
ReadPtr(c) ==
    /\ sect[c].st = "reading"
    /\ sect[c].ref = NoPtr
    /\ sect' = [sect EXCEPT ![c].ref = cur]
    /\ UNCHANGED <<slotOf, in_use_, buf, entries, counterVars, gpVars, cbVars,
                   cur, freed, upd, rec>>

\* read_unlock() on thread u.  A section that moved from another thread was
\* handed over with release/acquire, so that thread's stores are visible.
ReadUnlock(c, u) ==
    /\ sect[c].st = "reading"
    /\ u = sect[c].on \/ buf[sect[c].on] = <<>>
    /\ ThreadFree(u)
    /\ \E s \in Slots : /\ ThisThreadSlot(u, s)
                        /\ Bump(u, s, "unlock", sect[c].idx)
    /\ sect' = [sect EXCEPT ![c] = IdleSection]
    /\ waits' = [p \in Callers |-> IF waits[p] = NotWaiting THEN NotWaiting
                                                            ELSE waits[p] \ {c}]
    /\ UNCHANGED <<entries, gp_idx_, gp, sync, cbVars, cur, freed, upd, rec>>

\* The store buffer drains by itself, oldest store first.
FlushOne(t) ==
    /\ buf[t] # <<>>
    /\ LET b == Head(buf[t])
       IN  /\ lock' = IF b.ctr = "lock"
                      THEN [lock EXCEPT ![b.slot][b.idx] = @ + 1] ELSE lock
           /\ unlock' = IF b.ctr = "unlock"
                        THEN [unlock EXCEPT ![b.slot][b.idx] = @ + 1] ELSE unlock
    /\ buf' = [buf EXCEPT ![t] = Tail(@)]
    /\ UNCHANGED <<slotOf, in_use_, sect, entries, gpVars, cbVars, cur, freed,
                   upd, rec>>

\* Mutant: the slot's counts start again from zero for its next owner.
ThreadExit_ResetCounts(t) ==
    /\ slotOf[t] # NoSlot
    /\ ThreadFree(t)
    /\ buf[t] = <<>>
    /\ in_use_' = IF slotOf[t] = kShared THEN in_use_
                                         ELSE [in_use_ EXCEPT ![slotOf[t]] = FALSE]
    /\ lock' = [lock EXCEPT ![slotOf[t]] = [i \in 0..1 |-> 0]]
    /\ unlock' = [unlock EXCEPT ![slotOf[t]] = [i \in 0..1 |-> 0]]
    /\ slotOf' = [slotOf EXCEPT ![t] = NoSlot]
    /\ UNCHANGED <<buf, sect, entries, gpVars, cbVars, cur, freed, upd, rec>>

\* Mutant: releases in_use_[kShared], past the end of the array.
ThreadExit_KeepShared(t) ==
    /\ slotOf[t] # NoSlot
    /\ ThreadFree(t)
    /\ buf[t] = <<>>
    /\ in_use_' = [s \in DOMAIN in_use_ \cup {slotOf[t]} |->
                      s # slotOf[t] /\ in_use_[s]]
    /\ slotOf' = [slotOf EXCEPT ![t] = NoSlot]
    /\ UNCHANGED <<buf, sect, entries, counterVars, gpVars, cbVars, cur, freed,
                   upd, rec>>

\* Thread exit: ~ThreadSlots releases the slot under slots_mu_, so the next
\* owner starts from the counts this thread left.
ThreadExit(t) ==
    /\ slotOf[t] # NoSlot
    /\ ThreadFree(t)
    /\ buf[t] = <<>>
    /\ in_use_' = IF slotOf[t] = kShared THEN in_use_
                                         ELSE [in_use_ EXCEPT ![slotOf[t]] = FALSE]
    /\ slotOf' = [slotOf EXCEPT ![t] = NoSlot]
    /\ UNCHANGED <<buf, sect, entries, counterVars, gpVars, cbVars, cur, freed,
                   upd, rec>>
-----------------------------------------------------------------------------
(* Grace periods.                                                          *)

\* The stores in the buffers, by thread and place.
Stores == UNION {{t} \X DOMAIN buf[t] : t \in Threads}

Pending(s, ctr, i) ==
    Cardinality({p \in Stores :
                    buf[p[1]][p[2]] = [ctr |-> ctr, slot |-> s, idx |-> i]})

\* Mutant: a fence of the calling thread only, without membarrier.
HeavyBarrier_CallerOnly == UNCHANGED <<lock, unlock, buf>>

\* heavy_barrier(): every store made so far, on any thread, becomes visible.
HeavyBarrier ==
    /\ lock' = [s \in Slots |-> [i \in 0..1 |->
                    lock[s][i] + Pending(s, "lock", i)]]
    /\ unlock' = [s \in Slots |-> [i \in 0..1 |->
                    unlock[s][i] + Pending(s, "unlock", i)]]
    /\ buf' = [t \in Threads |-> <<>>]

\* The scan of drained(): unlocks, then a barrier, then locks.
StartScan(pc) == [gp EXCEPT !.pc = pc, !.k = 1, !.unlocks = 0, !.locks = 0]

\* Which index the running scan reads: before the flip the other one, after
\* it the one that was current, which the flip made the other one.
ScanIdx == 1 - gp_idx_

\* Mutant: flips without draining the other index first.
SyncLock_NoFirstDrain(p) ==
    /\ sync[p] = "want"
    /\ gp.by = Nobody
    /\ sync' = [sync EXCEPT ![p] = "in"]
    /\ gp' = [StartScan("flip") EXCEPT !.by = p]
    /\ HeavyBarrier
    /\ UNCHANGED <<slotOf, in_use_, sect, entries, gp_idx_, waits, cbVars, cur,
                   freed, upd, rec>>

\* synchronize() entered: gp_mu_ taken, then the first barrier.
SyncLock(p) ==
    /\ sync[p] = "want"
    /\ gp.by = Nobody
    /\ sync' = [sync EXCEPT ![p] = "in"]
    /\ gp' = [StartScan("unlocks_before") EXCEPT !.by = p]
    /\ HeavyBarrier
    /\ UNCHANGED <<slotOf, in_use_, sect, entries, gp_idx_, waits, cbVars, cur,
                   freed, upd, rec>>

SyncScanUnlock ==
    /\ gp.pc \in {"unlocks_before", "unlocks_after"}
    /\ gp.k <= Len(ScanOrder)
    /\ gp' = [gp EXCEPT !.unlocks = @ + unlock[ScanOrder[gp.k]][ScanIdx],
                        !.k = @ + 1]
    /\ UNCHANGED <<readerVars, counterVars, gp_idx_, sync, waits, cbVars, cur,
                   freed, upd, rec>>

SyncScanBarrier ==
    /\ gp.pc \in {"unlocks_before", "unlocks_after"}
    /\ gp.k > Len(ScanOrder)
    /\ HeavyBarrier
    /\ gp' = [gp EXCEPT !.pc = IF @ = "unlocks_before" THEN "locks_before"
                                                       ELSE "locks_after",
                        !.k = 1]
    /\ UNCHANGED <<slotOf, in_use_, sect, entries, gp_idx_, sync, waits, cbVars,
                   cur, freed, upd, rec>>

SyncScanLock ==
    /\ gp.pc \in {"locks_before", "locks_after"}
    /\ gp.k <= Len(ScanOrder)
    /\ gp' = [gp EXCEPT !.locks = @ + lock[ScanOrder[gp.k]][ScanIdx],
                        !.k = @ + 1]
    /\ UNCHANGED <<readerVars, counterVars, gp_idx_, sync, waits, cbVars, cur,
                   freed, upd, rec>>

\* drained() returned: scan again, or go on to the flip or to the end.
SyncDrained ==
    /\ gp.pc \in {"locks_before", "locks_after"}
    /\ gp.k > Len(ScanOrder)
    /\ gp' = CASE gp.locks # gp.unlocks /\ gp.pc = "locks_before"
                    -> StartScan("unlocks_before")
               [] gp.locks # gp.unlocks /\ gp.pc = "locks_after"
                    -> StartScan("unlocks_after")
               [] gp.locks = gp.unlocks /\ gp.pc = "locks_before"
                    -> StartScan("flip")
               [] gp.locks = gp.unlocks /\ gp.pc = "locks_after"
                    -> StartScan("end")
    /\ UNCHANGED <<readerVars, counterVars, gp_idx_, sync, waits, cbVars, cur,
                   freed, upd, rec>>

SyncFlip ==
    /\ gp.pc = "flip"
    /\ gp_idx_' = 1 - gp_idx_
    /\ gp' = [gp EXCEPT !.pc = "flipped"]
    /\ UNCHANGED <<readerVars, counterVars, sync, waits, cbVars, cur, freed,
                   upd, rec>>

SyncFlipBarrier ==
    /\ gp.pc = "flipped"
    /\ HeavyBarrier
    /\ gp' = StartScan("unlocks_after")
    /\ UNCHANGED <<slotOf, in_use_, sect, entries, gp_idx_, sync, waits, cbVars,
                   cur, freed, upd, rec>>

\* The last barrier, and gp_mu_ released.
SyncEnd ==
    /\ gp.pc = "end"
    /\ HeavyBarrier
    /\ sync' = [sync EXCEPT ![gp.by] = "done"]
    /\ waits' = [waits EXCEPT ![gp.by] = NotWaiting]
    /\ gp' = [by |-> Nobody, pc |-> "idle", k |-> 0, unlocks |-> 0, locks |-> 0]
    /\ UNCHANGED <<slotOf, in_use_, sect, entries, gp_idx_, cbVars, cur, freed,
                   upd, rec>>

\* A thread calls synchronize(): from here on it waits for the open sections.
CallSync(p) ==
    /\ sync' = [sync EXCEPT ![p] = "want"]
    /\ waits' = [waits EXCEPT ![p] = reading]
-----------------------------------------------------------------------------
(* Updaters: replace the pointer, then reclaim the value it had.           *)

Replace(u) ==
    /\ ~cb_stop_
    /\ upd[u].pc = "idle"
    /\ cur < MaxVersion
    /\ cur' = cur + 1
    /\ upd' = [upd EXCEPT ![u].pc = "replaced", ![u].old = cur]
    /\ UNCHANGED <<readerVars, counterVars, gpVars, cbVars, freed, rec>>

UpdaterSync(u) ==
    /\ upd[u].pc = "replaced"
    /\ CallSync(u)
    /\ upd' = [upd EXCEPT ![u].pc = "syncing"]
    /\ UNCHANGED <<readerVars, counterVars, gp_idx_, gp, cbVars, cur, freed, rec>>

UpdaterFree(u) ==
    /\ upd[u].pc = "syncing"
    /\ sync[u] = "done"
    /\ sync' = [sync EXCEPT ![u] = "no"]
    /\ freed' = freed \cup {upd[u].old}
    /\ upd' = [upd EXCEPT ![u].pc = "idle", ![u].old = 0]
    /\ UNCHANGED <<readerVars, counterVars, gp_idx_, gp, waits, cbVars, cur, rec>>

\* Mutant: the reclaimer is not started.
Call_NoThread(u) ==
    /\ upd[u].pc = "replaced"
    /\ cb_queue_' = Append(cb_queue_, upd[u].old)
    /\ cb_queued_' = cb_queued_ + 1
    /\ upd' = [upd EXCEPT ![u].pc = "called", ![u].old = 0]
    /\ UNCHANGED <<readerVars, counterVars, gpVars, cb_done_, cb_stop_, cur,
                   freed, rec>>

\* call(): queue the callback that frees the old value; the first call starts
\* the reclaimer.
Call(u) ==
    /\ upd[u].pc = "replaced"
    /\ cb_queue_' = Append(cb_queue_, upd[u].old)
    /\ cb_queued_' = cb_queued_ + 1
    /\ rec' = IF rec.pc = "none" THEN [rec EXCEPT !.pc = "waiting"] ELSE rec
    /\ upd' = [upd EXCEPT ![u].pc = "called", ![u].old = 0]
    /\ UNCHANGED <<readerVars, counterVars, gpVars, cb_done_, cb_stop_, cur, freed>>

\* After call() the thread goes on, or waits in barrier().
CallReturns(u) ==
    /\ upd[u].pc = "called"
    /\ upd' = [upd EXCEPT ![u].pc = "idle"]
    /\ UNCHANGED <<readerVars, counterVars, gpVars, cbVars, cur, freed, rec>>

\* Every value queued with call() that the reclaimer has not freed yet.
Queued == {cb_queue_[n] : n \in 1..Len(cb_queue_)}
              \cup {rec.batch[n] : n \in 1..Len(rec.batch)}

BarrierCall(u) ==
    /\ upd[u].pc = "called"
    /\ upd' = [upd EXCEPT ![u].pc = "barrier", ![u].target = cb_queued_,
                          ![u].before = Queued]
    /\ UNCHANGED <<readerVars, counterVars, gpVars, cbVars, cur, freed, rec>>

BarrierReturn(u) ==
    /\ upd[u].pc = "barrier"
    /\ cb_done_ >= upd[u].target
    /\ upd' = [upd EXCEPT ![u].pc = "idle", ![u].target = 0, ![u].before = {}]
    /\ UNCHANGED <<readerVars, counterVars, gpVars, cbVars, cur, freed, rec>>

\* reclaim_loop(): take the whole queue and call synchronize().
ReclaimTake ==
    /\ rec.pc = "waiting"
    /\ cb_queue_ # <<>>
    /\ rec' = [pc |-> "syncing", batch |-> cb_queue_, n |-> Len(cb_queue_)]
    /\ cb_queue_' = <<>>
    /\ CallSync(Reclaimer)
    /\ UNCHANGED <<readerVars, counterVars, gp_idx_, gp, cb_queued_, cb_done_,
                   cb_stop_, cur, freed, upd>>

\* Mutant: counts the batch as done before it has run.
ReclaimSynced_EarlyDone ==
    /\ rec.pc = "syncing"
    /\ sync[Reclaimer] = "done"
    /\ sync' = [sync EXCEPT ![Reclaimer] = "no"]
    /\ cb_done_' = cb_done_ + rec.n
    /\ rec' = [rec EXCEPT !.pc = "running", !.n = 0]
    /\ UNCHANGED <<readerVars, counterVars, gp_idx_, gp, waits, cb_queue_,
                   cb_queued_, cb_stop_, cur, freed, upd>>

ReclaimSynced ==
    /\ rec.pc = "syncing"
    /\ sync[Reclaimer] = "done"
    /\ sync' = [sync EXCEPT ![Reclaimer] = "no"]
    /\ rec' = [rec EXCEPT !.pc = "running"]
    /\ UNCHANGED <<readerVars, counterVars, gp_idx_, gp, waits, cbVars, cur,
                   freed, upd>>

ReclaimRun ==
    /\ rec.pc = "running"
    /\ rec.batch # <<>>
    /\ freed' = freed \cup {Head(rec.batch)}
    /\ rec' = [rec EXCEPT !.batch = Tail(@)]
    /\ UNCHANGED <<readerVars, counterVars, gpVars, cbVars, cur, upd>>

\* Mutant: counts batches instead of callbacks.
ReclaimDone_PerBatch ==
    /\ rec.pc = "running"
    /\ rec.batch = <<>>
    /\ cb_done_' = cb_done_ + 1
    /\ rec' = [rec EXCEPT !.pc = "waiting", !.n = 0]
    /\ UNCHANGED <<readerVars, counterVars, gpVars, cb_queue_, cb_queued_,
                   cb_stop_, cur, freed, upd>>

ReclaimDone ==
    /\ rec.pc = "running"
    /\ rec.batch = <<>>
    /\ cb_done_' = cb_done_ + rec.n
    /\ rec' = [rec EXCEPT !.pc = "waiting", !.n = 0]
    /\ UNCHANGED <<readerVars, counterVars, gpVars, cb_queue_, cb_queued_,
                   cb_stop_, cur, freed, upd>>

\* Mutant: stops with callbacks still queued.
ReclaimExit_Abandon ==
    /\ rec.pc = "waiting"
    /\ cb_stop_
    /\ rec' = [rec EXCEPT !.pc = "exited"]
    /\ UNCHANGED <<readerVars, counterVars, gpVars, cbVars, cur, freed, upd>>

ReclaimExit ==
    /\ rec.pc = "waiting"
    /\ cb_queue_ = <<>>
    /\ cb_stop_
    /\ rec' = [rec EXCEPT !.pc = "exited"]
    /\ UNCHANGED <<readerVars, counterVars, gpVars, cbVars, cur, freed, upd>>

\* ~Rcu() begins: the owner destroys it with no section and no call running.
Destroy ==
    /\ ~cb_stop_
    /\ \A c \in Sections : sect[c].st = "idle"
    /\ \A u \in Updaters : upd[u].pc = "idle"
    /\ cb_stop_' = TRUE
    /\ UNCHANGED <<readerVars, counterVars, gpVars, cb_queue_, cb_queued_,
                   cb_done_, cur, freed, upd, rec>>

\* ~Rcu() returned: the reclaimer was joined, or was never started.
Destroyed == cb_stop_ /\ rec.pc \in {"none", "exited"}

Terminated == Destroyed /\ UNCHANGED vars
-----------------------------------------------------------------------------
Reader(c) ==
    \/ \E t \in Threads : ReadLockLoad(c, t) \/ ReadUnlock(c, t)
    \/ ReadLockBump(c)
    \/ ReadPtr(c)

Grace ==
    \/ \E p \in Callers : SyncLock(p)
    \/ SyncScanUnlock \/ SyncScanBarrier \/ SyncScanLock \/ SyncDrained
    \/ SyncFlip \/ SyncFlipBarrier \/ SyncEnd

Updater(u) ==
    \/ Replace(u) \/ UpdaterSync(u) \/ UpdaterFree(u)
    \/ Call(u) \/ CallReturns(u) \/ BarrierCall(u) \/ BarrierReturn(u)

Reclaim ==
    ReclaimTake \/ ReclaimSynced \/ ReclaimRun \/ ReclaimDone \/ ReclaimExit

Next ==
    \/ \E c \in Sections : Reader(c)
    \/ \E t \in Threads : FlushOne(t) \/ ThreadExit(t)
    \/ Grace
    \/ \E u \in Updaters : Updater(u)
    \/ Reclaim
    \/ Destroy
    \/ Terminated

\* Every thread that has started an operation keeps running, and a section
\* that was opened is closed: no section of this store waits for a grace
\* period.
Fairness ==
    /\ \A c \in Sections :
          /\ WF_vars(ReadLockBump(c))
          /\ WF_vars(\E t \in Threads : ReadUnlock(c, t))
    /\ \A t \in Threads : WF_vars(FlushOne(t))
    /\ WF_vars(Grace)
    /\ \A u \in Updaters :
          /\ WF_vars(UpdaterSync(u) \/ Call(u)) /\ WF_vars(UpdaterFree(u))
          /\ WF_vars(CallReturns(u)) /\ WF_vars(BarrierReturn(u))
    /\ WF_vars(Reclaim)

Spec == Init /\ [][Next]_vars
FairSpec == Spec /\ Fairness
-----------------------------------------------------------------------------
(* Properties.                                                             *)

\* Type invariant.
TypeOK ==
    /\ gp_idx_ \in 0..1
    /\ lock \in [Slots -> [0..1 -> 0..MaxEntries]]
    /\ unlock \in [Slots -> [0..1 -> 0..MaxEntries]]
    /\ in_use_ \in [0..kMaxThreads - 1 -> BOOLEAN]
    /\ slotOf \in [Threads -> Slots \cup {NoSlot}]
    /\ \A c \in Sections :
          /\ sect[c].st \in {"idle", "entering", "reading"}
          /\ sect[c].idx \in 0..1
          /\ sect[c].ref \in Versions \cup {NoPtr}
    /\ sync \in [Callers -> {"no", "want", "in", "done"}]
    /\ \A p \in Callers : waits[p] = NotWaiting \/ waits[p] \subseteq Sections
    /\ cur \in Versions
    /\ freed \subseteq Versions

\* A section never holds a pointer whose object was freed: the grace period
\* covers every section that loaded the pointer before it was replaced, in
\* spite of stale indices, delayed lock bumps, sections that end on another
\* thread, slots that change owner and a scan that is not atomic.
NoUseAfterFree ==
    \A c \in Sections : sect[c].ref # NoPtr => sect[c].ref \notin freed

\* barrier() returns only when every callback queued before it has run, even
\* though it compares counts and callbacks run in batches.
BarrierCovers ==
    \A u \in Updaters :
        upd[u].pc = "barrier" /\ cb_done_ >= upd[u].target
            => upd[u].before \subseteq freed

\* ~Rcu() leaves no callback unrun: everything replaced was freed.
DestroyRunsAll == Destroyed => freed = 0..cur - 1

G == INSTANCE GracePeriod WITH
        Sections <- Sections, Callers <- Callers, reading <- reading, waits <- waits

\* The counters, scans and flips implement the abstract grace period: a
\* synchronize() returns only after every section open at its call has ended.
ImplementsGracePeriod == G!Spec

\* Every synchronize() returns, with readers entering while it scans.
SyncReturns == \A p \in Callers : (waits[p] # NotWaiting) ~> (waits[p] = NotWaiting)

\* Every callback queued with call() runs and barrier() returns: the
\* reclaimer is never left waiting with work queued.
CallbacksRun == \A v \in Versions : (v \in Queued) ~> (v \in freed)
BarrierReturns == \A u \in Updaters : (upd[u].pc = "barrier") ~> (upd[u].pc # "barrier")
=============================================================================
