----------------------------- MODULE RcuProofs -----------------------------
(***************************************************************************)
(* The invariants of Rcu, and that it implements GracePeriod, for every    *)
(* number of slots, threads, sections and updaters.                        *)
(*                                                                         *)
(* A synchronize() drains the index out of use, flips, and drains the      *)
(* other one, so the sections it waits for have ended whichever index they *)
(* loaded; what is freed after it is held by nobody.                       *)
(***************************************************************************)
EXTENDS RcuSteps, RcuCounts

-----------------------------------------------------------------------------
(* Types and counts.                                                       *)

\* The types after every step.
LEMMA TypesStep ==
    ASSUME GraceInv, [Next]_vars
    PROVE  Types'
<1>0. Types
  BY DEF GraceInv
<1>1. ASSUME NEW t \in Threads, FlushOne(t) \/ ThreadExit(t) PROVE Types'
  <2>1. CASE FlushOne(t)
    BY <1>0, <2>1, Zenon DEF FlushOne, Types, gpVars, cbVars
  <2>2. CASE ThreadExit(t)
    <3>1. slotOf[t] \in Slots /\ (slotOf[t] # kShared => slotOf[t] \in 0..kMaxThreads - 1)
      <4>1. slotOf[t] \in Slots \cup {NoSlot} /\ slotOf[t] # NoSlot
        BY <1>0, <2>2, Zenon DEF ThreadExit, Types
      <4>. QED
        BY <4>1, Constants
    <3>2. slotOf' \in [Threads -> Slots \cup {NoSlot}]
      BY <1>0, <2>2, Zenon DEF ThreadExit, Types
    <3>3. in_use_' \in [0..kMaxThreads - 1 -> BOOLEAN]
      BY <1>0, <2>2, <3>1 DEF ThreadExit, Types
    <3>. QED
      BY <1>0, <2>2, <3>2, <3>3 DEF ThreadExit, Types, gpVars, cbVars
  <2>. QED
    BY <1>1, <2>1, <2>2
<1>2. CASE Destroy
  BY <1>0, <1>2 DEF Destroy, Types, readerVars, gpVars
<1>3. CASE Terminated \/ UNCHANGED vars
  BY <1>0, <1>3, SMTT(30) DEF Terminated, Types, vars, readerVars, gpVars, cbVars
<1>. QED
  BY <1>0, <1>1, <1>2, <1>3, ReaderTypes, GraceTypes, UpdaterTypes, ReclaimTypes, SMTT(30) DEF Next

\* The counts after every step; no counter ever falls.
LEMMA CountsStep ==
    ASSUME GraceInv, [Next]_vars
    PROVE  CountsOK' /\ Grows
<1>0. CountsOK /\ StoresOK /\ lock \in Counter /\ unlock \in Counter
  BY SMTT(30) DEF GraceInv, CountsOK, StoresOK
<1>1. CASE UNCHANGED <<sect, entries, lock, unlock, buf>>
  <2>1. Grows
    BY <1>0, <1>1 DEF Grows, Counter
  <2>. QED
    BY <1>0, <1>1, <2>1, CountsSame
<1>2. ASSUME NEW t \in Threads, FlushOne(t) PROVE CountsOK' /\ Grows
  <2>1. UNCHANGED <<sect, entries>>
    BY <1>2, ThreadFrame
  <2>2. StoresOK' /\ Grows /\ \A j \in 0..1 : Locks(j)' = Locks(j) /\ Unlocks(j)' = Unlocks(j)
    BY <1>0, <1>2, FlushCounts
  <2>. QED
    BY <1>0, <2>1, <2>2, CountsKept
<1>3. ASSUME NEW t \in Threads, ThreadExit(t)
      PROVE  UNCHANGED <<sect, entries, lock, unlock, buf>>
  BY <1>3 DEF ThreadExit, counterVars
<1>4. (\E u \in Updaters : Updater(u)) => UNCHANGED <<sect, entries, lock, unlock, buf>>
  BY UpdaterFrame
<1>. QED
  BY <1>1, <1>2, <1>3, <1>4, ReaderCounts, GraceCounts, ReclaimFrame, EndFrame DEF Next
-----------------------------------------------------------------------------
(* The grace period.                                                       *)

LEMMA NoDouble == \A x \in Nat : x = x + x => x = 0
OBVIOUS

\* The invariant of grace periods at the start, after every step, and always.
LEMMA GraceInit == Init => GraceInv
<1>. SUFFICES ASSUME Init PROVE GraceInv
  OBVIOUS
<1>1. Types
  <2>1. /\ in_use_ \in [0..kMaxThreads - 1 -> BOOLEAN]
        /\ slotOf \in [Threads -> Slots \cup {NoSlot}]
    BY DEF Init
  <2>7. gp_idx_ \in 0..1 /\ entries \in 0..MaxEntries /\ cur \in Versions /\ freed \subseteq Versions
    BY Constants DEF Init
  <2>8. /\ cb_queue_ \in Seq(Versions) /\ cb_queued_ \in Nat /\ cb_done_ \in Nat
    BY DEF Init
  <2>9. cb_stop_ \in BOOLEAN
    BY Zenon DEF Init
  <2>2. /\ sync \in [Callers -> {"no", "want", "in", "done"}]
        /\ waits \in [Callers -> (SUBSET Sections) \cup {NotWaiting}]
    BY DEF Init
  <2>3. sect \in [Sections -> SectionType]
    BY DEF Init, SectionType, IdleSection
  <2>4. gp \in GraceType
    BY DEF Init, GraceType
  <2>5. upd \in [Updaters -> UpdaterType]
    BY Constants, SMTT(30) DEF Init, UpdaterType
  <2>6. rec \in ReclaimerType
    BY DEF Init, ReclaimerType
  <2>. QED
    BY <2>1, <2>2, <2>3, <2>4, <2>5, <2>6, <2>7, <2>8, <2>9 DEF Types
<1>2. SectionsOK
  BY SMTT(30) DEF Init, SectionsOK, IdleSection
<1>3. CountsOK
  <2>1. /\ lock \in Counter /\ unlock \in Counter /\ lock = unlock
        /\ \A s \in Slots, i \in 0..1 : lock[s][i] = 0
    BY DEF Init, Counter
  <2>2. buf \in [Threads -> Seq(Store)] /\ Stores = {}
    BY SMTT(30) DEF Init, Stores
  <2>3. \A st, i : In(st, i) = {} \/ st = "idle"
    BY SMTT(30) DEF Init, In, IdleSection
  <2>4. \A ctr, i : Pend(ctr, i) = {}
    BY <2>2 DEF Pend
  <2>5. ASSUME NEW i \in 0..1
        PROVE  Locks(i) = 0 /\ Unlocks(i) = 0
    <3>1. Row(lock, i) = [k \in 1..N |-> 0]
      BY <2>1, ScanFacts DEF Row
    <3>2. Total(lock, i) = 0
      <4>1. Total(lock, i) = Total(lock, i) + Total(lock, i) /\ Total(lock, i) \in Nat
        <5>1. /\ Row(lock, i) \in [1..N -> Nat]
              /\ \A k \in 1..N : Row(lock, i)[k] = Row(lock, i)[k] + Row(lock, i)[k]
          BY <3>1
        <5>2. \A k \in 0..N : Upto(Row(lock, i))[k] = Upto(Row(lock, i))[k] + Upto(Row(lock, i))[k]
          BY <5>1, SumAdd, Zenon
        <5>. QED
          BY <2>1, <5>2, NIsNat, TotalFacts, Zenon DEF Total, Part
      <4>. QED
        BY <4>1, NoDouble, Zenon
    <3>3. Cardinality(Pend("lock", i)) = 0 /\ Cardinality(Pend("unlock", i)) = 0
      BY <2>4, FS_EmptySet
    <3>. QED
      BY <2>1, <3>2, <3>3 DEF Locks, Unlocks
  <2>6. \A i : Cardinality(In("reading", i)) = 0 /\ Cardinality(In("entering", i)) = 0
    BY <2>3, FS_EmptySet
  <2>. QED
    BY <2>1, <2>2, <2>5, <2>6, FS_EmptySet, SMTT(30) DEF CountsOK, StoresOK, Init
<1>4. CallersOK
  BY Constants, SMTT(30) DEF Init, CallersOK
<1>5. ScanOK
  BY DEF Init, ScanOK, UnlockPcs, LockPcs
<1>. QED
  BY <1>1, <1>2, <1>3, <1>4, <1>5 DEF GraceInv

LEMMA GraceStep ==
    ASSUME GraceInv, [Next]_vars
    PROVE  GraceInv'
<1>1. Types' /\ SectionsOK' /\ CountsOK' /\ Grows
  BY TypesStep, SectionsStep, CountsStep
<1>2. ASSUME CallersOK', UNCHANGED <<gp, gp_idx_>>,
             \A p \in Callers : sync[p] = "in" => waits'[p] \subseteq waits[p],
             \A d \in reading' : sect'[d].idx = sect[d].idx
      PROVE  GraceInv'
  BY <1>1, <1>2, ScanKept DEF GraceInv
<1>3. UNCHANGED sect => \A d \in reading' : sect'[d].idx = sect[d].idx
  OBVIOUS
<1>4. ASSUME NEW c \in Sections, Reader(c) PROVE GraceInv'
  <2>1. \A d \in reading' : sect'[d].idx = sect[d].idx
    BY <1>4, ReaderGrace DEF GraceInv
  <2>. QED
    BY <1>2, <1>4, <2>1, ReaderCallers, ReaderFrame
<1>5. CASE Grace
  BY <1>1, <1>5, GraceCallers, GraceScan DEF GraceInv
<1>6. ASSUME NEW u \in Updaters, Updater(u) PROVE GraceInv'
  BY <1>2, <1>3, <1>6, UpdaterCallers, UpdaterFrame
<1>7. CASE Reclaim
  BY <1>2, <1>3, <1>7, ReclaimCallers, ReclaimFrame
<1>8. ASSUME UNCHANGED <<sect, gp, gp_idx_, sync, waits, upd, rec>> PROVE GraceInv'
  <2>1. CallersOK'
    BY <1>8, SMTT(30) DEF GraceInv, CallersOK, reading
  <2>. QED
    BY <1>2, <1>3, <1>8, <2>1
<1>9. ASSUME NEW t \in Threads, FlushOne(t) \/ ThreadExit(t) PROVE GraceInv'
  BY <1>8, <1>9, ThreadFrame
<1>10. CASE Destroy \/ Terminated \/ UNCHANGED vars
  BY <1>8, <1>10, EndFrame
<1>. QED
  BY <1>4, <1>5, <1>6, <1>7, <1>9, <1>10 DEF Next

\* Every step is a step of GracePeriod or leaves its variables alone: a bump of
\* a lock counter opens a section, a bump of an unlock counter closes one, and
\* the last barrier of synchronize() comes when no section is waited for.
LEMMA GraceRefines ==
    ASSUME GraceInv, [Next]_vars
    PROVE  [G!Next]_(G!vars)
<1>0. /\ Types /\ CallersOK /\ ScanOK /\ gp \in GraceType
  BY SMTT(30) DEF GraceInv, Types
<1>1. ASSUME NEW c \in Sections, Reader(c) PROVE G!Next \/ UNCHANGED <<reading, waits>>
  BY <1>0, <1>1, ReaderGrace DEF G!Next
<1>2. UNCHANGED sect => reading' = reading
  BY DEF reading
<1>3. CASE UNCHANGED <<sect, waits>>
  BY <1>2, <1>3 DEF G!vars
<1>4. ASSUME NEW p \in Callers, CallSync(p), sync[p] = "no", UNCHANGED sect PROVE G!Next
  <2>1. waits[p] = NotWaiting /\ waits' = [waits EXCEPT ![p] = reading] /\ reading' = reading
    BY <1>0, <1>2, <1>4, SMTT(30) DEF CallersOK, CallSync
  <2>2. G!Start(p)
    BY <2>1, Zenon DEF G!Start, G!NotWaiting, NotWaiting
  <2>. QED
    BY <2>2 DEF G!Next
<1>5. CASE SyncEnd
  <2>1. gp.pc = "end" /\ waits' = [waits EXCEPT ![gp.by] = NotWaiting] /\ UNCHANGED sect
    BY <1>5 DEF SyncEnd
  <2>2. gp.by \in Callers /\ waits[gp.by] = {}
    BY <1>0, <2>1, SMTT(30) DEF CallersOK, ScanOK, GraceType
  <2>3. G!Finish(gp.by)
    BY <1>2, <2>1, <2>2, Zenon DEF G!Finish, G!NotWaiting, NotWaiting
  <2>. QED
    BY <2>2, <2>3 DEF G!Next
<1>6. ASSUME Grace, ~SyncEnd PROVE UNCHANGED <<sect, waits>>
  BY <1>6, GraceFrame, SMTT(30) DEF Grace, SyncLock, SyncScanUnlock, SyncScanBarrier, SyncScanLock,
     SyncDrained, SyncFlip, SyncFlipBarrier
<1>7. ASSUME NEW u \in Updaters, Updater(u) PROVE G!Next \/ UNCHANGED <<sect, waits>>
  <2>1. CASE UpdaterSync(u)
    <3>1. u \in Callers /\ sync[u] = "no" /\ CallSync(u) /\ UNCHANGED sect
      BY <1>0, <1>7, <2>1, Constants, UpdaterFrame DEF CallersOK, UpdaterSync
    <3>. QED
      BY <1>4, <3>1
  <2>2. CASE ~UpdaterSync(u)
    BY <1>7, <2>2, UpdaterFrame, Zenon DEF Updater, Replace, UpdaterFree, Call, CallReturns,
       BarrierCall, BarrierReturn, gpVars
  <2>. QED
    BY <2>1, <2>2
<1>8. ASSUME Reclaim PROVE G!Next \/ UNCHANGED <<sect, waits>>
  <2>1. CASE ReclaimTake
    <3>1. sync[Reclaimer] = "no" /\ CallSync(Reclaimer) /\ UNCHANGED sect
      BY <1>0, <1>8, <2>1, ReclaimFrame, SMTT(30) DEF CallersOK, ReclaimTake
    <3>. QED
      BY <1>4, <3>1, Constants
  <2>2. CASE ~ReclaimTake
    BY <1>8, <2>2, ReclaimFrame, SMTT(30) DEF Reclaim, ReclaimSynced, ReclaimRun, ReclaimDone,
       ReclaimExit, gpVars
  <2>. QED
    BY <2>1, <2>2
<1>9. ASSUME NEW t \in Threads, FlushOne(t) \/ ThreadExit(t) PROVE UNCHANGED <<sect, waits>>
  BY <1>9, ThreadFrame
<1>10. (Destroy \/ Terminated \/ UNCHANGED vars) => UNCHANGED <<sect, waits>>
  BY EndFrame
<1>. QED
  BY <1>1, <1>3, <1>5, <1>6, <1>7, <1>8, <1>9, <1>10 DEF Next, G!vars

LEMMA GraceAlways == Spec => []GraceInv
<1>1. GraceInv /\ [Next]_vars => GraceInv'
  BY GraceStep
<1>. QED
  BY <1>1, GraceInit, PTL DEF Spec

\* The counters, scans and flips implement the grace period they promise, for
\* every number of threads, slots, sections and callers: a synchronize()
\* returns only after every section open at its call has ended.
THEOREM GracePeriods == Spec => ImplementsGracePeriod
<1>1. Init => G!Init
  <2>. SUFFICES ASSUME Init PROVE G!Init
    OBVIOUS
  <2>1. \A c \in Sections : sect[c].st = "idle"
    BY SMTT(30) DEF Init, IdleSection
  <2>2. reading = {}
    BY <2>1 DEF reading
  <2>3. waits = [p \in Callers |-> NotWaiting]
    BY SMTT(30) DEF Init
  <2>. QED
    BY <2>2, <2>3, Zenon DEF G!Init, G!NotWaiting, NotWaiting
<1>2. GraceInv /\ [Next]_vars => [G!Next]_(G!vars)
  BY GraceRefines
<1>. QED
  BY <1>1, <1>2, GraceAlways, PTL DEF Spec, ImplementsGracePeriod, G!Spec
-----------------------------------------------------------------------------
(* The theorems.                                                           *)

LEMMA ReclaimInit == Init => RefsOK /\ CallbacksOK /\ DestroyOK
<1>. SUFFICES ASSUME Init PROVE RefsOK /\ CallbacksOK /\ DestroyOK
  OBVIOUS
<1>1. /\ cur = 0 /\ freed = {} /\ cb_queue_ = <<>> /\ rec.batch = <<>> /\ rec.pc = "none"
      /\ rec.n = 0 /\ cb_queued_ = 0 /\ cb_done_ = 0
      /\ Len(cb_queue_) = 0 /\ Len(rec.batch) = 0
      /\ \A c \in Sections : sect[c].ref = NoPtr
      /\ \A u \in Updaters : upd[u].pc = "idle"
  BY Zenon DEF Init, IdleSection
<1>2. RefsOK
  BY <1>1, SMTT(30) DEF RefsOK
<1>3. CallbacksOK
  BY <1>1, SMTT(30) DEF CallbacksOK, QueueCount
<1>4. DestroyOK
  BY <1>1 DEF DestroyOK
<1>. QED
  BY <1>2, <1>3, <1>4

\* The inductive invariant of grace periods and reclamation.
THEOREM Invariant == Spec => []IInv
<1>1. Init => IInv
  BY GraceInit, ReclaimInit DEF IInv
<1>2. IInv /\ [Next]_vars => IInv'
  <2>. SUFFICES ASSUME IInv, [Next]_vars PROVE IInv'
    OBVIOUS
  <2>1. GraceInv /\ RefsOK /\ CallbacksOK /\ DestroyOK
    BY DEF IInv
  <2>2. GraceInv' /\ RefsOK' /\ CallbacksOK' /\ DestroyOK'
    BY <2>1, GraceStep, RefsStep, CallbacksStep, DestroyStep
  <2>. QED
    BY <2>2 DEF IInv
<1>. QED
  BY <1>1, <1>2, PTL DEF Spec

\* Types; in particular no lock or unlock counter outgrows the number of
\* sections opened, whichever slots the bumps landed on.
THEOREM TypeCorrect == Spec => []TypeOK
<1>1. IInv => TypeOK
  <2>. SUFFICES ASSUME IInv PROVE TypeOK
    OBVIOUS
  <2>1. Types /\ CountsOK /\ StoresOK
    BY DEF IInv, GraceInv, CountsOK
  <2>2. ASSUME NEW s \in Slots, NEW i \in 0..1
        PROVE  lock[s][i] \in 0..MaxEntries /\ unlock[s][i] \in 0..MaxEntries
    <3>1. /\ lock[s][i] <= Total(lock, i) /\ unlock[s][i] <= Total(unlock, i)
          /\ lock[s][i] \in Nat /\ unlock[s][i] \in Nat
      BY <2>1, TotalFacts, Zenon DEF StoresOK, Counter
    <3>2. /\ Locks(i) \in Nat /\ Unlocks(i) \in Nat
          /\ Total(lock, i) \in Nat /\ Total(unlock, i) \in Nat
          /\ Total(lock, i) <= Locks(i) /\ Total(unlock, i) <= Unlocks(i)
      BY <2>1, PendFacts, SMTT(30)
    <3>3. /\ Locks(i) = Unlocks(i) + Cardinality(In("reading", i))
          /\ Locks(i) + Cardinality(In("entering", i)) <= entries
      BY <2>1 DEF CountsOK
    <3>4. /\ Cardinality(In("reading", i)) \in Nat /\ Cardinality(In("entering", i)) \in Nat
          /\ entries \in Nat /\ entries <= MaxEntries /\ MaxEntries \in Nat
      BY <2>1, InFacts, Constants, SMTT(30) DEF Types
    <3>5. Locks(i) <= MaxEntries /\ Unlocks(i) <= MaxEntries
      BY <3>2, <3>3, <3>4
    <3>. QED
      BY <3>1, <3>2, <3>4, <3>5, SMTT(30)
  <2>3. /\ lock \in [Slots -> [0..1 -> 0..MaxEntries]]
        /\ unlock \in [Slots -> [0..1 -> 0..MaxEntries]]
    BY <2>1, <2>2 DEF StoresOK, Counter
  <2>4. \A c \in Sections : /\ sect[c].st \in {"idle", "entering", "reading"}
                            /\ sect[c].idx \in 0..1
                            /\ sect[c].ref \in Versions \cup {NoPtr}
    BY <2>1 DEF Types, SectionType
  <2>5. \A p \in Callers : waits[p] = NotWaiting \/ waits[p] \subseteq Sections
    BY <2>1 DEF Types
  <2>. QED
    BY <2>1, <2>3, <2>4, <2>5, SMTT(30) DEF Types, TypeOK
<1>. QED
  BY <1>1, Invariant, PTL

\* No section ever holds a pointer whose object was freed, by synchronize() or
\* through call(), for every number of threads, slots, sections and updaters,
\* with and without the reader's own fence.
THEOREM NoSectionUsesFreed == Spec => []NoUseAfterFree
<1>1. IInv => NoUseAfterFree
  BY SMTT(30) DEF IInv, RefsOK, NoUseAfterFree
<1>. QED
  BY <1>1, Invariant, PTL

\* barrier() returns only when the callbacks queued before it have run.
THEOREM BarriersCover == Spec => []BarrierCovers
<1>1. IInv => BarrierCovers
  <2>. SUFFICES ASSUME IInv, NEW u \in Updaters, upd[u].pc = "barrier",
                       cb_done_ >= upd[u].target, NEW v \in upd[u].before
                PROVE  v \in freed
    BY DEF BarrierCovers
  <2>1. GraceInv /\ CallbacksOK
    BY DEF IInv
  <2>2. /\ cb_done_ \in Nat /\ rec.n \in Nat /\ Len(cb_queue_) \in Nat /\ Len(rec.batch) \in Nat
        /\ rec.n >= Len(rec.batch) /\ upd[u].target \in Nat
    BY <2>1, CallbackFacts, CoveredFacts, SMTT(30)
  <2>3. /\ \A n \in 1..Len(cb_queue_) : ~(QueueCount(n) <= upd[u].target)
        /\ \A n \in 1..Len(rec.batch) : ~(BatchCount(n) <= upd[u].target)
    <3>1. ASSUME NEW d \in Nat, NEW m \in Nat, NEW l \in Nat, NEW n \in Nat, NEW t \in Nat,
                 d >= t, n > 0, m >= l
          PROVE  ~(d + m + n <= t) /\ ~(d + (m - l) + n <= t)
      BY <3>1
    <3>2. cb_done_ >= upd[u].target
      OBVIOUS
    <3>3. ASSUME NEW n \in Nat, n > 0
          PROVE  ~(QueueCount(n) <= upd[u].target) /\ ~(BatchCount(n) <= upd[u].target)
      BY <2>2, <3>1, <3>2, <3>3, Zenon DEF QueueCount, BatchCount
    <3>4. \A l \in Nat : \A n \in 1..l : n \in Nat /\ n > 0
      OBVIOUS
    <3>. QED
      BY <2>2, <3>3, <3>4, SMTT(30)
  <2>. QED
    BY <2>1, <2>3, CoveredFacts DEF Covered
<1>. QED
  BY <1>1, Invariant, PTL

\* When ~Rcu() returns, everything that was replaced has been freed, and
\* nothing else.
THEOREM DestroyFreesAll == Spec => []DestroyRunsAll
<1>1. IInv => DestroyRunsAll
  <2>. SUFFICES ASSUME IInv, Destroyed PROVE freed = 0..cur - 1
    BY DEF DestroyRunsAll
  <2>1. /\ cb_queue_ = <<>> /\ rec.batch = <<>> /\ \A u \in Updaters : upd[u].pc = "idle"
    BY DEF IInv, DestroyOK, CallbacksOK, Destroyed
  <2>2. Queued = {}
    BY <2>1 DEF Queued
  <2>3. \A v \in 0..cur - 1 : v \in freed
    BY <2>1, <2>2 DEF IInv, DestroyOK
  <2>4. freed \subseteq 0..cur - 1
    BY SMTT(30) DEF IInv, RefsOK
  <2>. QED
    BY <2>3, <2>4, Zenon
<1>. QED
  BY <1>1, Invariant, PTL
=============================================================================
