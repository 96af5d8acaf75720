----------------------------- MODULE RcuSteps -----------------------------
(***************************************************************************)
(* The steps of Rcu preserve the types and the invariants of the callers   *)
(* of synchronize(), of reclamation, callbacks and destruction, for every  *)
(* number of slots, threads, sections and updaters.                        *)
(***************************************************************************)
EXTENDS RcuInv, TLAPS

-----------------------------------------------------------------------------
(* Types.                                                                  *)

\* What is used of the constants.
LEMMA Constants ==
    /\ kMaxThreads \in Nat /\ MaxEntries \in Nat /\ MaxVersion \in Nat
    /\ kShared = kMaxThreads /\ Slots = 0..kMaxThreads /\ kShared \in Slots
    /\ NoSlot \notin Slots /\ Versions \subseteq Nat /\ NoPtr \notin Versions
    /\ 0 \in Versions /\ Reclaimer \in Callers /\ Updaters \subseteq Callers
    /\ Reclaimer \notin Updaters /\ Nobody \notin Callers
    /\ IsFiniteSet(Threads) /\ IsFiniteSet(Sections)
<1>1. kMaxThreads \in Nat /\ MaxEntries \in Nat /\ MaxVersion \in Nat
      /\ IsFiniteSet(Threads) /\ IsFiniteSet(Sections)
      /\ Reclaimer \notin Updaters /\ Nobody \notin Callers
  BY RcuAssumption, Zenon
<1>. QED
  BY <1>1 DEF kShared, Slots, NoSlot, Versions, NoPtr, Callers

\* this_thread_slot() gives a slot and remembers it.
LEMMA SlotTypes ==
    ASSUME Types, NEW t \in Threads, NEW s \in Slots, ThisThreadSlot(t, s)
    PROVE  /\ in_use_' \in [0..kMaxThreads - 1 -> BOOLEAN]
           /\ slotOf' \in [Threads -> Slots \cup {NoSlot}]
           /\ slotOf'[t] = s /\ \A u \in Threads \ {t} : slotOf'[u] = slotOf[u]
<1>1. s # kShared => s \in 0..kMaxThreads - 1
  BY Constants
<1>2. /\ in_use_ \in [0..kMaxThreads - 1 -> BOOLEAN]
      /\ slotOf \in [Threads -> Slots \cup {NoSlot}]
  BY DEF Types
<1>3. /\ slotOf' = [slotOf EXCEPT ![t] = s]
      /\ in_use_' = IF s = kShared THEN in_use_ ELSE [in_use_ EXCEPT ![s] = TRUE]
  BY DEF ThisThreadSlot
<1>. QED
  BY <1>1, <1>2, <1>3

\* The types after a step of a section, of synchronize(), of an updater and of
\* the reclaimer.
LEMMA ReaderTypes ==
    ASSUME Types, NEW c \in Sections, Reader(c)
    PROVE  Types'
<1>0. /\ sect \in [Sections -> SectionType] /\ entries \in 0..MaxEntries
      /\ gp_idx_ \in 0..1 /\ cur \in Versions
      /\ waits \in [Callers -> (SUBSET Sections) \cup {NotWaiting}]
  BY DEF Types
<1>1. ASSUME NEW t \in Threads, ReadLockLoad(c, t) PROVE Types'
  <2>1. PICK s \in Slots : ThisThreadSlot(t, s)
    BY <1>1 DEF ReadLockLoad
  <2>2. /\ in_use_' \in [0..kMaxThreads - 1 -> BOOLEAN]
        /\ slotOf' \in [Threads -> Slots \cup {NoSlot}]
    BY <2>1, SlotTypes
  <2>3. sect' \in [Sections -> SectionType]
    BY <1>0, <1>1 DEF ReadLockLoad, SectionType
  <2>4. entries' \in 0..MaxEntries
    BY <1>0, <1>1, Constants DEF ReadLockLoad
  <2>. QED
    BY <1>1, <2>2, <2>3, <2>4 DEF ReadLockLoad, Types, gpVars, cbVars
<1>2. ASSUME NEW t \in Threads, ReadUnlock(c, t) PROVE Types'
  <2>1. PICK s \in Slots : ThisThreadSlot(t, s)
    BY <1>2, Zenon DEF ReadUnlock
  <2>2. /\ in_use_' \in [0..kMaxThreads - 1 -> BOOLEAN]
        /\ slotOf' \in [Threads -> Slots \cup {NoSlot}]
    BY <2>1, SlotTypes
  <2>3. sect' \in [Sections -> SectionType]
    <3>1. sect' = [sect EXCEPT ![c] = IdleSection]
      BY <1>2, Zenon DEF ReadUnlock
    <3>2. IdleSection \in SectionType
      BY DEF SectionType, IdleSection
    <3>. QED
      BY <1>0, <3>1, <3>2
  <2>4. waits' \in [Callers -> (SUBSET Sections) \cup {NotWaiting}]
    BY <1>0, <1>2, Zenon DEF ReadUnlock
  <2>. QED
    BY <1>2, <2>2, <2>3, <2>4 DEF ReadUnlock, Types, cbVars
<1>3. CASE ReadLockBump(c)
  <2>1. sect' \in [Sections -> SectionType]
    BY <1>0, <1>3 DEF ReadLockBump, SectionType
  <2>. QED
    BY <1>3, <2>1 DEF ReadLockBump, Types, gpVars, cbVars
<1>4. CASE ReadPtr(c)
  <2>1. sect' \in [Sections -> SectionType]
    BY <1>0, <1>4 DEF ReadPtr, SectionType
  <2>. QED
    BY <1>4, <2>1 DEF ReadPtr, Types, gpVars, cbVars
<1>. QED
  BY <1>1, <1>2, <1>3, <1>4 DEF Reader

\* Records of an updater that differ in a field or two.
LEMMA UpdaterRecords ==
    ASSUME NEW r \in UpdaterType, NEW v \in Versions, NEW n \in Nat, NEW b \in SUBSET Versions
    PROVE  /\ [r EXCEPT !.pc = "replaced", !.old = v] \in UpdaterType
           /\ [r EXCEPT !.pc = "barrier", !.target = n, !.before = b] \in UpdaterType
           /\ [r EXCEPT !.pc = "idle", !.target = 0, !.before = {}] \in UpdaterType
           /\ [r EXCEPT !.pc = "idle", !.old = 0] \in UpdaterType
           /\ [r EXCEPT !.pc = "called", !.old = 0] \in UpdaterType
           /\ [r EXCEPT !.pc = "syncing"] \in UpdaterType
           /\ [r EXCEPT !.pc = "idle"] \in UpdaterType
<1>1. 0 \in Nat /\ 0 \in Versions /\ {} \in SUBSET Versions
  BY Constants
<1>. QED
  BY <1>1, Zenon DEF UpdaterType

LEMMA UpdaterTypes ==
    ASSUME Types, NEW u \in Updaters, Updater(u)
    PROVE  Types'
<1>0. /\ upd \in [Updaters -> UpdaterType] /\ cur \in Versions /\ freed \subseteq Versions
      /\ cb_queue_ \in Seq(Versions) /\ cb_queued_ \in Nat /\ rec \in ReclaimerType
      /\ sync \in [Callers -> {"no", "want", "in", "done"}]
      /\ waits \in [Callers -> (SUBSET Sections) \cup {NotWaiting}]
      /\ u \in Callers
  BY Constants DEF Types
<1>1. CASE Replace(u)
  <2>1. cur' \in Versions
    BY <1>0, <1>1, Constants DEF Replace, Versions
  <2>2. upd' \in [Updaters -> UpdaterType]
    <3>1. upd' = [upd EXCEPT ![u] = [upd[u] EXCEPT !.pc = "replaced", !.old = cur]]
      BY <1>0, <1>1, Zenon DEF Replace
    <3>2. [upd[u] EXCEPT !.pc = "replaced", !.old = cur] \in UpdaterType
      BY <1>0, UpdaterRecords, Zenon
    <3>. QED
      BY <1>0, <3>1, <3>2
  <2>. QED
    BY <1>1, <2>1, <2>2 DEF Replace, Types, readerVars, gpVars, cbVars
<1>2. CASE UpdaterSync(u)
  <2>1. sync' \in [Callers -> {"no", "want", "in", "done"}]
    BY <1>0, <1>2 DEF UpdaterSync, CallSync
  <2>2. waits' \in [Callers -> (SUBSET Sections) \cup {NotWaiting}]
    BY <1>0, <1>2 DEF UpdaterSync, CallSync, reading
  <2>3. upd' \in [Updaters -> UpdaterType]
    <3>1. upd' = [upd EXCEPT ![u] = [upd[u] EXCEPT !.pc = "syncing"]]
      BY <1>0, <1>2, Zenon DEF UpdaterSync
    <3>2. [upd[u] EXCEPT !.pc = "syncing"] \in UpdaterType
      BY <1>0, UpdaterRecords, Zenon
    <3>. QED
      BY <1>0, <3>1, <3>2
  <2>. QED
    BY <1>2, <2>1, <2>2, <2>3 DEF UpdaterSync, Types, readerVars, cbVars
<1>3. CASE UpdaterFree(u)
  <2>1. sync' \in [Callers -> {"no", "want", "in", "done"}]
    BY <1>0, <1>3 DEF UpdaterFree
  <2>2. upd[u].old \in Versions
    BY <1>0 DEF UpdaterType
  <2>3. freed' \subseteq Versions
    BY <1>0, <1>3, <2>2 DEF UpdaterFree
  <2>4. upd' \in [Updaters -> UpdaterType]
    <3>1. upd' = [upd EXCEPT ![u] = [upd[u] EXCEPT !.pc = "idle", !.old = 0]]
      BY <1>0, <1>3, Zenon DEF UpdaterFree
    <3>2. [upd[u] EXCEPT !.pc = "idle", !.old = 0] \in UpdaterType
      BY <1>0, UpdaterRecords, Zenon
    <3>. QED
      BY <1>0, <3>1, <3>2
  <2>. QED
    BY <1>3, <2>1, <2>3, <2>4 DEF UpdaterFree, Types, readerVars, cbVars
<1>4. CASE Call(u)
  <2>1. upd[u].old \in Versions
    BY <1>0 DEF UpdaterType
  <2>2. cb_queue_' \in Seq(Versions) /\ cb_queued_' \in Nat
    BY <1>0, <1>4, <2>1 DEF Call
  <2>3. rec' \in ReclaimerType
    BY <1>0, <1>4, Zenon DEF Call, ReclaimerType
  <2>4. upd' \in [Updaters -> UpdaterType]
    <3>1. upd' = [upd EXCEPT ![u] = [upd[u] EXCEPT !.pc = "called", !.old = 0]]
      BY <1>0, <1>4, Zenon DEF Call
    <3>2. [upd[u] EXCEPT !.pc = "called", !.old = 0] \in UpdaterType
      BY <1>0, UpdaterRecords, Zenon
    <3>. QED
      BY <1>0, <3>1, <3>2
  <2>. QED
    BY <1>4, <2>2, <2>3, <2>4 DEF Call, Types, readerVars, gpVars
<1>5. CASE CallReturns(u)
  <2>1. upd' \in [Updaters -> UpdaterType]
    <3>1. upd' = [upd EXCEPT ![u] = [upd[u] EXCEPT !.pc = "idle"]]
      BY <1>0, <1>5, Zenon DEF CallReturns
    <3>2. [upd[u] EXCEPT !.pc = "idle"] \in UpdaterType
      BY <1>0, UpdaterRecords, Zenon
    <3>. QED
      BY <1>0, <3>1, <3>2
  <2>. QED
    BY <1>5, <2>1 DEF CallReturns, Types, readerVars, gpVars, cbVars
<1>6. CASE BarrierCall(u)
  <2>1. Queued \in SUBSET Versions
    <3>1. rec.batch \in Seq(Versions)
      BY <1>0 DEF ReclaimerType
    <3>. QED
      BY <1>0, <3>1 DEF Queued
  <2>2. upd' \in [Updaters -> UpdaterType]
    <3>1. upd' = [upd EXCEPT ![u] = [upd[u] EXCEPT !.pc = "barrier", !.target = cb_queued_,
                                                   !.before = Queued]]
      BY <1>0, <1>6, Zenon DEF BarrierCall
    <3>2. [upd[u] EXCEPT !.pc = "barrier", !.target = cb_queued_, !.before = Queued]
             \in UpdaterType
      BY <1>0, <2>1, UpdaterRecords, Zenon
    <3>. QED
      BY <1>0, <3>1, <3>2
  <2>. QED
    BY <1>6, <2>2 DEF BarrierCall, Types, readerVars, gpVars, cbVars
<1>7. CASE BarrierReturn(u)
  <2>1. upd' \in [Updaters -> UpdaterType]
    <3>1. upd' = [upd EXCEPT ![u] = [upd[u] EXCEPT !.pc = "idle", !.target = 0, !.before = {}]]
      BY <1>0, <1>7, Zenon DEF BarrierReturn
    <3>2. [upd[u] EXCEPT !.pc = "idle", !.target = 0, !.before = {}] \in UpdaterType
      BY <1>0, UpdaterRecords, Zenon
    <3>. QED
      BY <1>0, <3>1, <3>2
  <2>. QED
    BY <1>7, <2>1 DEF BarrierReturn, Types, readerVars, gpVars, cbVars
<1>. QED
  BY <1>1, <1>2, <1>3, <1>4, <1>5, <1>6, <1>7 DEF Updater

LEMMA ReclaimTypes ==
    ASSUME Types, Reclaim
    PROVE  Types'
<1>0. /\ rec \in ReclaimerType /\ freed \subseteq Versions
      /\ cb_queue_ \in Seq(Versions) /\ cb_done_ \in Nat
      /\ sync \in [Callers -> {"no", "want", "in", "done"}]
      /\ waits \in [Callers -> (SUBSET Sections) \cup {NotWaiting}]
      /\ Reclaimer \in Callers
      /\ rec.batch \in Seq(Versions) /\ rec.n \in Nat
  BY Constants DEF Types, ReclaimerType
<1>1. CASE ReclaimTake
  <2>1. sync' \in [Callers -> {"no", "want", "in", "done"}]
    BY <1>0, <1>1 DEF ReclaimTake, CallSync
  <2>2. waits' \in [Callers -> (SUBSET Sections) \cup {NotWaiting}]
    BY <1>0, <1>1 DEF ReclaimTake, CallSync, reading
  <2>3. rec' \in ReclaimerType /\ cb_queue_' \in Seq(Versions)
    BY <1>0, <1>1 DEF ReclaimTake, ReclaimerType
  <2>. QED
    BY <1>1, <2>1, <2>2, <2>3 DEF ReclaimTake, Types, readerVars
<1>2. CASE ReclaimSynced
  <2>1. sync' \in [Callers -> {"no", "want", "in", "done"}]
    BY <1>0, <1>2 DEF ReclaimSynced
  <2>2. rec' \in ReclaimerType
    BY <1>0, <1>2, Zenon DEF ReclaimSynced, ReclaimerType
  <2>. QED
    BY <1>2, <2>1, <2>2 DEF ReclaimSynced, Types, readerVars, cbVars
<1>3. CASE ReclaimRun
  <2>1. Head(rec.batch) \in Versions /\ Tail(rec.batch) \in Seq(Versions)
    BY <1>0, <1>3 DEF ReclaimRun
  <2>2. rec' \in ReclaimerType
    BY <1>0, <1>3, <2>1, Zenon DEF ReclaimRun, ReclaimerType
  <2>3. freed' \subseteq Versions
    BY <1>0, <1>3, <2>1 DEF ReclaimRun
  <2>. QED
    BY <1>3, <2>2, <2>3 DEF ReclaimRun, Types, readerVars, gpVars, cbVars
<1>4. CASE ReclaimDone
  <2>1. rec' \in ReclaimerType
    BY <1>0, <1>4, Zenon DEF ReclaimDone, ReclaimerType
  <2>2. cb_done_' \in Nat
    BY <1>0, <1>4 DEF ReclaimDone
  <2>. QED
    BY <1>4, <2>1, <2>2 DEF ReclaimDone, Types, readerVars, gpVars
<1>5. CASE ReclaimExit
  <2>1. rec' \in ReclaimerType
    BY <1>0, <1>5 DEF ReclaimExit, ReclaimerType
  <2>. QED
    BY <1>5, <2>1 DEF ReclaimExit, Types, readerVars, gpVars, cbVars
<1>. QED
  BY <1>1, <1>2, <1>3, <1>4, <1>5 DEF Reclaim
-----------------------------------------------------------------------------
(* What the groups of actions leave alone.                                 *)

\* What each kind of step leaves alone.
LEMMA ReaderFrame ==
    ASSUME NEW c \in Sections, Reader(c)
    PROVE  UNCHANGED <<gp_idx_, gp, sync, cb_queue_, cb_queued_, cb_done_, cb_stop_, cur,
                       freed, upd, rec>>
BY DEF Reader, ReadLockLoad, ReadUnlock, ReadLockBump, ReadPtr, gpVars, cbVars

LEMMA ThreadFrame ==
    ASSUME NEW t \in Threads, FlushOne(t) \/ ThreadExit(t)
    PROVE  UNCHANGED <<sect, entries, gp_idx_, gp, sync, waits, cb_queue_, cb_queued_,
                       cb_done_, cb_stop_, cur, freed, upd, rec>>
BY Zenon DEF FlushOne, ThreadExit, gpVars, cbVars

LEMMA GraceFrame ==
    ASSUME Grace
    PROVE  UNCHANGED <<slotOf, in_use_, sect, entries, cb_queue_, cb_queued_, cb_done_,
                       cb_stop_, cur, freed, upd, rec>>
BY DEF Grace, SyncLock, SyncScanUnlock, SyncScanBarrier, SyncScanLock, SyncDrained, SyncFlip,
   SyncFlipBarrier, SyncEnd, readerVars, cbVars

LEMMA UpdaterFrame ==
    ASSUME NEW u \in Updaters, Updater(u)
    PROVE  UNCHANGED <<slotOf, in_use_, buf, sect, entries, lock, unlock, gp_idx_, gp,
                       cb_done_, cb_stop_>>
BY SMTT(30) DEF Updater, Replace, UpdaterSync, UpdaterFree, Call, CallReturns, BarrierCall,
   BarrierReturn, readerVars, counterVars, gpVars, cbVars

LEMMA ReclaimFrame ==
    ASSUME Reclaim
    PROVE  UNCHANGED <<slotOf, in_use_, buf, sect, entries, lock, unlock, gp_idx_, gp,
                       cb_queued_, cb_stop_, cur, upd>>
BY DEF Reclaim, ReclaimTake, ReclaimSynced, ReclaimRun, ReclaimDone, ReclaimExit, readerVars,
   counterVars, gpVars, cbVars

LEMMA EndFrame ==
    ASSUME Destroy \/ Terminated \/ UNCHANGED vars
    PROVE  UNCHANGED <<slotOf, in_use_, buf, sect, entries, lock, unlock, gp_idx_, gp, sync,
                       waits, cb_queue_, cb_queued_, cb_done_, cur, freed, upd, rec>>
BY DEF Destroy, Terminated, vars, readerVars, counterVars, gpVars, cbVars

\* SectionsOK after every step.
LEMMA SectionsStep ==
    ASSUME GraceInv, [Next]_vars
    PROVE  SectionsOK'
<1>0. /\ Types /\ SectionsOK /\ sect \in [Sections -> SectionType]
      /\ slotOf \in [Threads -> Slots \cup {NoSlot}]
  BY DEF GraceInv, Types
<1>1. ASSUME NEW c \in Sections, NEW t \in Threads, ReadLockLoad(c, t) PROVE SectionsOK'
  <2>1. PICK s \in Slots : ThisThreadSlot(t, s)
    BY <1>1 DEF ReadLockLoad
  <2>2. slotOf'[t] = s /\ \A u \in Threads \ {t} : slotOf'[u] = slotOf[u]
    BY <1>0, <2>1, SlotTypes
  <2>3. /\ sect'[c].st = "entering" /\ sect'[c].on = t
        /\ \A d \in Sections \ {c} : sect'[d] = sect[d]
    BY <1>0, <1>1 DEF ReadLockLoad
  <2>. QED
    BY <1>0, <1>1, <2>2, <2>3 DEF SectionsOK, ReadLockLoad, ThreadFree
<1>2. ASSUME NEW c \in Sections, NEW t \in Threads, ReadUnlock(c, t) PROVE SectionsOK'
  <2>1. PICK s \in Slots : ThisThreadSlot(t, s)
    BY <1>2, Zenon DEF ReadUnlock
  <2>2. slotOf'[t] = s /\ \A u \in Threads \ {t} : slotOf'[u] = slotOf[u]
    BY <1>0, <2>1, SlotTypes
  <2>3. sect'[c].st = "idle" /\ \A d \in Sections \ {c} : sect'[d] = sect[d]
    BY <1>0, <1>2, Zenon DEF ReadUnlock, IdleSection
  <2>. QED
    BY <1>0, <1>2, <2>2, <2>3, Zenon DEF SectionsOK, ReadUnlock, ThreadFree
<1>3. ASSUME NEW c \in Sections, ReadLockBump(c) \/ ReadPtr(c) PROVE SectionsOK'
  <2>1. /\ sect'[c].st = "reading" /\ sect'[c].on = sect[c].on /\ sect[c].st # "idle"
        /\ \A d \in Sections \ {c} : sect'[d] = sect[d]
        /\ slotOf' = slotOf
    BY <1>0, <1>3 DEF ReadLockBump, ReadPtr, SectionType
  <2>. QED
    BY <1>0, <2>1 DEF SectionsOK
<1>4. ASSUME NEW t \in Threads, ThreadExit(t) PROVE SectionsOK'
  <2>1. /\ sect' = sect /\ ThreadFree(t)
        /\ \A u \in Threads \ {t} : slotOf'[u] = slotOf[u]
    BY <1>0, <1>4 DEF ThreadExit
  <2>. QED
    BY <1>0, <2>1 DEF SectionsOK, ThreadFree
<1>5. CASE UNCHANGED <<sect, slotOf>>
  BY <1>0, <1>5 DEF SectionsOK
<1>6. ASSUME NEW t \in Threads, FlushOne(t) PROVE UNCHANGED <<sect, slotOf>>
  BY <1>6, Zenon DEF FlushOne
<1>7. (\E u \in Updaters : Updater(u)) => UNCHANGED <<sect, slotOf>>
  BY UpdaterFrame
<1>. QED
  BY <1>1, <1>2, <1>3, <1>4, <1>5, <1>6, <1>7, GraceFrame, ReclaimFrame, EndFrame
     DEF Next, Reader
-----------------------------------------------------------------------------
(* Callers of synchronize().                                               *)

\* What a reader does to the open sections: it enters, leaves, or neither,
\* and an open section keeps its index.
LEMMA ReaderGrace ==
    ASSUME Types, NEW c \in Sections, Reader(c)
    PROVE  /\ G!Enter(c) \/ G!Leave(c) \/ UNCHANGED <<reading, waits>>
           /\ \A d \in reading' : sect'[d].idx = sect[d].idx
<1>0. sect \in [Sections -> SectionType]
  BY DEF Types
<1>1. ASSUME NEW t \in Threads, ReadLockLoad(c, t)
      PROVE  UNCHANGED <<reading, waits>> /\ \A d \in reading' : sect'[d].idx = sect[d].idx
  <2>1. /\ sect[c].st = "idle" /\ sect'[c].st = "entering"
        /\ \A d \in Sections \ {c} : sect'[d] = sect[d]
        /\ waits' = waits
    BY <1>0, <1>1 DEF ReadLockLoad, gpVars
  <2>. QED
    BY <2>1 DEF reading
<1>2. ASSUME NEW t \in Threads, ReadUnlock(c, t)
      PROVE  G!Leave(c) /\ \A d \in reading' : sect'[d].idx = sect[d].idx
  <2>1. /\ sect[c].st = "reading" /\ sect'[c].st = "idle"
        /\ \A d \in Sections \ {c} : sect'[d] = sect[d]
    BY <1>0, <1>2 DEF ReadUnlock, IdleSection
  <2>2. waits' = [p \in Callers |-> IF waits[p] = NotWaiting THEN NotWaiting
                                                            ELSE waits[p] \ {c}]
    BY <1>2, SMTT(30) DEF ReadUnlock
  <2>3. c \in reading /\ reading' = reading \ {c}
    BY <2>1 DEF reading
  <2>4. G!Leave(c)
    BY <2>2, <2>3, Zenon DEF G!Leave, G!NotWaiting, NotWaiting
  <2>. QED
    BY <2>1, <2>4 DEF reading
<1>3. ASSUME ReadLockBump(c)
      PROVE  G!Enter(c) /\ \A d \in reading' : sect'[d].idx = sect[d].idx
  <2>1. /\ sect[c].st = "entering" /\ sect'[c].st = "reading" /\ sect'[c].idx = sect[c].idx
        /\ \A d \in Sections \ {c} : sect'[d] = sect[d]
        /\ waits' = waits
    BY <1>0, <1>3 DEF ReadLockBump, gpVars, SectionType
  <2>2. c \notin reading /\ reading' = reading \cup {c}
    BY <2>1 DEF reading
  <2>. QED
    BY <2>1, <2>2, SMTT(30) DEF G!Enter, reading
<1>4. ASSUME ReadPtr(c)
      PROVE  UNCHANGED <<reading, waits>> /\ \A d \in reading' : sect'[d].idx = sect[d].idx
  <2>1. /\ sect'[c].st = sect[c].st /\ sect'[c].idx = sect[c].idx
        /\ \A d \in Sections \ {c} : sect'[d] = sect[d]
        /\ waits' = waits
    BY <1>0, <1>4 DEF ReadPtr, gpVars, SectionType
  <2>. QED
    BY <2>1 DEF reading
<1>. QED
  BY <1>1, <1>2, <1>3, <1>4, Zenon DEF Reader

\* A set of sections is not the value for no call.
LEMMA SetsDiffer ==
    \A S \in SUBSET Sections : S # NotWaiting
<1>1. "not waiting" \notin Sections
  BY RcuAssumption, Zenon
<1>. QED
  BY <1>1, Zenon DEF NotWaiting

\* A section that ends is no longer waited for, and no caller waits for a
\* section that opens.
LEMMA ReaderCallers ==
    ASSUME GraceInv, NEW c \in Sections, Reader(c)
    PROVE  /\ CallersOK'
           /\ \A p \in Callers : sync[p] = "in" => waits'[p] \subseteq waits[p]
<1>0. /\ Types /\ CallersOK /\ waits \in [Callers -> (SUBSET Sections) \cup {NotWaiting}]
  BY DEF GraceInv, Types
<1>1. UNCHANGED <<gp, sync, upd, rec>>
  BY ReaderFrame
<1>2. ASSUME NEW p \in Callers
      PROVE  /\ waits'[p] = NotWaiting <=> waits[p] = NotWaiting
             /\ waits[p] # NotWaiting => waits'[p] \subseteq reading' /\ waits'[p] \subseteq waits[p]
  <2>1. waits[p] # NotWaiting => waits[p] \in SUBSET Sections /\ waits[p] \subseteq reading
    BY <1>0 DEF CallersOK
  <2>2. CASE G!Enter(c) \/ UNCHANGED <<reading, waits>>
    BY <2>1, <2>2 DEF G!Enter
  <2>3. CASE G!Leave(c)
    <3>1. /\ reading' = reading \ {c}
          /\ waits'[p] = IF waits[p] = NotWaiting THEN NotWaiting ELSE waits[p] \ {c}
      BY <2>3, Zenon DEF G!Leave, G!NotWaiting, NotWaiting
    <3>. QED
      BY <2>1, <3>1, SetsDiffer
  <2>. QED
    BY <1>0, <2>2, <2>3, ReaderGrace
<1>. QED
  BY <1>0, <1>1, <1>2 DEF CallersOK

\* synchronize() takes and releases gp_mu_.
LEMMA GraceCallers ==
    ASSUME GraceInv, Grace
    PROVE  CallersOK'
<1>0. /\ Types /\ CallersOK /\ waits \in [Callers -> (SUBSET Sections) \cup {NotWaiting}]
      /\ sync \in [Callers -> {"no", "want", "in", "done"}] /\ gp \in GraceType
  BY DEF GraceInv, Types
<1>1. UNCHANGED <<sect, upd, rec>> /\ reading' = reading
  BY GraceFrame DEF reading
<1>2. ASSUME NEW p \in Callers, SyncLock(p) PROVE CallersOK'
  <2>1. /\ gp'.by = p /\ gp'.pc = "unlocks_before" /\ gp.by = Nobody /\ sync[p] = "want"
        /\ sync' = [sync EXCEPT ![p] = "in"] /\ waits' = waits
    BY <1>0, <1>2 DEF SyncLock, StartScan, GraceType
  <2>. QED
    BY <1>0, <1>1, <2>1, Constants DEF CallersOK
<1>3. ASSUME UNCHANGED <<sync, waits>>, gp'.by = gp.by, gp.pc # "idle", gp'.pc # "idle"
      PROVE  CallersOK'
  BY <1>0, <1>1, <1>3, SMTT(30) DEF CallersOK
<1>4. ASSUME SyncScanUnlock \/ SyncScanBarrier \/ SyncScanLock \/ SyncFlip \/ SyncFlipBarrier
      PROVE  UNCHANGED <<sync, waits>> /\ gp'.by = gp.by /\ gp.pc # "idle" /\ gp'.pc # "idle"
  BY <1>0, <1>4, Zenon DEF SyncScanUnlock, SyncScanBarrier, SyncScanLock, SyncFlip, SyncFlipBarrier,
     StartScan, GraceType
<1>5. ASSUME SyncDrained
      PROVE  UNCHANGED <<sync, waits>> /\ gp'.by = gp.by /\ gp.pc # "idle" /\ gp'.pc # "idle"
  BY <1>0, <1>5 DEF SyncDrained, StartScan, GraceType
<1>6. CASE SyncEnd
  <2>1. /\ gp'.by = Nobody /\ gp'.pc = "idle" /\ gp.pc = "end"
        /\ sync' = [sync EXCEPT ![gp.by] = "done"]
        /\ waits' = [waits EXCEPT ![gp.by] = NotWaiting]
    BY <1>6 DEF SyncEnd
  <2>2. gp.by \in Callers /\ sync[gp.by] = "in"
    BY <1>0, <2>1 DEF CallersOK, GraceType
  <2>. QED
    BY <1>0, <1>1, <2>1, <2>2, Constants DEF CallersOK
<1>. QED
  BY <1>2, <1>3, <1>4, <1>5, <1>6 DEF Grace

\* A thread calls synchronize() with none of its calls running.
LEMMA CallSyncCallers ==
    ASSUME Types, CallersOK, NEW p \in Callers, CallSync(p), sync[p] = "no",
           UNCHANGED <<gp, sect>>, reading' = reading,
           \A u \in Updaters : upd'[u].pc # "syncing" => upd[u].pc # "syncing" /\ u # p,
           rec'.pc # "syncing" => rec.pc # "syncing" /\ p # Reclaimer
    PROVE  CallersOK'
<1>0. /\ waits \in [Callers -> (SUBSET Sections) \cup {NotWaiting}]
      /\ sync \in [Callers -> {"no", "want", "in", "done"}]
  BY DEF Types
<1>1. /\ sync' = [sync EXCEPT ![p] = "want"] /\ waits' = [waits EXCEPT ![p] = reading]
  BY DEF CallSync
<1>2. reading # NotWaiting
  BY SetsDiffer DEF reading
<1>. QED
  BY <1>0, <1>1, <1>2, Constants DEF CallersOK

\* A thread goes on after its synchronize().
LEMMA SyncedCallers ==
    ASSUME Types, CallersOK, NEW p \in Callers, sync[p] = "done",
           sync' = [sync EXCEPT ![p] = "no"],
           UNCHANGED <<gp, waits, sect>>, reading' = reading,
           \A u \in Updaters : upd'[u].pc # "syncing" => upd[u].pc # "syncing" \/ u = p,
           rec'.pc # "syncing" => rec.pc # "syncing" \/ p = Reclaimer
    PROVE  CallersOK'
<1>0. sync \in [Callers -> {"no", "want", "in", "done"}]
  BY DEF Types
<1>. QED
  BY <1>0, Constants DEF CallersOK

LEMMA UpdaterCallers ==
    ASSUME GraceInv, NEW u \in Updaters, Updater(u)
    PROVE  /\ CallersOK'
           /\ \A p \in Callers : sync[p] = "in" => waits'[p] \subseteq waits[p]
<1>0. /\ Types /\ CallersOK /\ upd \in [Updaters -> UpdaterType] /\ u \in Callers
      /\ waits \in [Callers -> (SUBSET Sections) \cup {NotWaiting}] /\ u # Reclaimer
      /\ rec \in ReclaimerType
  BY Constants DEF GraceInv, Types
<1>1. UNCHANGED <<sect, gp>> /\ reading' = reading
  BY UpdaterFrame DEF reading
<1>2. CASE UpdaterSync(u)
  <2>1. /\ sync[u] = "no" /\ upd[u].pc = "replaced" /\ CallSync(u) /\ rec' = rec
        /\ upd' = [upd EXCEPT ![u].pc = "syncing"]
    BY <1>0, <1>2 DEF UpdaterSync, CallersOK
  <2>2. \A v \in Updaters : upd'[v].pc # "syncing" => upd[v].pc # "syncing" /\ v # u
    BY <1>0, <2>1 DEF UpdaterType
  <2>3. CallersOK'
    BY <1>0, <1>1, <2>1, <2>2, CallSyncCallers
  <2>. QED
    BY <1>0, <2>1, <2>3 DEF CallSync
<1>3. CASE UpdaterFree(u)
  <2>1. /\ sync[u] = "done" /\ rec' = rec /\ waits' = waits
        /\ sync' = [sync EXCEPT ![u] = "no"]
        /\ \A v \in Updaters : v # u => upd'[v] = upd[v]
    BY <1>0, <1>3 DEF UpdaterFree
  <2>2. CallersOK'
    BY <1>0, <1>1, <2>1, SyncedCallers, Zenon
  <2>. QED
    BY <2>1, <2>2
<1>4. ASSUME Replace(u) \/ Call(u) \/ CallReturns(u) \/ BarrierCall(u) \/ BarrierReturn(u)
      PROVE  CallersOK' /\ \A p \in Callers : sync[p] = "in" => waits'[p] \subseteq waits[p]
  <2>1. /\ UNCHANGED <<sync, waits>>
        /\ upd[u].pc # "syncing" /\ \A v \in Updaters : v # u => upd'[v] = upd[v]
        /\ rec'.pc # "syncing" => rec.pc # "syncing"
    BY <1>0, <1>4 DEF Replace, Call, CallReturns, BarrierCall, BarrierReturn, gpVars,
       ReclaimerType
  <2>. QED
    BY <1>0, <1>1, <2>1 DEF CallersOK
<1>. QED
  BY <1>2, <1>3, <1>4 DEF Updater

LEMMA ReclaimCallers ==
    ASSUME GraceInv, Reclaim
    PROVE  /\ CallersOK'
           /\ \A p \in Callers : sync[p] = "in" => waits'[p] \subseteq waits[p]
<1>0. /\ Types /\ CallersOK /\ rec \in ReclaimerType /\ Reclaimer \in Callers
      /\ waits \in [Callers -> (SUBSET Sections) \cup {NotWaiting}] /\ Reclaimer \notin Updaters
  BY Constants DEF GraceInv, Types
<1>1. UNCHANGED <<sect, gp, upd>> /\ reading' = reading
  BY ReclaimFrame DEF reading
<1>2. CASE ReclaimTake
  <2>1. sync[Reclaimer] = "no" /\ CallSync(Reclaimer) /\ rec'.pc = "syncing"
    BY <1>0, <1>2 DEF ReclaimTake, CallersOK
  <2>2. CallersOK'
    BY <1>0, <1>1, <2>1, CallSyncCallers, SMTT(30)
  <2>. QED
    BY <1>0, <2>1, <2>2 DEF CallSync
<1>3. CASE ReclaimSynced
  <2>1. /\ sync[Reclaimer] = "done" /\ waits' = waits
        /\ sync' = [sync EXCEPT ![Reclaimer] = "no"]
    BY <1>3 DEF ReclaimSynced
  <2>2. CallersOK'
    BY <1>0, <1>1, <2>1, SyncedCallers, Zenon
  <2>. QED
    BY <2>1, <2>2
<1>4. ASSUME ReclaimRun \/ ReclaimDone \/ ReclaimExit
      PROVE  CallersOK' /\ \A p \in Callers : sync[p] = "in" => waits'[p] \subseteq waits[p]
  <2>1. UNCHANGED <<sync, waits>> /\ rec.pc # "syncing"
    BY <1>4 DEF ReclaimRun, ReclaimDone, ReclaimExit, gpVars
  <2>. QED
    BY <1>0, <1>1, <2>1, SMTT(30) DEF CallersOK
<1>. QED
  BY <1>2, <1>3, <1>4 DEF Reclaim
-----------------------------------------------------------------------------
(* Reclamation.                                                            *)

\* What is used of the types.
LEMMA RefFacts ==
    ASSUME GraceInv
    PROVE  /\ sect \in [Sections -> SectionType] /\ cur \in Nat /\ cur \in Versions
           /\ cur # NoPtr /\ \A v \in Versions : v \in Nat /\ v # NoPtr
           /\ upd \in [Updaters -> UpdaterType] /\ \A u \in Updaters : upd[u].old \in Versions
           /\ cb_queue_ \in Seq(Versions) /\ rec \in ReclaimerType /\ rec.batch \in Seq(Versions)
           /\ freed \subseteq Versions
           /\ waits \in [Callers -> (SUBSET Sections) \cup {NotWaiting}]
           /\ \A c \in Sections : c \notin NotWaiting
           /\ \A p \in Callers : sync[p] = "done" => waits[p] = NotWaiting
<1>1. Types /\ CallersOK
  BY DEF GraceInv
<1>2. "not waiting" \notin Sections
  BY RcuAssumption, Zenon
<1>3. \A c \in Sections : c \notin NotWaiting
  BY <1>2, Zenon DEF NotWaiting
<1>4. \A u \in Updaters : upd[u].old \in Versions
  BY <1>1 DEF Types, UpdaterType
<1>5. rec.batch \in Seq(Versions)
  BY <1>1 DEF Types, ReclaimerType
<1>6. \A p \in Callers : sync[p] = "done" => waits[p] = NotWaiting
  BY <1>1 DEF CallersOK
<1>. QED
  BY <1>1, <1>3, <1>4, <1>5, <1>6, Constants DEF Types

LEMMA RefsSame ==
    ASSUME RefsOK, UNCHANGED <<sect, cur, freed, upd, waits, cb_queue_, rec>>
    PROVE  RefsOK'
BY DEF RefsOK

\* A section changes: if it holds a pointer then, it is open and the pointer
\* is the one it held or the published one.
LEMMA ReaderRefs ==
    ASSUME GraceInv, RefsOK, NEW c \in Sections, Reader(c)
    PROVE  RefsOK'
<1>0. UNCHANGED <<cur, freed, upd, cb_queue_, rec>>
  BY ReaderFrame
<1>1. /\ \A d \in Sections \ {c} : sect'[d] = sect[d]
      /\ sect'[c].ref # NoPtr => /\ sect'[c].st = "reading"
                                 /\ \/ sect'[c].ref = cur
                                    \/ sect'[c].ref = sect[c].ref /\ waits' = waits
      /\ \A p \in Callers, d \in Sections \ {c} : d \in waits[p] => d \in waits'[p]
  <2>1. ASSUME NEW t \in Threads, ReadLockLoad(c, t)
        PROVE  sect'[c].ref = NoPtr /\ waits' = waits
               /\ \A d \in Sections \ {c} : sect'[d] = sect[d]
    BY <2>1, RefFacts, Zenon DEF ReadLockLoad, gpVars
  <2>2. ASSUME NEW t \in Threads, ReadUnlock(c, t)
        PROVE  /\ sect'[c].ref = NoPtr /\ \A d \in Sections \ {c} : sect'[d] = sect[d]
               /\ \A p \in Callers, d \in Sections \ {c} : d \in waits[p] => d \in waits'[p]
    <3>1. /\ sect' = [sect EXCEPT ![c] = IdleSection]
          /\ waits' = [p \in Callers |-> IF waits[p] = NotWaiting THEN NotWaiting
                                                                 ELSE waits[p] \ {c}]
      BY <2>2, Zenon DEF ReadUnlock
    <3>2. sect'[c].ref = NoPtr /\ \A d \in Sections \ {c} : sect'[d] = sect[d]
      BY <3>1, RefFacts, Zenon DEF IdleSection
    <3>. QED
      BY <3>1, <3>2
  <2>3. ASSUME ReadLockBump(c)
        PROVE  /\ sect'[c].ref = sect[c].ref /\ sect'[c].st = "reading" /\ waits' = waits
               /\ \A d \in Sections \ {c} : sect'[d] = sect[d]
    BY <2>3, RefFacts DEF ReadLockBump, gpVars, SectionType
  <2>4. ASSUME ReadPtr(c)
        PROVE  /\ sect'[c].ref = cur /\ sect'[c].st = "reading" /\ waits' = waits
               /\ \A d \in Sections \ {c} : sect'[d] = sect[d]
    BY <2>4, RefFacts DEF ReadPtr, gpVars, SectionType
  <2>. QED
    BY <2>1, <2>2, <2>3, <2>4, Zenon DEF Reader
<1>2. /\ freed \subseteq 0..cur - 1 /\ cur \notin freed /\ cur \in Nat
      /\ \A u \in Updaters : upd[u].pc \in {"replaced", "syncing"} => upd[u].old < cur
      /\ \A n \in 1..Len(cb_queue_) : cb_queue_[n] < cur
      /\ \A n \in 1..Len(rec.batch) : rec.batch[n] < cur
  BY RefFacts, SMTT(30) DEF RefsOK
<1>3. ASSUME NEW d \in Sections, sect'[d].ref # NoPtr
      PROVE  sect'[d].st = "reading" /\ sect'[d].ref <= cur /\ sect'[d].ref \notin freed
  BY <1>1, <1>2, <1>3, SMTT(30) DEF RefsOK
<1>4. ASSUME NEW u \in Updaters, upd[u].pc = "syncing",
             NEW d \in Sections, sect'[d].ref = upd[u].old
      PROVE  d \in waits'[u]
  <2>1. upd[u].old # NoPtr /\ upd[u].old \in Nat /\ upd[u].old # cur /\ u \in Callers
    <3>1. upd[u].old \in Versions /\ u \in Callers
      BY RefFacts, Constants, SMTT(30)
    <3>2. upd[u].old \in Nat /\ upd[u].old # NoPtr
      BY <3>1, RefFacts
    <3>3. upd[u].old < cur /\ cur \in Nat
      BY <1>2, <1>4
    <3>. QED
      BY <3>1, <3>2, <3>3
  <2>2. sect[d].ref = upd[u].old /\ (d = c => waits' = waits)
    BY <1>1, <1>4, <2>1
  <2>3. d \in waits[u]
    BY <1>4, <2>2 DEF RefsOK
  <2>. QED
    BY <1>1, <2>1, <2>2, <2>3, SMTT(30)
<1>5. ASSUME NEW n \in 1..Len(rec.batch), NEW d \in Sections, sect'[d].ref = rec.batch[n]
      PROVE  rec.pc = "syncing" /\ d \in waits'[Reclaimer]
  <2>1. rec.batch[n] # NoPtr /\ rec.batch[n] \in Nat /\ rec.batch[n] # cur
    BY <1>2, RefFacts, SMTT(30)
  <2>2. sect[d].ref = rec.batch[n] /\ (d = c => waits' = waits)
    BY <1>1, <1>5, <2>1, SMTT(30)
  <2>3. rec.pc = "syncing" /\ d \in waits[Reclaimer]
    BY <2>2, SMTT(30) DEF RefsOK
  <2>. QED
    BY <1>1, <2>2, <2>3, Constants
<1>. QED
  BY <1>0, <1>2, <1>3, <1>4, <1>5, Zenon DEF RefsOK

\* When synchronize() ends, the sections it waited for have ended.
LEMMA GraceRefs ==
    ASSUME GraceInv, RefsOK, Grace
    PROVE  RefsOK'
<1>0. UNCHANGED <<sect, cur, freed, upd, cb_queue_, rec>>
  BY GraceFrame
<1>1. CASE SyncEnd
  <2>1. gp.pc = "end" /\ waits' = [waits EXCEPT ![gp.by] = NotWaiting]
    BY <1>1 DEF SyncEnd
  <2>2. waits[gp.by] = {}
    BY <2>1 DEF GraceInv, ScanOK
  <2>3. \A p \in Callers, d \in Sections : d \in waits[p] => d \in waits'[p]
    BY <2>1, <2>2, RefFacts, Zenon
  <2>4. Reclaimer \in Callers /\ Updaters \subseteq Callers
    BY Constants
  <2>. QED
    BY <1>0, <2>3, <2>4, Zenon DEF RefsOK
<1>2. ASSUME ~SyncEnd PROVE UNCHANGED waits
  BY <1>2 DEF Grace, SyncLock, SyncScanUnlock, SyncScanBarrier, SyncScanLock, SyncDrained,
     SyncFlip, SyncFlipBarrier
<1>. QED
  BY <1>0, <1>1, <1>2, RefsSame

\* An updater frees what it replaced after its own grace period; a section that
\* opened later loaded a later value.
LEMMA UpdaterRefs ==
    ASSUME GraceInv, RefsOK, NEW u \in Updaters, Updater(u)
    PROVE  RefsOK'
<1>0. /\ UNCHANGED sect /\ u \in Callers /\ Reclaimer \in Callers /\ u # Reclaimer
      /\ Updaters \subseteq Callers
  BY UpdaterFrame, Constants
<1>1. CASE Replace(u)
  <2>1. /\ cur' = cur + 1 /\ UNCHANGED <<freed, waits, cb_queue_, rec>>
        /\ upd'[u].pc = "replaced" /\ upd'[u].old = cur
        /\ \A v \in Updaters : v # u => upd'[v] = upd[v]
    BY <1>1, RefFacts DEF Replace, UpdaterType, gpVars, cbVars
  <2>2. freed' \subseteq 0..cur' - 1
    BY <2>1, RefFacts, SMTT(20) DEF RefsOK
  <2>3. \A c \in Sections : sect'[c].ref # NoPtr =>
          sect'[c].st = "reading" /\ sect'[c].ref <= cur' /\ sect'[c].ref \notin freed'
    <3>1. \A c \in Sections : sect[c].ref \in Versions \cup {NoPtr}
      BY RefFacts DEF SectionType
    <3>. QED
      BY <1>0, <2>1, <3>1, RefFacts, SMTT(30) DEF RefsOK
  <2>4. \A v \in Updaters :
          /\ upd'[v].pc \in {"replaced", "syncing"} => upd'[v].old < cur'
          /\ upd'[v].pc = "syncing" =>
                \A c \in Sections : sect'[c].ref = upd'[v].old => c \in waits'[v]
    BY <1>0, <2>1, RefFacts, SMTT(30) DEF RefsOK
  <2>5. /\ \A n \in 1..Len(cb_queue_) : cb_queue_[n] < cur'
        /\ \A n \in 1..Len(rec.batch) : rec.batch[n] < cur'
    BY <2>1, RefFacts, SMTT(30) DEF RefsOK
  <2>6. \A n \in 1..Len(rec.batch), c \in Sections :
            sect[c].ref = rec.batch[n] => rec.pc = "syncing" /\ c \in waits[Reclaimer]
    BY SMTT(30) DEF RefsOK
  <2>. QED
    BY <1>0, <2>1, <2>2, <2>3, <2>4, <2>5, <2>6, SMTT(30) DEF RefsOK
<1>2. CASE UpdaterSync(u)
  <2>1. /\ UNCHANGED <<cur, freed, cb_queue_, rec>> /\ upd[u].pc = "replaced"
        /\ upd'[u].pc = "syncing" /\ upd'[u].old = upd[u].old
        /\ \A v \in Updaters : v # u => upd'[v] = upd[v]
        /\ waits'[u] = reading /\ \A p \in Callers : p # u => waits'[p] = waits[p]
    BY <1>0, <1>2, RefFacts DEF UpdaterSync, CallSync, UpdaterType, cbVars
  <2>2. \A c \in Sections : sect[c].ref = upd[u].old => c \in reading
    BY RefFacts, Zenon DEF RefsOK, reading
  <2>. QED
    BY <1>0, <2>1, <2>2, SMTT(30) DEF RefsOK
<1>3. CASE UpdaterFree(u)
  <2>1. /\ UNCHANGED <<cur, waits, cb_queue_, rec>> /\ upd[u].pc = "syncing" /\ sync[u] = "done"
        /\ freed' = freed \cup {upd[u].old} /\ upd'[u].pc = "idle"
        /\ \A v \in Updaters : v # u => upd'[v] = upd[v]
    BY <1>3, RefFacts DEF UpdaterFree, UpdaterType, cbVars
  <2>2. \A c \in Sections : sect[c].ref # upd[u].old
    BY <1>0, <2>1, RefFacts, Zenon DEF RefsOK
  <2>3. upd[u].old \in 0..cur - 1
    BY <2>1, RefFacts, SMTT(30) DEF RefsOK
  <2>. QED
    BY <1>0, <2>1, <2>2, <2>3, Zenon DEF RefsOK
<1>4. CASE Call(u)
  <2>1. /\ UNCHANGED <<cur, waits, freed>> /\ upd[u].pc = "replaced" /\ upd'[u].pc = "called"
        /\ cb_queue_' = Append(cb_queue_, upd[u].old)
        /\ \A v \in Updaters : v # u => upd'[v] = upd[v]
        /\ rec'.batch = rec.batch /\ (rec.pc = "syncing" => rec'.pc = "syncing")
    BY <1>4, RefFacts DEF Call, UpdaterType, gpVars, ReclaimerType
  <2>2. \A n \in 1..Len(cb_queue_') : cb_queue_'[n] < cur
    <3>1. cb_queue_ \in Seq(Versions) /\ upd[u].old \in Versions
      BY RefFacts
    <3>2. upd[u].old < cur /\ \A n \in 1..Len(cb_queue_) : cb_queue_[n] < cur
      BY <2>1, Zenon DEF RefsOK
    <3>. QED
      BY <2>1, <3>1, <3>2
  <2>. QED
    BY <1>0, <2>1, <2>2, Zenon DEF RefsOK
<1>5. ASSUME CallReturns(u) \/ BarrierCall(u) \/ BarrierReturn(u) PROVE RefsOK'
  <2>1. /\ UNCHANGED <<cur, waits, freed, cb_queue_, rec>> /\ upd'[u].pc \in {"idle", "barrier"}
        /\ \A v \in Updaters : v # u => upd'[v] = upd[v]
    BY <1>5, RefFacts DEF CallReturns, BarrierCall, BarrierReturn, UpdaterType, gpVars, cbVars
  <2>. QED
    BY <1>0, <2>1, SMTT(30) DEF RefsOK
<1>. QED
  BY <1>1, <1>2, <1>3, <1>4, <1>5 DEF Updater

\* The same for the reclaimer and its batch.
LEMMA ReclaimRefs ==
    ASSUME GraceInv, RefsOK, Reclaim
    PROVE  RefsOK'
<1>0. /\ UNCHANGED <<sect, cur, upd>> /\ Reclaimer \in Callers /\ Reclaimer \notin Updaters
      /\ Updaters \subseteq Callers
  BY ReclaimFrame, Constants
<1>1. CASE ReclaimTake
  <2>1. /\ UNCHANGED freed /\ rec'.pc = "syncing" /\ rec'.batch = cb_queue_ /\ cb_queue_' = <<>>
        /\ waits'[Reclaimer] = reading
        /\ \A p \in Callers : p # Reclaimer => waits'[p] = waits[p]
    BY <1>0, <1>1, RefFacts, Zenon DEF ReclaimTake, CallSync
  <2>2. \A n \in 1..Len(cb_queue_), c \in Sections :
            sect[c].ref = cb_queue_[n] => c \in reading
    <3>1. \A n \in 1..Len(cb_queue_) : cb_queue_[n] # NoPtr
      BY RefFacts
    <3>. QED
      BY <3>1, Zenon DEF RefsOK, reading
  <2>3. \A n \in 1..Len(cb_queue_') : cb_queue_'[n] < cur
    BY <2>1
  <2>. QED
    BY <1>0, <2>1, <2>2, <2>3, Zenon DEF RefsOK
<1>2. CASE ReclaimSynced
  <2>1. /\ UNCHANGED <<freed, waits, cb_queue_>> /\ sync[Reclaimer] = "done"
        /\ rec'.batch = rec.batch
    BY <1>2, RefFacts DEF ReclaimSynced, ReclaimerType, cbVars
  <2>2. \A n \in 1..Len(rec.batch), c \in Sections : sect[c].ref # rec.batch[n]
    BY <1>0, <2>1, RefFacts, Zenon DEF RefsOK
  <2>. QED
    BY <1>0, <2>1, <2>2, Zenon DEF RefsOK
<1>3. CASE ReclaimRun
  <2>1. /\ UNCHANGED <<waits, cb_queue_>> /\ rec.pc = "running" /\ rec.batch # <<>>
        /\ freed' = freed \cup {Head(rec.batch)} /\ rec'.batch = Tail(rec.batch)
    BY <1>3, RefFacts DEF ReclaimRun, ReclaimerType, gpVars, cbVars
  <2>2. \A n \in 1..Len(rec.batch) :
            rec.batch[n] < cur /\ \A c \in Sections : sect[c].ref # rec.batch[n]
    BY <2>1, Zenon DEF RefsOK
  <2>3. 1 \in 1..Len(rec.batch) /\ Head(rec.batch) = rec.batch[1]
    BY <2>1, RefFacts, SMTT(30)
  <2>4. \A n \in 1..Len(rec'.batch) : n + 1 \in 1..Len(rec.batch) /\ rec'.batch[n] = rec.batch[n + 1]
    BY <2>1, RefFacts, SMTT(30)
  <2>5. /\ Head(rec.batch) \in 0..cur - 1
        /\ \A c \in Sections : sect[c].ref # Head(rec.batch)
    BY <2>2, <2>3, RefFacts, SMTT(30)
  <2>6. \A n \in 1..Len(rec'.batch) :
            rec'.batch[n] < cur /\ \A c \in Sections : sect[c].ref # rec'.batch[n]
    BY <2>2, <2>4, SMTT(30)
  <2>. QED
    BY <1>0, <2>1, <2>5, <2>6, Zenon DEF RefsOK
<1>4. ASSUME ReclaimDone \/ ReclaimExit PROVE RefsOK'
  <2>1. /\ UNCHANGED <<waits, cb_queue_, freed>> /\ rec.pc # "syncing" /\ rec'.batch = rec.batch
    BY <1>4, RefFacts, Zenon DEF ReclaimDone, ReclaimExit, ReclaimerType, gpVars, cbVars
  <2>. QED
    BY <1>0, <2>1, Zenon DEF RefsOK
<1>. QED
  BY <1>1, <1>2, <1>3, <1>4 DEF Reclaim

\* RefsOK after every step.
LEMMA RefsStep ==
    ASSUME GraceInv, RefsOK, [Next]_vars
    PROVE  RefsOK'
<1>1. ASSUME NEW t \in Threads, FlushOne(t) \/ ThreadExit(t) PROVE RefsOK'
  BY <1>1, ThreadFrame, RefsSame
<1>2. CASE Destroy \/ Terminated \/ UNCHANGED vars
  BY <1>2, EndFrame, RefsSame
<1>. QED
  BY <1>1, <1>2, ReaderRefs, GraceRefs, UpdaterRefs, ReclaimRefs DEF Next
-----------------------------------------------------------------------------
(* Callbacks.                                                              *)

\* The callback of v is run, or is among the first target ones.
Covered(v, target) ==
    \/ v \in freed
    \/ \E n \in 1..Len(cb_queue_) : cb_queue_[n] = v /\ QueueCount(n) <= target
    \/ \E n \in 1..Len(rec.batch) : rec.batch[n] = v /\ BatchCount(n) <= target

\* The counts of callbacks.
LEMMA CallbackFacts ==
    ASSUME GraceInv, CallbacksOK
    PROVE  /\ cb_done_ \in Nat /\ cb_queued_ \in Nat /\ rec.n \in Nat
           /\ Len(cb_queue_) \in Nat /\ Len(rec.batch) \in Nat /\ rec.n >= Len(rec.batch)
           /\ cb_queued_ = cb_done_ + rec.n + Len(cb_queue_)
<1>1. /\ cb_done_ \in Nat /\ cb_queued_ \in Nat /\ rec.n \in Nat /\ rec.batch \in Seq(Versions)
      /\ cb_queue_ \in Seq(Versions)
  BY DEF GraceInv, Types, ReclaimerType
<1>2. Len(cb_queue_) \in Nat /\ Len(rec.batch) \in Nat
  BY <1>1
<1>. QED
  BY <1>1, <1>2 DEF CallbacksOK, QueueCount

\* What a barrier() waits for.
LEMMA CoveredFacts ==
    ASSUME GraceInv, CallbacksOK, NEW u \in Updaters, upd[u].pc = "barrier"
    PROVE  upd[u].target \in Nat /\ \A v \in upd[u].before : Covered(v, upd[u].target)
<1>1. upd[u].target \in Nat
  BY DEF GraceInv, Types, UpdaterType
<1>. QED
  BY <1>1, SMTT(30) DEF CallbacksOK, Covered

\* What CallbacksOK asks of the state after a step.
LEMMA CallbacksNext ==
    ASSUME cb_queued_' = cb_done_' + rec'.n + Len(cb_queue_'), rec'.n >= Len(rec'.batch),
           rec'.pc \in {"none", "waiting", "exited"} => rec'.batch = <<>> /\ rec'.n = 0,
           \A w \in Updaters : \A v, target :
              upd'[w].pc = "barrier" /\ v \in upd'[w].before /\ target = upd'[w].target
                 => Covered(v, target)'
    PROVE  CallbacksOK'
BY SMTT(30) DEF CallbacksOK, Covered, QueueCount, BatchCount

\* The batch without its first callback.
LEMMA TailFacts ==
    ASSUME NEW s \in Seq(Versions), s # <<>>
    PROVE  /\ Len(s) \in Nat \ {0} /\ Len(Tail(s)) = Len(s) - 1 /\ Head(s) = s[1]
           /\ \A n \in 2..Len(s) : n - 1 \in 1..Len(Tail(s)) /\ Tail(s)[n - 1] = s[n]
<1>1. /\ Len(s) \in Nat \ {0} /\ Len(Tail(s)) = Len(s) - 1 /\ Head(s) = s[1]
      /\ \A n \in 1..Len(s) - 1 : Tail(s)[n] = s[n + 1]
  OBVIOUS
<1>2. ASSUME NEW n \in 2..Len(s)
      PROVE  n - 1 \in 1..Len(Tail(s)) /\ Tail(s)[n - 1] = s[n]
  <2>1. n - 1 \in 1..Len(s) - 1 /\ (n - 1) + 1 = n
    BY <1>1
  <2>. QED
    BY <1>1, <2>1
<1>. QED
  BY <1>1, <1>2

LEMMA CallbacksSame ==
    ASSUME CallbacksOK, UNCHANGED <<freed, upd, cb_queue_, cb_queued_, cb_done_, rec>>
    PROVE  CallbacksOK'
BY DEF CallbacksOK, QueueCount, BatchCount

\* A callback goes to the end of the queue; barrier() takes the count of all.
LEMMA UpdaterCallbacks ==
    ASSUME GraceInv, CallbacksOK, NEW u \in Updaters, Updater(u)
    PROVE  CallbacksOK'
<1>0. UNCHANGED cb_done_
  BY UpdaterFrame
<1>1. ASSUME UNCHANGED <<cb_queue_, cb_queued_, rec>>, freed \subseteq freed', upd'[u].pc # "barrier",
             \A v \in Updaters : v # u => upd'[v] = upd[v]
      PROVE  CallbacksOK'
  <2>1. \A v, target : Covered(v, target) => Covered(v, target)'
    BY <1>0, <1>1 DEF Covered, QueueCount, BatchCount
  <2>2. ASSUME NEW w \in Updaters, NEW v, NEW target, upd'[w].pc = "barrier",
               v \in upd'[w].before, target = upd'[w].target
        PROVE  Covered(v, target)'
    <3>1. w # u /\ upd'[w] = upd[w]
      BY <1>1, <2>2
    <3>2. Covered(v, target)
      BY <2>2, <3>1, CoveredFacts
    <3>. QED
      BY <2>1, <3>2
  <2>3. cb_queued_' = cb_done_' + rec'.n + Len(cb_queue_') /\ rec'.n >= Len(rec'.batch)
    BY <1>0, <1>1, CallbackFacts
  <2>4. rec'.pc \in {"none", "waiting", "exited"} => rec'.batch = <<>> /\ rec'.n = 0
    BY <1>1 DEF CallbacksOK
  <2>. QED
    BY <2>2, <2>3, <2>4, CallbacksNext, SMTT(30)
<1>2. ASSUME Replace(u) \/ UpdaterSync(u) \/ UpdaterFree(u) \/ CallReturns(u) \/ BarrierReturn(u)
      PROVE  CallbacksOK'
  <2>1. /\ UNCHANGED <<cb_queue_, cb_queued_, rec>> /\ freed \subseteq freed'
        /\ upd'[u].pc # "barrier" /\ \A v \in Updaters : v # u => upd'[v] = upd[v]
    BY <1>2, RefFacts DEF Replace, UpdaterSync, UpdaterFree, CallReturns, BarrierReturn,
       UpdaterType, cbVars
  <2>. QED
    BY <1>1, <2>1
<1>3. CASE Call(u)
  <2>1. /\ UNCHANGED freed /\ upd'[u].pc = "called"
        /\ cb_queue_' = Append(cb_queue_, upd[u].old) /\ cb_queued_' = cb_queued_ + 1
        /\ \A v \in Updaters : v # u => upd'[v] = upd[v]
        /\ rec'.batch = rec.batch /\ rec'.n = rec.n
        /\ rec'.pc \in {"none", "waiting", "exited"} => rec.pc \in {"none", "waiting", "exited"}
    BY <1>3, RefFacts DEF Call, UpdaterType, ReclaimerType
  <2>2. /\ Len(cb_queue_') = Len(cb_queue_) + 1
        /\ \A n \in 1..Len(cb_queue_) : n \in 1..Len(cb_queue_') /\ cb_queue_'[n] = cb_queue_[n]
    BY <2>1, RefFacts
  <2>3. \A v, target : Covered(v, target) => Covered(v, target)'
    BY <1>0, <2>1, <2>2 DEF Covered, QueueCount, BatchCount
  <2>4. ASSUME NEW w \in Updaters, NEW v, NEW target, upd'[w].pc = "barrier",
               v \in upd'[w].before, target = upd'[w].target
        PROVE  Covered(v, target)'
    <3>1. w # u /\ upd'[w] = upd[w]
      BY <2>1, <2>4
    <3>2. Covered(v, target)
      BY <2>4, <3>1, CoveredFacts
    <3>. QED
      BY <2>3, <3>2
  <2>5. cb_queued_' = cb_done_' + rec'.n + Len(cb_queue_')
    <3>1. /\ cb_queued_' = cb_queued_ + 1 /\ cb_done_' = cb_done_ /\ rec'.n = rec.n
          /\ Len(cb_queue_') = Len(cb_queue_) + 1
      BY <1>0, <2>1, <2>2
    <3>. QED
      BY <3>1, CallbackFacts, SMTT(30)
  <2>6. rec'.n >= Len(rec'.batch)
    BY <2>1, CallbackFacts
  <2>7. rec'.pc \in {"none", "waiting", "exited"} => rec'.batch = <<>> /\ rec'.n = 0
    BY <2>1 DEF CallbacksOK
  <2>. QED
    BY <2>4, <2>5, <2>6, <2>7, CallbacksNext
<1>4. CASE BarrierCall(u)
  <2>1. /\ UNCHANGED <<freed, cb_queue_, cb_queued_, rec>>
        /\ upd'[u].target = cb_queued_ /\ upd'[u].before = Queued
        /\ \A v \in Updaters : v # u => upd'[v] = upd[v]
    BY <1>4, RefFacts DEF BarrierCall, UpdaterType, cbVars
  <2>2. \A v, target : Covered(v, target)' <=> Covered(v, target)
    BY <1>0, <2>1 DEF Covered, QueueCount, BatchCount
  <2>3. ASSUME NEW v \in Queued PROVE Covered(v, cb_queued_)
    <3>1. CASE \E n \in 1..Len(cb_queue_) : cb_queue_[n] = v
      <4>1. PICK n \in 1..Len(cb_queue_) : cb_queue_[n] = v
        BY <3>1
      <4>2. QueueCount(n) <= cb_queued_
        BY CallbackFacts DEF QueueCount
      <4>. QED
        BY <4>1, <4>2 DEF Covered
    <3>2. CASE \E n \in 1..Len(rec.batch) : rec.batch[n] = v
      <4>1. PICK n \in 1..Len(rec.batch) : rec.batch[n] = v
        BY <3>2
      <4>2. BatchCount(n) <= cb_queued_
        BY CallbackFacts, SMTT(30) DEF BatchCount
      <4>. QED
        BY <4>1, <4>2 DEF Covered
    <3>. QED
      BY <3>1, <3>2 DEF Queued
  <2>4. ASSUME NEW w \in Updaters, NEW v, NEW target, upd'[w].pc = "barrier",
               v \in upd'[w].before, target = upd'[w].target
        PROVE  Covered(v, target)'
    <3>1. CASE w = u
      BY <2>1, <2>2, <2>3, <2>4, <3>1, Zenon
    <3>2. CASE w # u
      <4>1. Covered(v, target)
        BY <2>1, <2>4, <3>2, CoveredFacts, SMTT(30)
      <4>. QED
        BY <2>2, <4>1
    <3>. QED
      BY <3>1, <3>2
  <2>5. cb_queued_' = cb_done_' + rec'.n + Len(cb_queue_') /\ rec'.n >= Len(rec'.batch)
    BY <1>0, <2>1, CallbackFacts
  <2>6. rec'.pc \in {"none", "waiting", "exited"} => rec'.batch = <<>> /\ rec'.n = 0
    BY <2>1 DEF CallbacksOK
  <2>. QED
    BY <2>4, <2>5, <2>6, CallbacksNext
<1>. QED
  BY <1>2, <1>3, <1>4 DEF Updater

\* The reclaimer takes the queue, runs it in order and counts it when it is run.
LEMMA ReclaimCallbacks ==
    ASSUME GraceInv, CallbacksOK, Reclaim
    PROVE  CallbacksOK'
<1>0. UNCHANGED <<upd, cb_queued_>>
  BY ReclaimFrame
<1>1. ASSUME \A v : \A target \in Nat : Covered(v, target) => Covered(v, target)',
             cb_queued_ = cb_done_' + rec'.n + Len(cb_queue_'), rec'.n >= Len(rec'.batch),
             rec'.pc \in {"none", "waiting", "exited"} => rec'.batch = <<>> /\ rec'.n = 0
      PROVE  CallbacksOK'
  <2>1. ASSUME NEW w \in Updaters, NEW v, NEW target, upd'[w].pc = "barrier",
               v \in upd'[w].before, target = upd'[w].target
        PROVE  Covered(v, target)'
    <3>1. Covered(v, target) /\ target \in Nat
      BY <1>0, <2>1, CoveredFacts
    <3>. QED
      BY <1>1, <3>1
  <2>. QED
    BY <1>0, <1>1, <2>1, CallbacksNext
<1>2. CASE ReclaimTake
  <2>1. /\ UNCHANGED <<freed, cb_done_>> /\ rec.pc = "waiting" /\ rec'.pc = "syncing"
        /\ rec'.batch = cb_queue_ /\ rec'.n = Len(cb_queue_) /\ cb_queue_' = <<>>
    BY <1>2 DEF ReclaimTake
  <2>2. rec.batch = <<>> /\ rec.n = 0
    BY <2>1 DEF CallbacksOK
  <2>3. ASSUME NEW v, NEW target \in Nat, Covered(v, target) PROVE Covered(v, target)'
    <3>1. \A n \in 1..Len(cb_queue_) : QueueCount(n) = BatchCount(n)'
      BY <2>1, <2>2, CallbackFacts DEF QueueCount, BatchCount
    <3>. QED
      BY <2>1, <2>2, <2>3, <3>1 DEF Covered
  <2>4. cb_queued_ = cb_done_' + rec'.n + Len(cb_queue_') /\ rec'.n >= Len(rec'.batch)
    BY <2>1, <2>2, CallbackFacts
  <2>. QED
    BY <1>1, <2>1, <2>3, <2>4
<1>3. CASE ReclaimSynced
  <2>1. /\ UNCHANGED <<freed, cb_done_, cb_queue_>> /\ rec'.batch = rec.batch /\ rec'.n = rec.n
        /\ rec'.pc = "running"
    BY <1>3, RefFacts DEF ReclaimSynced, ReclaimerType, cbVars
  <2>2. \A v, target : Covered(v, target) => Covered(v, target)'
    BY <2>1 DEF Covered, QueueCount, BatchCount
  <2>. QED
    BY <1>1, <2>1, <2>2, CallbackFacts
<1>4. CASE ReclaimRun
  <2>1. /\ UNCHANGED <<cb_done_, cb_queue_>> /\ rec.pc = "running" /\ rec'.pc = "running"
        /\ rec'.n = rec.n /\ rec.batch # <<>>
        /\ freed' = freed \cup {Head(rec.batch)} /\ rec'.batch = Tail(rec.batch)
    BY <1>4, RefFacts DEF ReclaimRun, ReclaimerType, cbVars
  <2>2. /\ Len(rec'.batch) = Len(rec.batch) - 1 /\ rec.batch[1] \in freed'
        /\ \A n \in 2..Len(rec.batch) : /\ n - 1 \in 1..Len(rec'.batch)
                                        /\ rec'.batch[n - 1] = rec.batch[n]
    <3>1. rec.batch \in Seq(Versions)
      BY RefFacts
    <3>. QED
      BY <2>1, <3>1, TailFacts
  <2>3. ASSUME NEW v, NEW target \in Nat, Covered(v, target) PROVE Covered(v, target)'
    <3>1. CASE \E n \in 1..Len(rec.batch) : rec.batch[n] = v /\ BatchCount(n) <= target
      <4>1. PICK n \in 1..Len(rec.batch) : rec.batch[n] = v /\ BatchCount(n) <= target
        BY <3>1
      <4>2. CASE n = 1
        BY <2>2, <4>1, <4>2 DEF Covered
      <4>3. CASE n # 1
        <5>1. n \in 2..Len(rec.batch) /\ n - 1 \in Nat
          BY <4>3, CallbackFacts
        <5>3. BatchCount(n - 1)' = BatchCount(n)
          <6>1. BatchCount(n - 1)' = cb_done_' + (rec'.n - Len(rec'.batch)) + (n - 1)
            BY DEF BatchCount
          <6>2. BatchCount(n) = cb_done_ + (rec.n - Len(rec.batch)) + n
            BY DEF BatchCount
          <6>3. /\ cb_done_' = cb_done_ /\ rec'.n = rec.n /\ Len(rec'.batch) = Len(rec.batch) - 1
            BY <2>1, <2>2
          <6>4. \A d, m, l, k \in Nat : d + (m - (l - 1)) + (k - 1) = d + (m - l) + k
            OBVIOUS
          <6>5. n \in Nat /\ cb_done_ \in Nat /\ rec.n \in Nat /\ Len(rec.batch) \in Nat
            BY CallbackFacts
          <6>. QED
            BY <6>1, <6>2, <6>3, <6>4, <6>5
        <5>. QED
          BY <2>2, <4>1, <5>1, <5>3, SMTT(30) DEF Covered
      <4>. QED
        BY <4>2, <4>3
    <3>2. CASE v \in freed \/ \E n \in 1..Len(cb_queue_) : cb_queue_[n] = v /\ QueueCount(n) <= target
      BY <2>1, <3>2 DEF Covered, QueueCount
    <3>. QED
      BY <2>3, <3>1, <3>2 DEF Covered
  <2>4. cb_queued_ = cb_done_' + rec'.n + Len(cb_queue_') /\ rec'.n >= Len(rec'.batch)
    BY <2>1, <2>2, CallbackFacts
  <2>. QED
    BY <1>1, <2>1, <2>3, <2>4
<1>5. CASE ReclaimDone
  <2>1. /\ UNCHANGED <<freed, cb_queue_>> /\ rec.batch = <<>> /\ rec'.batch = <<>> /\ rec'.n = 0
        /\ cb_done_' = cb_done_ + rec.n
    BY <1>5, RefFacts DEF ReclaimDone, ReclaimerType
  <2>2. ASSUME NEW v, NEW target \in Nat, Covered(v, target) PROVE Covered(v, target)'
    <3>1. \A n \in 1..Len(cb_queue_) : QueueCount(n) = QueueCount(n)'
      BY <2>1, CallbackFacts DEF QueueCount
    <3>. QED
      BY <2>1, <2>2, <3>1 DEF Covered
  <2>3. cb_queued_ = cb_done_' + rec'.n + Len(cb_queue_') /\ rec'.n >= Len(rec'.batch)
    BY <2>1, CallbackFacts
  <2>. QED
    BY <1>1, <2>1, <2>2, <2>3
<1>6. CASE ReclaimExit
  <2>1. /\ UNCHANGED <<freed, cb_done_, cb_queue_>> /\ rec'.batch = rec.batch /\ rec'.n = rec.n
        /\ rec.pc = "waiting"
    BY <1>6, RefFacts DEF ReclaimExit, ReclaimerType, cbVars
  <2>2. \A v, target : Covered(v, target) => Covered(v, target)'
    BY <2>1 DEF Covered, QueueCount, BatchCount
  <2>3. rec.batch = <<>> /\ rec.n = 0
    BY <2>1 DEF CallbacksOK
  <2>. QED
    BY <1>1, <2>1, <2>2, <2>3, CallbackFacts
<1>. QED
  BY <1>2, <1>3, <1>4, <1>5, <1>6 DEF Reclaim

\* CallbacksOK after every step.
LEMMA CallbacksStep ==
    ASSUME GraceInv, CallbacksOK, [Next]_vars
    PROVE  CallbacksOK'
<1>1. ASSUME NEW t \in Threads, FlushOne(t) \/ ThreadExit(t) PROVE CallbacksOK'
  BY <1>1, ThreadFrame, CallbacksSame
<1>2. ASSUME NEW c \in Sections, Reader(c) PROVE CallbacksOK'
  BY <1>2, ReaderFrame, CallbacksSame
<1>3. CASE Grace
  BY <1>3, GraceFrame, CallbacksSame
<1>4. CASE Destroy \/ Terminated \/ UNCHANGED vars
  BY <1>4, EndFrame, CallbacksSame
<1>. QED
  BY <1>1, <1>2, <1>3, <1>4, UpdaterCallbacks, ReclaimCallbacks DEF Next
-----------------------------------------------------------------------------
(* Destruction.                                                            *)

\* The replaced value v was not freed yet, and somebody is to free it.
Owed(v) ==
    \/ \E n \in 1..Len(cb_queue_) : cb_queue_[n] = v
    \/ \E n \in 1..Len(rec.batch) : rec.batch[n] = v
    \/ \E u \in Updaters : upd[u].pc \in {"replaced", "syncing"} /\ upd[u].old = v

\* DestroyOK, and DestroyOK of the state after a step, with Owed.
LEMMA DestroyFacts ==
    DestroyOK <=> /\ \A v \in 0..cur - 1 : v \in freed \/ Owed(v)
                  /\ cb_stop_ => \A u \in Updaters : upd[u].pc = "idle"
                  /\ rec.pc = "none" => cb_queue_ = <<>>
                  /\ rec.pc = "exited" => cb_stop_ /\ cb_queue_ = <<>>
BY SMTT(30) DEF DestroyOK, Owed, Queued

LEMMA DestroyNext ==
    ASSUME \A v \in 0..cur' - 1 : v \in freed' \/ Owed(v)',
           cb_stop_' => \A u \in Updaters : upd'[u].pc = "idle",
           rec'.pc = "none" => cb_queue_' = <<>>,
           rec'.pc = "exited" => cb_stop_' /\ cb_queue_' = <<>>
    PROVE  DestroyOK'
BY DEF DestroyOK, Owed, Queued

LEMMA DestroySame ==
    ASSUME DestroyOK, UNCHANGED <<cur, freed, upd, cb_queue_, cb_stop_, rec>>
    PROVE  DestroyOK'
BY DEF DestroyOK, Queued

\* An updater owes what it replaced until it frees it or queues its callback.
LEMMA UpdaterDestroy ==
    ASSUME GraceInv, DestroyOK, NEW u \in Updaters, Updater(u)
    PROVE  DestroyOK'
<1>0. /\ UNCHANGED cb_stop_ /\ upd \in [Updaters -> UpdaterType] /\ rec \in ReclaimerType
      /\ cur \in Nat
  BY UpdaterFrame, RefFacts
<1>1. ~cb_stop_ /\ ~cb_stop_'
  <2>1. ~cb_stop_ \/ upd[u].pc # "idle"
    BY DEF Updater, Replace, UpdaterSync, UpdaterFree, Call, CallReturns, BarrierCall, BarrierReturn
  <2>. QED
    BY <1>0, <2>1 DEF DestroyOK
<1>2. ASSUME UNCHANGED <<cb_queue_, rec>>,
             \A v \in 0..cur' - 1 : v \in freed' \/ Owed(v)'
      PROVE  DestroyOK'
  <2>1. /\ rec'.pc = "none" => cb_queue_' = <<>>
        /\ rec'.pc = "exited" => cb_stop_' /\ cb_queue_' = <<>>
    BY <1>0, <1>2 DEF DestroyOK
  <2>. QED
    BY <1>1, <1>2, <2>1, DestroyNext
<1>3. CASE Replace(u)
  <2>1. /\ UNCHANGED <<freed, cb_queue_, rec>> /\ cur' = cur + 1 /\ upd[u].pc = "idle"
        /\ upd'[u].pc = "replaced" /\ upd'[u].old = cur
        /\ \A w \in Updaters : w # u => upd'[w] = upd[w]
    BY <1>0, <1>3 DEF Replace, UpdaterType, cbVars
  <2>2. \A v : Owed(v) => Owed(v)'
    BY <2>1 DEF Owed
  <2>4. ASSUME NEW v \in 0..cur' - 1 PROVE v \in freed' \/ Owed(v)'
    <3>1. CASE v = cur
      BY <2>1, <3>1 DEF Owed
    <3>2. CASE v # cur
      <4>1. v \in 0..cur - 1
        BY <1>0, <2>1, <3>2
      <4>. QED
        BY <2>1, <2>2, <4>1, DestroyFacts, SMTT(30)
    <3>. QED
      BY <3>1, <3>2
  <2>. QED
    BY <1>2, <2>1, <2>4
<1>4. CASE UpdaterSync(u)
  <2>1. /\ UNCHANGED <<cur, freed, cb_queue_, rec>>
        /\ upd'[u].pc = "syncing" /\ upd'[u].old = upd[u].old
        /\ \A w \in Updaters : w # u => upd'[w] = upd[w]
    BY <1>0, <1>4 DEF UpdaterSync, UpdaterType, cbVars
  <2>2. \A v : Owed(v) => Owed(v)'
    BY <2>1 DEF Owed
  <2>. QED
    BY <1>2, <2>1, <2>2, DestroyFacts, SMTT(30)
<1>5. CASE UpdaterFree(u)
  <2>1. /\ UNCHANGED <<cur, cb_queue_, rec>> /\ freed' = freed \cup {upd[u].old}
        /\ \A w \in Updaters : w # u => upd'[w] = upd[w]
    BY <1>0, <1>5 DEF UpdaterFree, cbVars
  <2>2. \A v : Owed(v) => Owed(v)' \/ v = upd[u].old
    BY <2>1 DEF Owed
  <2>. QED
    BY <1>2, <2>1, <2>2, DestroyFacts, SMTT(30)
<1>6. CASE Call(u)
  <2>1. /\ UNCHANGED <<cur, freed>> /\ cb_queue_' = Append(cb_queue_, upd[u].old)
        /\ \A w \in Updaters : w # u => upd'[w] = upd[w]
        /\ rec'.batch = rec.batch /\ rec'.pc # "none"
        /\ rec'.pc = "exited" => rec.pc = "exited"
    BY <1>0, <1>6 DEF Call, ReclaimerType
  <2>2. /\ \A n \in 1..Len(cb_queue_) : n \in 1..Len(cb_queue_') /\ cb_queue_'[n] = cb_queue_[n]
        /\ \E n \in 1..Len(cb_queue_') : cb_queue_'[n] = upd[u].old
    <3>1. /\ cb_queue_ \in Seq(Versions) /\ upd[u].old \in Versions
      BY RefFacts
    <3>2. /\ Len(cb_queue_) \in Nat /\ Len(cb_queue_') = Len(cb_queue_) + 1
          /\ \A n \in 1..Len(cb_queue_) : cb_queue_'[n] = cb_queue_[n]
          /\ cb_queue_'[Len(cb_queue_) + 1] = upd[u].old
      BY <2>1, <3>1
    <3>. QED
      BY <3>2
  <2>3. \A v : Owed(v) => Owed(v)'
    BY <2>1, <2>2, SMTT(30) DEF Owed
  <2>4. \A v \in 0..cur' - 1 : v \in freed' \/ Owed(v)'
    BY <2>1, <2>3, DestroyFacts, SMTT(30)
  <2>5. rec'.pc # "exited"
    BY <1>1, <2>1, DestroyFacts
  <2>. QED
    BY <1>1, <2>1, <2>4, <2>5, DestroyNext
<1>7. ASSUME CallReturns(u) \/ BarrierCall(u) \/ BarrierReturn(u) PROVE DestroyOK'
  <2>1. /\ UNCHANGED <<cur, freed, cb_queue_, rec>> /\ upd[u].pc \in {"called", "barrier"}
        /\ \A w \in Updaters : w # u => upd'[w] = upd[w]
    BY <1>0, <1>7 DEF CallReturns, BarrierCall, BarrierReturn, cbVars
  <2>2. \A v : Owed(v) => Owed(v)'
    BY <2>1, SMTT(30) DEF Owed
  <2>. QED
    BY <1>2, <2>1, <2>2, DestroyFacts
<1>. QED
  BY <1>3, <1>4, <1>5, <1>6, <1>7 DEF Updater

\* The reclaimer exits with nothing queued.
LEMMA ReclaimDestroy ==
    ASSUME GraceInv, CallbacksOK, DestroyOK, Reclaim
    PROVE  DestroyOK'
<1>0. UNCHANGED <<cur, upd, cb_stop_>> /\ rec \in ReclaimerType
  BY ReclaimFrame, RefFacts
<1>1. ASSUME \A v : Owed(v) => v \in freed' \/ Owed(v)', freed \subseteq freed',
             rec'.pc # "none", rec'.pc = "exited" => cb_stop_ /\ cb_queue_' = <<>>
      PROVE  DestroyOK'
  <2>1. \A v \in 0..cur' - 1 : v \in freed' \/ Owed(v)'
    BY <1>0, <1>1, DestroyFacts
  <2>2. cb_stop_' => \A u \in Updaters : upd'[u].pc = "idle"
    BY <1>0 DEF DestroyOK
  <2>. QED
    BY <1>0, <1>1, <2>1, <2>2, DestroyNext, SMTT(30)
<1>2. CASE ReclaimTake
  <2>1. /\ UNCHANGED freed /\ rec.pc = "waiting" /\ rec'.pc = "syncing" /\ rec'.batch = cb_queue_
    BY <1>2 DEF ReclaimTake
  <2>2. rec.batch = <<>>
    BY <2>1 DEF CallbacksOK
  <2>3. \A v : Owed(v) => Owed(v)'
    <3>1. ~\E n \in 1..Len(rec.batch) : TRUE
      BY <2>2
    <3>. QED
      BY <1>0, <2>1, <3>1, Zenon DEF Owed
  <2>. QED
    BY <1>1, <2>1, <2>3
<1>3. ASSUME ReclaimSynced \/ ReclaimDone PROVE DestroyOK'
  <2>1. /\ UNCHANGED <<freed, cb_queue_>> /\ rec'.pc \in {"running", "waiting"}
        /\ rec'.batch = rec.batch
    BY <1>0, <1>3, Zenon DEF ReclaimSynced, ReclaimDone, ReclaimerType, cbVars
  <2>2. \A v : Owed(v) => Owed(v)'
    BY <1>0, <2>1, SMTT(30) DEF Owed
  <2>. QED
    BY <1>1, <2>1, <2>2, SMTT(30)
<1>4. CASE ReclaimRun
  <2>1. /\ UNCHANGED cb_queue_ /\ rec'.pc = "running" /\ rec.batch # <<>>
        /\ freed' = freed \cup {Head(rec.batch)} /\ rec'.batch = Tail(rec.batch)
    BY <1>0, <1>4 DEF ReclaimRun, ReclaimerType, cbVars
  <2>2. /\ Len(rec.batch) \in Nat /\ rec.batch[1] \in freed'
        /\ \A n \in 2..Len(rec.batch) : /\ n - 1 \in 1..Len(rec'.batch)
                                        /\ rec'.batch[n - 1] = rec.batch[n]
    <3>1. rec.batch \in Seq(Versions)
      BY RefFacts
    <3>. QED
      BY <2>1, <3>1, TailFacts
  <2>3. ASSUME NEW v, Owed(v) PROVE v \in freed' \/ Owed(v)'
    <3>1. CASE \E n \in 1..Len(rec.batch) : rec.batch[n] = v
      <4>1. PICK n \in 1..Len(rec.batch) : rec.batch[n] = v
        BY <3>1
      <4>2. n = 1 \/ n \in 2..Len(rec.batch)
        BY <2>2
      <4>3. v \in freed' \/ \E m \in 1..Len(rec'.batch) : rec'.batch[m] = v
        BY <2>2, <4>1, <4>2, SMTT(30)
      <4>. QED
        BY <4>3 DEF Owed
    <3>. QED
      BY <1>0, <2>1, <2>3, <3>1, SMTT(30) DEF Owed
  <2>. QED
    BY <1>1, <2>1, <2>3, SMTT(30)
<1>5. CASE ReclaimExit
  <2>1. /\ UNCHANGED <<freed, cb_queue_>> /\ cb_queue_ = <<>> /\ cb_stop_
        /\ rec'.batch = rec.batch /\ rec'.pc = "exited"
    BY <1>0, <1>5 DEF ReclaimExit, ReclaimerType, cbVars
  <2>2. \A v : Owed(v) => Owed(v)'
    BY <1>0, <2>1, SMTT(30) DEF Owed
  <2>. QED
    BY <1>1, <2>1, <2>2, SMTT(30)
<1>. QED
  BY <1>2, <1>3, <1>4, <1>5 DEF Reclaim

\* DestroyOK after every step.
LEMMA DestroyStep ==
    ASSUME GraceInv, CallbacksOK, DestroyOK, [Next]_vars
    PROVE  DestroyOK'
<1>1. ASSUME NEW t \in Threads, FlushOne(t) \/ ThreadExit(t) PROVE DestroyOK'
  BY <1>1, ThreadFrame, DestroySame
<1>2. ASSUME NEW c \in Sections, Reader(c) PROVE DestroyOK'
  BY <1>2, ReaderFrame, DestroySame
<1>3. CASE Grace
  BY <1>3, GraceFrame, DestroySame
<1>4. CASE Terminated \/ UNCHANGED vars
  BY <1>4, DestroySame, SMTT(30) DEF Terminated, vars, cbVars
<1>5. CASE Destroy
  BY <1>5, SMTT(30) DEF Destroy, DestroyOK, Queued
<1>. QED
  BY <1>1, <1>2, <1>3, <1>4, <1>5, UpdaterDestroy, ReclaimDestroy DEF Next
=============================================================================
