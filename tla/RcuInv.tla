------------------------------ MODULE RcuInv ------------------------------
(***************************************************************************)
(* The inductive invariant of Rcu.                                         *)
(*                                                                         *)
(* The counts: the lock bumps made on an index, visible or still in a      *)
(* buffer, exceed its unlock bumps by the sections open on it, whichever   *)
(* slots the bumps land on and whenever they become visible (CountsOK).    *)
(* A scan that reads the unlocks of an index on all slots, then has a      *)
(* barrier, then reads the locks, cannot find as many unlocks as locks     *)
(* while a section it waits for is open on that index (ScanOK).            *)
(***************************************************************************)
EXTENDS Rcu

-----------------------------------------------------------------------------
(* Sums over the slots, in the order of the scan.                          *)

N == kMaxThreads + 1

\* f gives the partial sums of g.
IsSum(f, g) ==
    /\ f \in [0..N -> Nat] /\ f[0] = 0
    /\ \A k \in 1..N : f[k] = f[k - 1] + g[k]
Upto(g) == CHOOSE f : IsSum(f, g)
-----------------------------------------------------------------------------
(* The counters.                                                           *)

Counter == [Slots -> [0..1 -> Nat]]
Row(c, i) == [k \in 1..N |-> c[ScanOrder[k]][i]]

\* The sum of counter c at index i over the first k slots, and over all.
Part(c, i, k) == Upto(Row(c, i))[k]
Total(c, i) == Part(c, i, N)
-----------------------------------------------------------------------------
(* The store buffers.                                                      *)

Store == [ctr : {"lock", "unlock"}, slot : Slots, idx : 0..1]

\* The stores to a counter at index i that are not visible yet, and all that
\* were made.
Pend(ctr, i) == {p \in Stores : buf[p[1]][p[2]].ctr = ctr /\ buf[p[1]][p[2]].idx = i}
Locks(i) == Total(lock, i) + Cardinality(Pend("lock", i))
Unlocks(i) == Total(unlock, i) + Cardinality(Pend("unlock", i))

StoresOK ==
    /\ lock \in Counter /\ unlock \in Counter
    /\ buf \in [Threads -> Seq(Store)] /\ IsFiniteSet(Stores)

Grows ==
    \A s \in Slots, i \in 0..1 : lock[s][i] <= lock'[s][i] /\ unlock[s][i] <= unlock'[s][i]

-----------------------------------------------------------------------------
(* Grace periods: the inductive invariant.                                 *)

UnlockPcs == {"unlocks_before", "unlocks_after"}
LockPcs == {"locks_before", "locks_after"}
SectionType == [st : {"idle", "entering", "reading"}, on : Threads \cup {Nobody},
            idx : 0..1, ref : Versions \cup {NoPtr}]
GraceType == [by : Callers \cup {Nobody},
           pc : {"idle", "flip", "flipped", "end"} \cup UnlockPcs \cup LockPcs,
           k : Nat, unlocks : Nat, locks : Nat]
UpdaterType == [pc : {"idle", "replaced", "syncing", "called", "barrier"},
             old : Versions, target : Nat, before : SUBSET Versions]
ReclaimerType == [pc : {"none", "waiting", "syncing", "running", "exited"},
               batch : Seq(Versions), n : Nat]

Types ==
    /\ gp_idx_ \in 0..1
    /\ in_use_ \in [0..kMaxThreads - 1 -> BOOLEAN]
    /\ slotOf \in [Threads -> Slots \cup {NoSlot}]
    /\ sect \in [Sections -> SectionType]
    /\ entries \in 0..MaxEntries
    /\ gp \in GraceType
    /\ sync \in [Callers -> {"no", "want", "in", "done"}]
    /\ waits \in [Callers -> (SUBSET Sections) \cup {NotWaiting}]
    /\ cur \in Versions /\ freed \subseteq Versions
    /\ upd \in [Updaters -> UpdaterType]
    /\ cb_queue_ \in Seq(Versions) /\ cb_queued_ \in Nat /\ cb_done_ \in Nat
    /\ cb_stop_ \in BOOLEAN
    /\ rec \in ReclaimerType

\* The thread of an open section; a thread half way through read_lock() keeps
\* its slot.
SectionsOK ==
    \A c \in Sections :
        /\ sect[c].st # "idle" => sect[c].on \in Threads
        /\ sect[c].st = "entering" => slotOf[sect[c].on] \in Slots

\* The sections on index i that are in a state.
In(st, i) == {c \in Sections : sect[c].st = st /\ sect[c].idx = i}

\* Every open section made one lock bump more than unlock bumps, and no more
\* bumps were made than sections were opened.
CountsOK ==
    /\ StoresOK
    /\ \A i \in 0..1 : /\ Locks(i) = Unlocks(i) + Cardinality(In("reading", i))
                       /\ Locks(i) + Cardinality(In("entering", i)) <= entries

CallersOK ==
    /\ gp.by = Nobody <=> gp.pc = "idle"
    /\ \A p \in Callers :
          /\ sync[p] = "in" <=> gp.by = p
          /\ sync[p] \in {"no", "done"} <=> waits[p] = NotWaiting
          /\ waits[p] # NotWaiting => waits[p] \subseteq reading
    /\ \A u \in Updaters : upd[u].pc # "syncing" => sync[u] = "no"
    /\ rec.pc # "syncing" => sync[Reclaimer] = "no"

\* The sections on index i that the synchronize() holding gp_mu_ waits for.
Left(i) == {c \in Sections : c \in waits[gp.by] /\ sect[c].idx = i}

\* A scan reads no more unlocks than were made when it is done with them, and
\* from then on at least the locks of those unlocks and of the sections it
\* waits for.
ScanOK ==
    /\ gp.pc \in UnlockPcs =>
          gp.k \in 1..N + 1 /\ gp.unlocks <= Part(unlock, ScanIdx, gp.k - 1)
    /\ gp.pc \in LockPcs =>
          /\ gp.k \in 1..N + 1
          /\ gp.unlocks + Cardinality(Left(ScanIdx)) + Part(lock, ScanIdx, gp.k - 1)
                <= gp.locks + Total(lock, ScanIdx)
    /\ gp.pc = "flip" => Left(ScanIdx) = {}
    /\ gp.pc \in {"flipped", "unlocks_after", "locks_after"} => Left(gp_idx_) = {}
    /\ gp.pc = "end" => waits[gp.by] = {}

GraceInv == Types /\ SectionsOK /\ CountsOK /\ CallersOK /\ ScanOK
-----------------------------------------------------------------------------
(* Reclamation: the inductive invariant.                                   *)

RefsOK ==
    /\ freed \subseteq 0..cur - 1
    /\ \A c \in Sections : sect[c].ref # NoPtr =>
          sect[c].st = "reading" /\ sect[c].ref <= cur /\ sect[c].ref \notin freed
    /\ \A u \in Updaters :
          /\ upd[u].pc \in {"replaced", "syncing"} => upd[u].old < cur
          /\ upd[u].pc = "syncing" =>
                \A c \in Sections : sect[c].ref = upd[u].old => c \in waits[u]
    /\ \A n \in 1..Len(cb_queue_) : cb_queue_[n] < cur
    /\ \A n \in 1..Len(rec.batch) :
          /\ rec.batch[n] < cur
          /\ \A c \in Sections : sect[c].ref = rec.batch[n] =>
                rec.pc = "syncing" /\ c \in waits[Reclaimer]

\* How many callbacks were queued up to the n-th of the queue, of the batch.
QueueCount(n) == cb_done_ + rec.n + n
BatchCount(n) == cb_done_ + (rec.n - Len(rec.batch)) + n

CallbacksOK ==
    /\ cb_queued_ = QueueCount(Len(cb_queue_))
    /\ rec.pc \in {"none", "waiting", "exited"} => rec.batch = <<>> /\ rec.n = 0
    /\ rec.n >= Len(rec.batch)
    /\ \A u \in Updaters : upd[u].pc = "barrier" =>
          \A v \in upd[u].before :
              \/ v \in freed
              \/ \E n \in 1..Len(cb_queue_) :
                    cb_queue_[n] = v /\ QueueCount(n) <= upd[u].target
              \/ \E n \in 1..Len(rec.batch) :
                    rec.batch[n] = v /\ BatchCount(n) <= upd[u].target

DestroyOK ==
    /\ \A v \in 0..cur - 1 :
          \/ v \in freed \cup Queued
          \/ \E u \in Updaters : upd[u].pc \in {"replaced", "syncing"} /\ upd[u].old = v
    /\ cb_stop_ => \A u \in Updaters : upd[u].pc = "idle"
    /\ rec.pc = "none" => cb_queue_ = <<>>
    /\ rec.pc = "exited" => cb_stop_ /\ cb_queue_ = <<>>

IInv == GraceInv /\ RefsOK /\ CallbacksOK /\ DestroyOK
=============================================================================
