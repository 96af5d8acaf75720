---------------------------- MODULE GracePeriod ----------------------------
(***************************************************************************)
(* What udepot::Rcu promises its callers (rcu.h:66-79): a grace period     *)
(* started by a caller ends only after every read-side critical section    *)
(* that was open when it started has ended.  That it ends at all is Rcu's  *)
(* SyncReturns.                                                            *)
(***************************************************************************)
CONSTANTS Sections,     \* read-side critical sections (ReadGuard objects)
          Callers       \* threads that wait for a grace period

VARIABLES reading,      \* the sections that are open
          waits         \* per caller: NotWaiting, or the sections it waits for

vars == <<reading, waits>>

NotWaiting == {"not waiting"}

TypeOK ==
    /\ reading \subseteq Sections
    /\ waits \in [Callers -> (SUBSET Sections) \cup {NotWaiting}]

Init ==
    /\ reading = {}
    /\ waits = [p \in Callers |-> NotWaiting]

Enter(c) ==
    /\ c \notin reading
    /\ reading' = reading \cup {c}
    /\ UNCHANGED waits

\* A section that ends is no longer waited for; entering again later does
\* not prolong a grace period that is already running.
Leave(c) ==
    /\ c \in reading
    /\ reading' = reading \ {c}
    /\ waits' = [p \in Callers |->
                    IF waits[p] = NotWaiting THEN NotWaiting
                                             ELSE waits[p] \ {c}]

Start(p) ==
    /\ waits[p] = NotWaiting
    /\ waits' = [waits EXCEPT ![p] = reading]
    /\ UNCHANGED reading

Finish(p) ==
    /\ waits[p] = {}
    /\ waits' = [waits EXCEPT ![p] = NotWaiting]
    /\ UNCHANGED reading

Next ==
    \/ \E c \in Sections : Enter(c) \/ Leave(c)
    \/ \E p \in Callers : Start(p) \/ Finish(p)

Spec == Init /\ [][Next]_vars
=============================================================================
