------------------------------- MODULE Task -------------------------------
(***************************************************************************)
(* CoroTask (src/src/udepot/coro.h): coroutines that start eagerly, nest,  *)
(* and finish on whichever thread resumes them.                            *)
(*                                                                         *)
(* An operation is a chain of frames, level 1 the one run_sync() drives.   *)
(* A frame starts its child on its own stack and then co_awaits it.  By    *)
(* then the child may have completed, or be about to on another thread:    *)
(* each side finds out by what it exchanges in the child's continuation_.  *)
(*                                                                         *)
(* A thread runs frame lvl of an operation.  Its stack holds the frames    *)
(* from base on: base was started or resumed from outside the operation,   *)
(* and every later one was started by the one before it.                   *)
(***************************************************************************)
EXTENDS Integers

CONSTANTS Ops, Threads,
          Depth,        \* bound: how deep frames nest
          NoOp, NoThread

ASSUME TaskAssumption ==
    Depth \in Nat \ {0} /\ NoOp \notin Ops /\ NoThread \notin Threads

VARIABLES fr,           \* per operation and level: the frame
          cont,         \* per operation and level: the frame's continuation_
          th,           \* per thread: the frames on its stack
          owner         \* per operation: the thread in run_sync() on it

taskVars == <<fr, cont, th, owner>>

Levels == 1..Depth
Idle == [op |-> NoOp, base |-> 0, lvl |-> 0, at |-> "idle"]
Runs(o, b, l, at) == [op |-> o, base |-> b, lvl |-> l, at |-> at]

TaskInit ==
    /\ fr = [o \in Ops |-> [l \in Levels |-> "none"]]
    /\ cont = [o \in Ops |-> [l \in Levels |-> "null"]]
    /\ th = [t \in Threads |-> Idle]
    /\ owner = [o \in Ops |-> NoThread]

\* A frame of thread t's stack has suspended or completed: the thread returns
\* to the frame that started it, about to co_await it, or leaves the operation.
Below(x) == IF x.lvl > x.base THEN Runs(x.op, x.base, x.lvl - 1, "await") ELSE Idle

\* A thread calls a coroutine it will drive with run_sync().
Start(t, o) ==
    /\ th[t].at = "idle"
    /\ owner[o] = NoThread /\ \A p \in Ops : owner[p] # t
    /\ owner' = [owner EXCEPT ![o] = t]
    /\ fr' = [fr EXCEPT ![o][1] = "run"]
    /\ th' = [th EXCEPT ![t] = Runs(o, 1, 1, "run")]
    /\ UNCHANGED cont

\* A frame starts a child: initial_suspend() never suspends.
Call(t) ==
    LET x == th[t]
    IN  /\ x.at = "run" /\ x.lvl < Depth
        /\ fr' = [fr EXCEPT ![x.op][x.lvl + 1] = "run"]
        /\ th' = [th EXCEPT ![t] = Runs(x.op, x.base, x.lvl + 1, "run")]
        /\ UNCHANGED <<cont, owner>>

\* A frame suspends for I/O, a socket or space; from here on another thread may
\* resume it.
Suspend(t) ==
    LET x == th[t]
    IN  /\ x.at = "run"
        /\ fr' = [fr EXCEPT ![x.op][x.lvl] = "susp"]
        /\ th' = [th EXCEPT ![t] = Below(x)]
        /\ UNCHANGED <<cont, owner>>

\* co_return and FinalAwaitable: the exchange leaves completed_tag(), and finds
\* the parent to resume in its place, or nobody yet.
Return(t) ==
    LET x == th[t]
    IN  /\ x.at = "run"
        /\ \/ /\ cont[x.op][x.lvl] = "parent"
              /\ fr' = [fr EXCEPT ![x.op][x.lvl] = "none", ![x.op][x.lvl - 1] = "run"]
              /\ cont' = [cont EXCEPT ![x.op][x.lvl] = "null"]
              /\ th' = [th EXCEPT ![t] = Runs(x.op, x.lvl - 1, x.lvl - 1, "run")]
           \/ /\ cont[x.op][x.lvl] = "null"
              /\ fr' = [fr EXCEPT ![x.op][x.lvl] = "done"]
              /\ cont' = [cont EXCEPT ![x.op][x.lvl] = "done"]
              /\ th' = [th EXCEPT ![t] = Below(x)]
        /\ UNCHANGED owner

\* The parent goes on: await_resume(), and the child is destroyed.
Resumed(t, x) ==
    /\ cont[x.op][x.lvl + 1] = "done"
    /\ fr' = [fr EXCEPT ![x.op][x.lvl + 1] = "none"]
    /\ cont' = [cont EXCEPT ![x.op][x.lvl + 1] = "null"]
    /\ th' = [th EXCEPT ![t] = Runs(x.op, x.base, x.lvl, "run")]

\* await_ready(): has the child completed?
AwaitReady(t) ==
    LET x == th[t]
    IN  /\ x.at = "await"
        /\ \/ Resumed(t, x)
           \/ /\ cont[x.op][x.lvl + 1] # "done"
              /\ th' = [th EXCEPT ![t] = Runs(x.op, x.base, x.lvl, "suspend")]
              /\ UNCHANGED <<fr, cont>>
        /\ UNCHANGED owner

\* Mutant: the handle is stored without looking at what was there.
AwaitSuspend_Store(t) ==
    LET x == th[t]
    IN  /\ x.at = "suspend"
        /\ cont' = [cont EXCEPT ![x.op][x.lvl + 1] = "parent"]
        /\ fr' = [fr EXCEPT ![x.op][x.lvl] = "susp"]
        /\ th' = [th EXCEPT ![t] = Below(x)]
        /\ UNCHANGED owner

\* await_suspend(): the exchange leaves the parent's handle, and finds whether
\* the child has completed since.
AwaitSuspend(t) ==
    LET x == th[t]
    IN  /\ x.at = "suspend"
        /\ \/ Resumed(t, x)
           \/ /\ cont[x.op][x.lvl + 1] # "done"
              /\ cont' = [cont EXCEPT ![x.op][x.lvl + 1] = "parent"]
              /\ fr' = [fr EXCEPT ![x.op][x.lvl] = "susp"]
              /\ th' = [th EXCEPT ![t] = Below(x)]
        /\ UNCHANGED owner

\* The frame that no child of its own keeps waiting.
Leaf(o, l) == fr[o][l] = "susp" /\ (l < Depth => fr[o][l + 1] = "none")

\* A thread that polls completions, a socket or space resumes a frame.
Resume(t, o, l) ==
    /\ th[t].at = "idle"
    /\ Leaf(o, l)
    /\ fr' = [fr EXCEPT ![o][l] = "run"]
    /\ th' = [th EXCEPT ![t] = Runs(o, l, l, "run")]
    /\ UNCHANGED <<cont, owner>>

\* run_sync() sees completed_tag(), takes the result and destroys the frame.
RunSync(t, o) ==
    /\ th[t].at = "idle"
    /\ owner[o] = t
    /\ cont[o][1] = "done"
    /\ fr' = [fr EXCEPT ![o][1] = "none"]
    /\ cont' = [cont EXCEPT ![o][1] = "null"]
    /\ owner' = [owner EXCEPT ![o] = NoThread]
    /\ UNCHANGED th

TaskNext ==
    \E t \in Threads :
       \/ Call(t) \/ Suspend(t) \/ Return(t) \/ AwaitReady(t) \/ AwaitSuspend(t)
       \/ \E o \in Ops : \/ Start(t, o) \/ RunSync(t, o)
                         \/ \E l \in Levels : Resume(t, o, l)

TaskSpec == TaskInit /\ [][TaskNext]_taskVars
-----------------------------------------------------------------------------
(* Properties.                                                             *)

FrameType == {"none", "run", "susp", "done"}
ContType == {"null", "parent", "done"}
ThreadType == [op : Ops \cup {NoOp}, base : 0..Depth, lvl : 0..Depth,
               at : {"idle", "run", "await", "suspend"}]

TaskTypeOK ==
    /\ fr \in [Ops -> [Levels -> FrameType]]
    /\ cont \in [Ops -> [Levels -> ContType]]
    /\ th \in [Threads -> ThreadType]
    /\ owner \in [Ops -> Threads \cup {NoThread}]

OnStack(t, o, l) == th[t].op = o /\ th[t].base <= l /\ l <= th[t].lvl

\* A frame is on the stack of one thread at most, whichever threads start,
\* finish and resume the operation's frames, and only while it runs: no frame
\* is entered twice, or used once it has completed and can be destroyed.
OneRunner ==
    \A o \in Ops, l \in Levels :
       /\ \A t, u \in Threads : OnStack(t, o, l) /\ OnStack(u, o, l) => t = u
       /\ \A t \in Threads : OnStack(t, o, l) => fr[o][l] = "run"

\* A frame that waits for its child is waited for by it: the child has not
\* completed and will find its parent when it does.  No wake-up is lost between
\* await_ready(), await_suspend() and the child's last exchange.
NoLostParent ==
    \A o \in Ops, l \in 1..Depth - 1 :
       fr[o][l] = "susp" /\ fr[o][l + 1] # "none" =>
          /\ cont[o][l + 1] = "parent"
          /\ fr[o][l + 1] \in {"run", "susp"}

FrameSafety == OneRunner /\ NoLostParent

\* What a thread's stack is: a frame it started and has not come back to has no
\* parent registered yet, and the frame it runs has a child exactly when it is
\* about to wait for it.
StackOK(t) ==
    /\ th[t].op = NoOp <=> th[t].at = "idle"
    /\ th[t].op # NoOp =>
          /\ 1 <= th[t].base /\ th[t].base <= th[t].lvl
          /\ \A l \in Levels : th[t].base < l /\ l <= th[t].lvl => cont[th[t].op][l] = "null"
    /\ th[t].at = "run" /\ th[t].lvl < Depth => fr[th[t].op][th[t].lvl + 1] = "none"
    /\ th[t].at \in {"await", "suspend"} =>
          /\ th[t].lvl < Depth
          /\ fr[th[t].op][th[t].lvl + 1] # "none"
          /\ cont[th[t].op][th[t].lvl + 1] # "parent"

StacksOK == \A t \in Threads : StackOK(t)

\* What a chain of frames is: nothing lies beyond a frame that is gone or has
\* completed, a frame runs on some thread, continuation_ is set by a parent that
\* waits, and holds completed_tag() exactly when the frame is at its end.
FrameOK(o, l) ==
    /\ fr[o][l] \in {"none", "done"} /\ l < Depth => fr[o][l + 1] = "none"
    /\ fr[o][l] = "none" => cont[o][l] = "null"
    /\ fr[o][l] = "done" <=> cont[o][l] = "done"
    /\ fr[o][l] = "run" => \E t \in Threads : OnStack(t, o, l)
    /\ cont[o][l] = "parent" => l > 1 /\ fr[o][l - 1] = "susp"
    /\ owner[o] = NoThread /\ l = 1 => fr[o][l] = "none"

FramesOK == \A o \in Ops, l \in Levels : FrameOK(o, l)

\* The inductive invariant.
TaskInv == TaskTypeOK /\ OneRunner /\ NoLostParent /\ StacksOK /\ FramesOK
=============================================================================
