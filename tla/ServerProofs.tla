---------------------------- MODULE ServerProofs ----------------------------
(***************************************************************************)
(* The server's coroutines and descriptors, for any number of connections, *)
(* descriptor numbers and requests.  Every step of the server is a step of *)
(* module Task or leaves the frames alone, so what is proved of CoroTask   *)
(* holds here.  With it, a waiter, an I/O or a place among those waiting   *)
(* for space is there exactly when a frame waits; and conn_fds_ holds a    *)
(* number once for every connection that has not erased it, so stop()      *)
(* finds every open one.                                                   *)
(***************************************************************************)
EXTENDS Server, TaskProofs, FiniteSetTheorems

\* The steps that run a coroutine on a thread (serve_connection(), a recv or a
\* command of it) start, suspend, complete or await frames as CoroTask does.
LEMMA FrameStepIsTask ==
  ASSUME NEW t \in Threads, FrameStep(t)
  PROVE  [TaskNext]_taskVars
<1>1. CASE ServeRecv(t)
  BY <1>1 DEF ServeRecv, TaskNext
<1>2. CASE ServeCommand(t)
  BY <1>2 DEF ServeCommand, TaskNext
<1>3. CASE ServeReturn(t)
  BY <1>3 DEF ServeReturn, TaskNext
<1>4. CASE RecvTry(t)
  BY <1>4, Zenon DEF RecvTry, Completes, TaskNext
<1>5. CASE RecvReturn(t)
  BY <1>5 DEF RecvReturn, Completes, TaskNext
<1>6. CASE StoreIo(t)
  BY <1>6 DEF StoreIo, TaskNext
<1>7. CASE SendTry(t)
  BY <1>7, Zenon DEF SendTry
<1>8. CASE CommandReturn(t)
  BY <1>8 DEF CommandReturn, Completes, TaskNext
<1>9. CASE Publish(t)
  BY <1>9, Zenon DEF Publish, TaskNext
<1>10. CASE Awaits(t)
  BY <1>10 DEF Awaits, TaskNext
<1>11. CASE SpaceWait(t)
  BY <1>11 DEF SpaceWait, TaskNext
<1> QED BY <1>1, <1>2, <1>3, <1>4, <1>5, <1>6, <1>7, <1>8, <1>9, <1>10, <1>11 DEF FrameStep

\* A handler thread starts serve_connection(), runs and polls for it, and ends it
\* with run_sync(); what it does to the socket and conn_fds_ is no frame's.
LEMMA HandlerStepIsTask ==
  ASSUME NEW c \in Ops, HandlerStep(c)
  PROVE  [TaskNext]_taskVars
<1> DEFINE t == Handler(c)
<1>0. t \in Threads /\ 2 \in Levels
  BY ServerAssumption DEF Levels
<1>1. CASE FrameStep(t)
  BY <1>0, <1>1, FrameStepIsTask
<1>2. CASE Serve(c)
  BY <1>0, <1>2 DEF Serve, TaskNext
<1>3. CASE EsStop(c)
  BY <1>0, <1>3 DEF EsStop, TaskNext
<1>4. CASE HandlerPolls(c)
  BY <1>0, <1>4 DEF HandlerPolls, PollIo, TaskNext
<1>5. CASE EsInit(c) \/ CloseFd(c) \/ EraseFd(c)
  BY <1>5 DEF EsInit, CloseFd, EraseFd, frameVars
<1> QED BY <1>1, <1>2, <1>3, <1>4, <1>5 DEF HandlerStep

\* A poller thread resumes what waits for the socket or for I/O of its own, and
\* runs it.
LEMMA PollerStepIsTask ==
  ASSUME NEW c \in Ops, PollerStep(c)
  PROVE  [TaskNext]_taskVars
<1> DEFINE t == Poller(c)
<1>0. t \in Threads /\ 2 \in Levels
  BY ServerAssumption DEF Levels
<1>1. CASE FrameStep(t)
  BY <1>0, <1>1, FrameStepIsTask
<1>2. CASE PollerPolls(c)
  BY <1>0, <1>2 DEF PollerPolls, PollIo, TaskNext
<1>3. CASE Notify(c)
  BY <1>0, <1>3 DEF Notify, TaskNext
<1>4. CASE EpollWait(c) \/ PollerExits(c)
  BY <1>4 DEF EpollWait, PollerExits, frameVars
<1> QED BY <1>1, <1>2, <1>3, <1>4 DEF PollerStep

\* The space waker resumes what waits for space or for I/O of its own, and runs it.
LEMMA WakerStepIsTask ==
  ASSUME WakerStep
  PROVE  [TaskNext]_taskVars
<1>0. Waker \in Threads /\ 2 \in Levels
  BY ServerAssumption DEF Levels
<1>1. CASE FrameStep(Waker)
  BY <1>0, <1>1, FrameStepIsTask
<1>2. CASE WakerPolls
  BY <1>0, <1>2 DEF WakerPolls, PollIo, TaskNext
<1>3. ASSUME NEW c \in Ops, WakerResumes(c) PROVE TaskNext
  BY <1>0, <1>3 DEF WakerResumes, TaskNext
<1>4. CASE WakerTakes
  BY <1>4 DEF WakerTakes, frameVars
<1> QED BY <1>1, <1>2, <1>3, <1>4 DEF WakerStep

\* So every step of the server is CoroTask's for its frames, or none.
LEMMA FramesAreTasks == ServerSpec => TaskSpec
<1>1. ServerInit => TaskInit
  BY DEF ServerInit
<1>2. ServerNext => [TaskNext]_taskVars
  <2>1. ASSUME StartServer \/ Accept \/ Stop \/ StopStep PROVE UNCHANGED taskVars
    BY <2>1 DEF StartServer, Accept, Stop, StopStep, ShutDown, Stopped, frameVars
  <2>2. ASSUME NEW c \in Ops, Connect(c) \/ ClientStep(c) \/ Device(c) PROVE UNCHANGED taskVars
    BY <2>2 DEF Connect, ClientStep, Device, frameVars
  <2> QED BY <2>1, <2>2, HandlerStepIsTask, PollerStepIsTask, WakerStepIsTask
         DEF ServerNext
<1>3. UNCHANGED vars => UNCHANGED taskVars
  BY DEF vars, frameVars
<1>4. [ServerNext]_vars => [TaskNext]_taskVars
  BY <1>2, <1>3
<1> QED BY <1>1, <1>4, PTL DEF ServerSpec, TaskSpec

\* No coroutine of the server is entered by two of its handler, its poller and the
\* space waker at once, used after its end, or left waiting for a child that has completed.
THEOREM ServerFramesSafe == ServerSpec => []FrameSafety
BY FramesAreTasks, FramesSafe, PTL
-----------------------------------------------------------------------------
Parked(c) == fr[c][2] = "susp"
WaitType == /\ waiter \in [Ops -> {"none", "in", "out"}]
            /\ io \in [Ops -> [at : {"none", "queued", "submitted", "done"},
                               on : Threads \cup {NoThread}]]
            /\ space \in [Ops -> {"none", "waiting", "taken"}]
WakerInv == WaitType /\ OneWaker

\* With two levels, the frame that suspends for I/O, a socket or space is frame 2.
LEMMA TwoLevels == Depth = 2 /\ Levels = {1, 2} /\ \A c \in Ops : Leaf(c, 2) <=> Parked(c)
BY ServerAssumption DEF Levels, Leaf, Parked

\* A thread that runs a frame runs it alone, and what it calls is not there yet.
LEMMA Running ==
  ASSUME TaskInv, NEW t \in Threads, th[t].at # "idle"
  PROVE  /\ th[t].op \in Ops /\ th[t].lvl \in {1, 2}
         /\ fr[th[t].op][th[t].lvl] = "run"
         /\ th[t].at = "run" /\ th[t].lvl = 1 => fr[th[t].op][2] = "none"
<1>1. th[t].op \in Ops /\ th[t].lvl \in {1, 2} /\ fr[th[t].op][th[t].lvl] = "run"
  BY Busy, TwoLevels, SMTT(30)
<1>2. StackOK(t)
  BY DEF TaskInv, StacksOK
<1> QED BY <1>1, <1>2, TwoLevels, SMTT(30) DEF StackOK

\* What CoroTask does to frames other than suspending or resuming frame 2 leaves
\* it parked or not.
LEMMA CallKeeps ==
  ASSUME TaskInv, NEW t \in Threads, Call(t)
  PROVE  \A c \in Ops : Parked(c)' <=> Parked(c)
<1>1. th[t].op \in Ops /\ th[t].lvl = 1 /\ fr[th[t].op][2] = "none"
  BY Running, TwoLevels DEF Call
<1>2. fr' = [fr EXCEPT ![th[t].op][2] = "run"]
  BY <1>1 DEF Call
<1> QED BY <1>1, <1>2, TwoLevels DEF Parked, TaskInv, TaskTypeOK

\* So it is when a frame completes, of either level.
LEMMA ReturnKeeps ==
  ASSUME TaskInv, NEW t \in Threads, Return(t)
  PROVE  \A c \in Ops : Parked(c)' <=> Parked(c)
<1> DEFINE o == th[t].op
           l == th[t].lvl
<1>1. o \in Ops /\ l \in {1, 2} /\ fr[o][l] = "run"
  BY Running, Zenon DEF Return
<1>2. CASE fr' = [fr EXCEPT ![o][l] = "done"]
  BY <1>1, <1>2, TwoLevels DEF Parked, TaskInv, TaskTypeOK
<1>3. CASE fr' = [fr EXCEPT ![o][l] = "none", ![o][l - 1] = "run"] /\ cont[o][l] = "parent"
  <2>1. l = 2
    <3>1. FrameOK(o, l)
      BY <1>1, TwoLevels DEF TaskInv, FramesOK
    <3> QED BY <1>1, <1>3, <3>1, SMTT(30) DEF FrameOK
  <2>2. fr' = [fr EXCEPT ![o][2] = "none", ![o][1] = "run"]
    BY <1>3, <2>1
  <2> QED BY <1>1, <2>1, <2>2, TwoLevels DEF Parked, TaskInv, TaskTypeOK
<1> QED BY <1>2, <1>3, SMTT(30) DEF Return

\* And when serve_connection() awaits frame 2: one that is destroyed had ended.
LEMMA AwaitKeeps ==
  ASSUME TaskInv, NEW t \in Threads, AwaitReady(t) \/ AwaitSuspend(t)
  PROVE  \A c \in Ops : Parked(c)' <=> Parked(c)
<1> DEFINE o == th[t].op
           l == th[t].lvl
<1>1. o \in Ops /\ l = 1 /\ l + 1 = 2
  <2>1. StackOK(t)
    BY DEF TaskInv, StacksOK
  <2>2. th[t].at \in {"await", "suspend"}
    BY SMTT(30) DEF AwaitReady, AwaitSuspend
  <2>3. th[t].lvl < Depth
    BY <2>1, <2>2, SMTT(30) DEF StackOK
  <2>4. th[t].op \in Ops /\ th[t].lvl \in {1, 2}
    BY <2>2, Running
  <2> QED BY <2>3, <2>4, TwoLevels
<1>2. CASE Resumed(t, th[t])
  <2>1. cont[o][2] = "done" /\ fr' = [fr EXCEPT ![o][2] = "none"]
    BY <1>1, <1>2 DEF Resumed
  <2>2. FrameOK(o, 2)
    BY <1>1, TwoLevels DEF TaskInv, FramesOK
  <2>3. fr[o][2] = "done"
    BY <2>1, <2>2 DEF FrameOK
  <2> QED BY <1>1, <2>1, <2>3, TwoLevels DEF Parked, TaskInv, TaskTypeOK
<1>3. CASE fr' = fr
  BY <1>3 DEF Parked
<1>4. CASE fr' = [fr EXCEPT ![o][l] = "susp"]
  BY <1>1, <1>4, TwoLevels DEF Parked, TaskInv, TaskTypeOK
<1> QED BY <1>2, <1>3, <1>4, SMTT(30) DEF AwaitReady, AwaitSuspend

\* Frame 2 suspends: it was not parked, and had no waker.
LEMMA SuspendParks ==
  ASSUME TaskInv, OneWaker, NEW t \in Threads, RunsFrame(t, 2), Suspend(t)
  PROVE  /\ th[t].op \in Ops
         /\ waiter[th[t].op] = "none" /\ io[th[t].op].at = "none" /\ space[th[t].op] = "none"
         /\ \A c \in Ops : Parked(c)' <=> Parked(c) \/ c = th[t].op
<1>1. th[t].op \in Ops /\ th[t].lvl = 2 /\ ~Parked(th[t].op)
  BY Running DEF RunsFrame, Parked
<1>2. fr' = [fr EXCEPT ![th[t].op][2] = "susp"]
  BY <1>1 DEF Suspend
<1> QED BY <1>1, <1>2, TwoLevels DEF OneWaker, Parked, TaskInv, TaskTypeOK

\* Frame 2 is resumed: it was parked and is not any more.
LEMMA ResumeUnparks ==
  ASSUME TaskInv, NEW t \in Threads, NEW o \in Ops, Resume(t, o, 2)
  PROVE  Parked(o) /\ \A c \in Ops : Parked(c)' <=> Parked(c) /\ c # o
BY TwoLevels DEF Resume, Leaf, Parked, TaskInv, TaskTypeOK

\* Steps that change neither what is parked nor the wakers.
LEMMA WakersKept ==
  ASSUME WakerInv, UNCHANGED waitVars, \A c \in Ops : Parked(c)' <=> Parked(c)
  PROVE  WakerInv'
BY TwoLevels, ServerAssumption DEF WakerInv, WaitType, OneWaker, waitVars, Leaf, Parked

\* Running a coroutine: a waiter is published, or an I/O submitted, or it
\* queues for space, exactly when its frame suspends.
LEMMA FrameWakers ==
  ASSUME TaskInv, WakerInv, NEW t \in Threads, FrameStep(t)
  PROVE  WakerInv'
<1>1. CASE ServeRecv(t) \/ ServeCommand(t)
  BY <1>1, CallKeeps, WakersKept DEF ServeRecv, ServeCommand
<1>2. CASE ServeReturn(t) \/ RecvReturn(t) \/ CommandReturn(t)
  BY <1>2, ReturnKeeps, WakersKept, SMTT(30) DEF ServeReturn, RecvReturn, CommandReturn, Completes
<1>3. CASE Awaits(t)
  BY <1>3, AwaitKeeps, WakersKept DEF Awaits
<1>4. CASE RecvTry(t) \/ SendTry(t)
  <2>1. UNCHANGED waitVars /\ (Return(t) \/ UNCHANGED taskVars)
    BY <1>4, Zenon DEF RecvTry, SendTry, Completes
  <2>2. \A c \in Ops : Parked(c)' <=> Parked(c)
    BY <2>1, ReturnKeeps DEF taskVars, Parked
  <2> QED BY <2>1, <2>2, WakersKept
<1>5. CASE StoreIo(t)
  <2>1. CASE UNCHANGED <<taskVars, io>>
    BY <1>5, <2>1, WakersKept DEF StoreIo, taskVars, waitVars, Parked
  <2>2. CASE Suspend(t) /\ \E at \in {"queued", "submitted"} :
                io' = [io EXCEPT ![th[t].op] = [at |-> at, on |-> t]]
    <3>1. RunsFrame(t, 2) /\ UNCHANGED <<waiter, space>>
      BY <1>5, SMTT(30) DEF StoreIo
    <3>2. /\ th[t].op \in Ops
          /\ waiter[th[t].op] = "none" /\ io[th[t].op].at = "none"
          /\ space[th[t].op] = "none"
          /\ \A c \in Ops : Parked(c)' <=> Parked(c) \/ c = th[t].op
      BY <2>2, <3>1, SuspendParks, SMTT(30) DEF WakerInv
    <3>3. WaitType'
      BY <2>2, <3>1, <3>2 DEF WakerInv, WaitType
    <3>4. OneWaker'
      BY <2>2, <3>1, <3>2, ServerAssumption, SMTT(30) DEF WakerInv, WaitType, OneWaker, Leaf, Parked
    <3> QED BY <3>3, <3>4 DEF WakerInv
  <2> QED BY <1>5, <2>1, <2>2, SMTT(30) DEF StoreIo
<1>6. CASE Publish(t)
  <2> DEFINE o == th[t].op
  <2>1. /\ RunsFrame(t, 2) /\ Suspend(t) /\ UNCHANGED <<io, space>>
        /\ \E e \in {"in", "out"} : waiter' = [waiter EXCEPT ![o] = e]
    BY <1>6, Zenon DEF Publish
  <2>2. /\ o \in Ops /\ waiter[o] = "none" /\ io[o].at = "none" /\ space[o] = "none"
        /\ \A c \in Ops : Parked(c)' <=> Parked(c) \/ c = o
    BY <2>1, SuspendParks, SMTT(30) DEF WakerInv
  <2>3. WaitType'
    BY <2>1, <2>2 DEF WakerInv, WaitType
  <2>4. OneWaker'
    BY <2>1, <2>2, ServerAssumption, SMTT(30) DEF WakerInv, WaitType, OneWaker, Leaf, Parked
  <2> QED BY <2>3, <2>4 DEF WakerInv
<1>7. CASE SpaceWait(t)
  <2> DEFINE o == th[t].op
  <2>1. /\ RunsFrame(t, 2) /\ Suspend(t) /\ UNCHANGED <<waiter, io>>
        /\ space' = [space EXCEPT ![o] = "waiting"]
    BY <1>7, Zenon DEF SpaceWait
  <2>2. /\ o \in Ops /\ waiter[o] = "none" /\ io[o].at = "none" /\ space[o] = "none"
        /\ \A c \in Ops : Parked(c)' <=> Parked(c) \/ c = o
    BY <2>1, SuspendParks, SMTT(30) DEF WakerInv
  <2>3. WaitType'
    BY <2>1, <2>2 DEF WakerInv, WaitType
  <2>4. OneWaker'
    BY <2>1, <2>2, ServerAssumption, SMTT(30) DEF WakerInv, WaitType, OneWaker, Leaf, Parked
  <2> QED BY <2>3, <2>4 DEF WakerInv
<1> QED BY <1>1, <1>2, <1>3, <1>4, <1>5, <1>6, <1>7 DEF FrameStep

\* Polling takes an I/O that is done away with the coroutine it resumes.
LEMMA PollWakers ==
  ASSUME TaskInv, WakerInv, NEW t \in Threads, PollIo(t)
  PROVE  WakerInv'
<1>1. CASE UNCHANGED <<taskVars, io>>
  BY <1>1, WakersKept DEF PollIo, taskVars, waitVars, Parked
<1>2. ASSUME NEW c \in Ops, io[c].at = "queued", io' = [io EXCEPT ![c].at = "submitted"],
             UNCHANGED taskVars
      PROVE  WakerInv'
  <2>1. UNCHANGED <<waiter, space, fr>>
    BY <1>2 DEF PollIo, taskVars
  <2>2. WaitType'
    BY <1>2, <2>1 DEF WakerInv, WaitType
  <2>3. OneWaker'
    BY <1>2, <2>1 DEF WakerInv, WaitType, OneWaker, Leaf
  <2> QED BY <2>2, <2>3 DEF WakerInv
<1>3. ASSUME NEW c \in Ops, io[c].at = "done", io' = [io EXCEPT ![c] = NoIo], Resume(t, c, 2)
      PROVE  WakerInv'
  <2>1. UNCHANGED <<waiter, space>>
    BY DEF PollIo
  <2>2. Parked(c) /\ \A d \in Ops : Parked(d)' <=> Parked(d) /\ d # c
    BY <1>3, ResumeUnparks
  <2>3. WaitType'
    BY <1>3, <2>1 DEF WakerInv, WaitType, NoIo
  <2>4. OneWaker'
    BY <1>3, <2>1, <2>2, ServerAssumption, SMTT(30) DEF WakerInv, WaitType, OneWaker, Leaf,
         Parked, NoIo
  <2> QED BY <2>3, <2>4 DEF WakerInv
<1> QED BY <1>1, <1>2, <1>3 DEF PollIo

\* notify_maybe() takes the waiter out of its slot with the coroutine it resumes.
LEMMA NotifyWakers ==
  ASSUME TaskInv, WakerInv, NEW c \in Ops, Notify(c)
  PROVE  WakerInv'
<1>1. CASE UNCHANGED <<taskVars, waiter>>
  BY <1>1, WakersKept, SMTT(30) DEF Notify, taskVars, waitVars, Parked
<1>2. CASE waiter[c] # "none" /\ Unpublish(c) /\ Resume(Poller(c), c, 2)
  <2>1. UNCHANGED <<io, space>> /\ Poller(c) \in Threads
    BY ServerAssumption DEF Notify
  <2>2. Parked(c) /\ \A d \in Ops : Parked(d)' <=> Parked(d) /\ d # c
    BY <1>2, <2>1, ResumeUnparks
  <2>3. WaitType'
    BY <1>2, <2>1 DEF WakerInv, WaitType, Unpublish
  <2>4. OneWaker'
    BY <1>2, <2>1, <2>2, ServerAssumption DEF WakerInv, WaitType, OneWaker, Leaf,
         Parked, Unpublish
  <2> QED BY <2>3, <2>4 DEF WakerInv
<1> QED BY <1>1, <1>2, SMTT(30) DEF Notify

\* serve_connection() starts or is destroyed: frame 2 is not there.
LEMMA ServeWakers ==
  ASSUME TaskInv, WakerInv, NEW c \in Ops, Serve(c) \/ EsStop(c)
  PROVE  WakerInv'
<1>1. UNCHANGED waitVars /\ \E x \in FrameType : fr' = [fr EXCEPT ![c][1] = x]
  BY DEF Serve, EsStop, Start, RunSync, FrameType
<1>2. \A d \in Ops : Parked(d)' <=> Parked(d)
  BY <1>1, TwoLevels DEF Parked, TaskInv, TaskTypeOK
<1> QED BY <1>1, <1>2, WakersKept

\* The device completes what was submitted.
LEMMA DeviceWakers ==
  ASSUME WakerInv, NEW c \in Ops, Device(c)
  PROVE  WakerInv'
<1>1. UNCHANGED <<waiter, space, fr>> /\ io[c].at = "submitted" /\ io' = [io EXCEPT ![c].at = "done"]
  BY DEF Device, frameVars, taskVars
<1>2. WaitType'
  BY <1>1 DEF WakerInv, WaitType
<1>3. OneWaker'
  BY <1>1 DEF WakerInv, WaitType, OneWaker, Leaf
<1> QED BY <1>2, <1>3 DEF WakerInv

\* The space waker moves those that wait into its own list, and takes one out of
\* it with the coroutine it resumes.
LEMMA SpaceWakers ==
  ASSUME TaskInv, WakerInv, WakerStep
  PROVE  WakerInv'
<1>0. Waker \in Threads
  BY ServerAssumption
<1>1. CASE FrameStep(Waker)
  BY <1>0, <1>1, FrameWakers
<1>2. CASE WakerPolls
  BY <1>0, <1>2, PollWakers DEF WakerPolls
<1>3. CASE WakerTakes
  <2>1. /\ UNCHANGED <<waiter, io, fr>>
        /\ space' = [c \in Ops |-> IF space[c] = "waiting" THEN "taken" ELSE space[c]]
    BY <1>3 DEF WakerTakes, frameVars, taskVars
  <2>2. WaitType'
    BY <2>1 DEF WakerInv, WaitType
  <2>3. OneWaker'
    BY <2>1 DEF WakerInv, WaitType, OneWaker, Leaf
  <2> QED BY <2>2, <2>3 DEF WakerInv
<1>4. ASSUME NEW c \in Ops, WakerResumes(c) PROVE WakerInv'
  <2>1. /\ UNCHANGED <<waiter, io>> /\ Resume(Waker, c, 2)
        /\ space[c] = "taken" /\ space' = [space EXCEPT ![c] = "none"]
    BY <1>4 DEF WakerResumes
  <2>2. Parked(c) /\ \A d \in Ops : Parked(d)' <=> Parked(d) /\ d # c
    BY <1>0, <2>1, ResumeUnparks
  <2>3. WaitType'
    BY <2>1 DEF WakerInv, WaitType
  <2>4. OneWaker'
    BY <2>1, <2>2, ServerAssumption, SMTT(30) DEF WakerInv, WaitType, OneWaker, Leaf, Parked
  <2> QED BY <2>3, <2>4 DEF WakerInv
<1> QED BY <1>1, <1>2, <1>3, <1>4 DEF WakerStep

\* Whatever the interleaving of handlers, pollers, the space waker, clients and the
\* device, a coroutine that waits has exactly one waker, and no other coroutine has any.
THEOREM ServerOneWaker == ServerSpec => []OneWaker
<1>1. ServerInit => WakerInv
  BY TwoLevels DEF ServerInit, TaskInit, WakerInv, WaitType, OneWaker, Leaf, NoIo
<1>2. TaskInv /\ WakerInv /\ [ServerNext]_vars => WakerInv'
  <2> SUFFICES ASSUME TaskInv, WakerInv, [ServerNext]_vars PROVE WakerInv'
    OBVIOUS
  <2>1. CASE UNCHANGED <<taskVars, waitVars>>
    BY <2>1, WakersKept DEF taskVars, Parked
  <2>2. CASE UNCHANGED vars
    BY <2>1, <2>2 DEF vars, frameVars
  <2>3. CASE StartServer \/ Accept \/ Stop \/ StopStep
    BY <2>1, <2>3 DEF StartServer, Accept, Stop, StopStep, ShutDown, Stopped, frameVars
  <2>4. ASSUME NEW c \in Ops, Connect(c) \/ ClientStep(c) PROVE WakerInv'
    BY <2>1, <2>4 DEF Connect, ClientStep, frameVars
  <2>5. ASSUME NEW c \in Ops, HandlerStep(c) PROVE WakerInv'
    <3>1. Handler(c) \in Threads
      BY ServerAssumption
    <3>2. CASE EsInit(c) \/ CloseFd(c) \/ EraseFd(c)
      BY <2>1, <3>2 DEF EsInit, CloseFd, EraseFd, frameVars
    <3>3. CASE HandlerPolls(c)
      BY <3>1, <3>3, PollWakers DEF HandlerPolls
    <3> QED BY <2>5, <3>1, <3>2, <3>3, FrameWakers, ServeWakers DEF HandlerStep
  <2>6. ASSUME NEW c \in Ops, PollerStep(c) PROVE WakerInv'
    <3>1. Poller(c) \in Threads
      BY ServerAssumption
    <3>2. CASE EpollWait(c) \/ PollerExits(c)
      BY <2>1, <3>2 DEF EpollWait, PollerExits, frameVars
    <3>3. CASE PollerPolls(c)
      BY <3>1, <3>3, PollWakers DEF PollerPolls
    <3> QED BY <2>6, <3>1, <3>2, <3>3, FrameWakers, NotifyWakers DEF PollerStep
  <2> QED BY <2>2, <2>3, <2>4, <2>5, <2>6, DeviceWakers, SpaceWakers DEF ServerNext
<1>3. WakerInv => OneWaker
  BY DEF WakerInv
<1>4. ServerSpec => []TaskInv
  BY FramesAreTasks, TaskInvariant, PTL
<1> QED BY <1>1, <1>2, <1>3, <1>4, PTL DEF ServerSpec
-----------------------------------------------------------------------------
\* Has a number it has not erased from conn_fds_.
Holds(c) == IsOpen(c) \/ conn[c] = "closed"

\* The connections that hold a number are finitely many.
LEMMA HoldersFinite ==
  \A f \in Fds : /\ IsFiniteSet(Holders(f))
                 /\ Cardinality(Holders(f)) \in Nat
<1>1. \A f \in Fds : Holders(f) \subseteq Ops
  BY DEF Holders
<1>2. \A f \in Fds : IsFiniteSet(Holders(f))
  BY <1>1, ServerAssumption, FS_Subset
<1> QED BY <1>2, FS_CardinalityType

\* Steps that leave conn_fds_ alone and let no connection take a number.
LEMMA HoldersShrink ==
  ASSUME TrackedInv, UNCHANGED fdVars, conn' \in [Ops -> Stages],
         \A c \in Ops : Holds(c)' => Holds(c)
  PROVE  TrackedInv'
<1>1. fd' = fd /\ conn_fds' = conn_fds
  BY DEF fdVars
<1>2. \A f \in Fds : Holders(f)' \subseteq Holders(f)
  BY <1>1 DEF Holders, Holds
<1>3. \A f \in Fds : /\ Cardinality(Holders(f)') \in Nat
                     /\ Cardinality(Holders(f)') <= Cardinality(Holders(f))
  BY <1>2, HoldersFinite, FS_Subset, FS_CardinalityType
<1>4. \A f \in Fds : conn_fds'[f] >= Cardinality(Holders(f)')
  <2> SUFFICES ASSUME NEW f \in Fds PROVE conn_fds'[f] >= Cardinality(Holders(f)')
    OBVIOUS
  <2>1. conn_fds[f] \in Nat /\ conn_fds[f] >= Cardinality(Holders(f))
    BY DEF TrackedInv
  <2> QED BY <1>1, <1>3, <2>1, HoldersFinite
<1>5. \A c \in Ops : (IsOpen(c) \/ conn[c] = "closed")' => fd'[c] \in Fds
  BY <1>1 DEF TrackedInv, Holds
<1> QED BY <1>1, <1>4, <1>5 DEF TrackedInv

\* accept_loop() adds a number to conn_fds_ for the connection that gets it.
LEMMA AcceptTracks ==
  ASSUME TrackedInv, NEW c \in Ops, NEW g \in Fds, conn[c] = "backlog",
         conn' = [conn EXCEPT ![c] = "accepted"], fd' = [fd EXCEPT ![c] = g],
         conn_fds' = [conn_fds EXCEPT ![g] = @ + 1]
  PROVE  TrackedInv'
<1>1. /\ conn' \in [Ops -> Stages] /\ fd' \in [Ops -> Fds \cup {NoFd}]
      /\ conn_fds' \in [Fds -> Nat]
  BY DEF TrackedInv, Stages
<1>2. \A d \in Ops : Holds(d)' <=> Holds(d) \/ d = c
  BY DEF TrackedInv, Holds, IsOpen
<1>3. ~Holds(c)
  BY DEF Holds, IsOpen
<1>4. \A d \in Ops : (IsOpen(d) \/ conn[d] = "closed")' => fd'[d] \in Fds
  BY <1>2 DEF TrackedInv, Holds
<1>5. \A f \in Fds :
         /\ c \notin Holders(f)
         /\ Holders(f)' = IF f = g THEN Holders(f) \cup {c} ELSE Holders(f)
  BY <1>2, <1>3 DEF TrackedInv, Holders, Holds
<1>6. ASSUME NEW f \in Fds PROVE conn_fds'[f] >= Cardinality(Holders(f)')
  <2>1. /\ IsFiniteSet(Holders(f)) /\ Cardinality(Holders(f)) \in Nat
        /\ conn_fds[f] \in Nat /\ conn_fds[f] >= Cardinality(Holders(f))
    BY HoldersFinite DEF TrackedInv
  <2>2. CASE f = g
    <3>1. Cardinality(Holders(f) \cup {c}) = Cardinality(Holders(f)) + 1
      BY <1>5, <2>1, FS_AddElement, Zenon
    <3>2. conn_fds'[f] = conn_fds[f] + 1
      BY <2>2 DEF TrackedInv
    <3>3. Holders(f)' = Holders(f) \cup {c}
      BY <1>5, <2>2
    <3> QED BY <2>1, <3>1, <3>2, <3>3
  <2>3. CASE f # g
    <3>1. conn_fds'[f] = conn_fds[f] /\ Holders(f)' = Holders(f)
      BY <1>5, <2>3 DEF TrackedInv
    <3> QED BY <2>1, <3>1
  <2> QED BY <2>2, <2>3
<1> QED BY <1>1, <1>4, <1>6 DEF TrackedInv

\* handle_connection() erases one occurrence of the number it had.
LEMMA EraseTracks ==
  ASSUME TrackedInv, NEW c \in Ops, EraseFd(c)
  PROVE  TrackedInv'
<1> DEFINE g == fd[c]
<1>0. /\ g \in Fds /\ Holds(c) /\ fd' = fd /\ conn' = [conn EXCEPT ![c] = "gone"]
      /\ conn_fds' = [conn_fds EXCEPT ![g] = IF @ > 0 THEN @ - 1 ELSE 0]
  BY DEF EraseFd, TrackedInv, Holds
<1>1. /\ conn' \in [Ops -> Stages] /\ fd' \in [Ops -> Fds \cup {NoFd}]
      /\ conn_fds' \in [Fds -> Nat]
  BY <1>0 DEF TrackedInv, Stages
<1>2. \A d \in Ops : Holds(d)' <=> Holds(d) /\ d # c
  BY <1>0 DEF TrackedInv, Holds, IsOpen
<1>4. \A d \in Ops : (IsOpen(d) \/ conn[d] = "closed")' => fd'[d] \in Fds
  BY <1>0, <1>2 DEF TrackedInv, Holds
<1>5. \A f \in Fds : Holders(f)' = IF f = g THEN Holders(f) \ {c} ELSE Holders(f)
  BY <1>0, <1>2 DEF TrackedInv, Holders, Holds
<1>6. ASSUME NEW f \in Fds PROVE conn_fds'[f] >= Cardinality(Holders(f)')
  <2>1. /\ IsFiniteSet(Holders(f)) /\ Cardinality(Holders(f)) \in Nat
        /\ conn_fds[f] \in Nat /\ conn_fds[f] >= Cardinality(Holders(f))
    BY HoldersFinite DEF TrackedInv
  <2>2. CASE f = g
    <3>1. c \in Holders(f)
      BY <1>0, <2>2 DEF Holders, Holds
    <3>2. /\ Cardinality(Holders(f) \ {c}) = Cardinality(Holders(f)) - 1
          /\ Cardinality(Holders(f) \ {c}) \in Nat
      BY <2>1, <3>1, FS_RemoveElement, FS_CardinalityType
    <3>3. conn_fds'[f] = IF conn_fds[f] > 0 THEN conn_fds[f] - 1 ELSE 0
      BY <1>0, <2>2 DEF TrackedInv
    <3>4. Holders(f)' = Holders(f) \ {c}
      BY <1>5, <2>2
    <3> QED BY <2>1, <3>2, <3>3, <3>4
  <2>3. CASE f # g
    <3>1. conn_fds'[f] = conn_fds[f] /\ Holders(f)' = Holders(f)
      BY <1>0, <1>5, <2>3 DEF TrackedInv
    <3> QED BY <2>1, <3>1
  <2> QED BY <2>2, <2>3
<1> QED BY <1>1, <1>4, <1>6 DEF TrackedInv

\* Whoever is given a number while its last owner has yet to erase it: stop()
\* finds the descriptor of every open connection in conn_fds_.
THEOREM ServerOpenIsTracked == ServerSpec => []OpenIsTracked
<1>1. ServerInit => TrackedInv
  <2> SUFFICES ASSUME ServerInit PROVE TrackedInv
    OBVIOUS
  <2>1. /\ conn \in [Ops -> Stages] /\ fd \in [Ops -> Fds \cup {NoFd}]
        /\ conn_fds \in [Fds -> Nat]
        /\ \A c \in Ops : ~Holds(c)
        /\ \A f \in Fds : conn_fds[f] = 0
    BY DEF ServerInit, Holds, IsOpen, Stages
  <2>2. \A f \in Fds : Holders(f) = {}
    BY <2>1 DEF Holders, Holds
  <2>3. \A f \in Fds : Cardinality(Holders(f)) = 0
    BY <2>2, FS_EmptySet
  <2> QED BY <2>1, <2>3 DEF TrackedInv, Holds
<1>2. TrackedInv /\ [ServerNext]_vars => TrackedInv'
  <2> SUFFICES ASSUME TrackedInv, [ServerNext]_vars PROVE TrackedInv'
    OBVIOUS
  <2>0. conn \in [Ops -> Stages]
    BY DEF TrackedInv
  <2>1. CASE UNCHANGED <<fdVars, conn>>
    BY <2>0, <2>1, HoldersShrink DEF Holds, IsOpen
  <2>2. CASE UNCHANGED vars
    BY <2>1, <2>2 DEF vars
  <2>3. CASE StartServer \/ Stop \/ StopStep
    BY <2>1, <2>3 DEF StartServer, Stop, StopStep, ShutDown, Stopped
  <2>4. CASE Accept
    BY <2>1, <2>4, AcceptTracks DEF Accept
  <2>5. ASSUME NEW c \in Ops, ClientStep(c) \/ Device(c) PROVE TrackedInv'
    BY <2>1, <2>5 DEF ClientStep, Device
  <2>6. ASSUME NEW t \in Threads, FrameStep(t) PROVE TrackedInv'
    BY <2>1, <2>6, Zenon DEF FrameStep, ServeRecv, ServeCommand, ServeReturn, RecvTry, RecvReturn,
         StoreIo, SpaceWait, SendTry, CommandReturn, Publish, Awaits
  <2>7. ASSUME NEW c \in Ops, Connect(c) \/ EsInit(c) \/ Serve(c) \/ EsStop(c) \/ CloseFd(c)
        PROVE  TrackedInv'
    <3>1. /\ UNCHANGED fdVars
          /\ \/ conn[c] = "none" /\ conn' = [conn EXCEPT ![c] = "backlog"]
             \/ IsOpen(c) /\ \E x \in {"ready", "gone", "serving", "stopping", "closed"} :
                                conn' = [conn EXCEPT ![c] = x]
      BY <2>7 DEF Connect, EsInit, Serve, EsStop, CloseFd, IsOpen
    <3>2. \A d \in Ops : Holds(d)' => Holds(d)
      BY <2>0, <3>1 DEF Holds, IsOpen
    <3>3. conn' \in [Ops -> Stages]
      BY <2>0, <3>1 DEF Stages
    <3> QED BY <3>1, <3>2, <3>3, HoldersShrink
  <2>8. ASSUME NEW c \in Ops, HandlerStep(c) PROVE TrackedInv'
    <3>1. CASE HandlerPolls(c)
      BY <2>1, <3>1 DEF HandlerPolls, PollIo
    <3> QED BY <2>6, <2>7, <2>8, <3>1, EraseTracks, ServerAssumption DEF HandlerStep
  <2>9. ASSUME NEW c \in Ops, PollerStep(c) PROVE TrackedInv'
    <3>1. CASE PollerPolls(c) \/ EpollWait(c) \/ Notify(c) \/ PollerExits(c)
      BY <2>1, <3>1 DEF PollerPolls, PollIo, EpollWait, Notify, PollerExits
    <3> QED BY <2>6, <2>9, <3>1, ServerAssumption DEF PollerStep
  <2>10. CASE WakerStep
    <3>1. CASE WakerPolls \/ WakerTakes
      BY <2>1, <3>1 DEF WakerPolls, PollIo, WakerTakes
    <3>2. ASSUME NEW c \in Ops, WakerResumes(c) PROVE TrackedInv'
      BY <2>1, <3>2 DEF WakerResumes
    <3> QED BY <2>6, <2>10, <3>1, <3>2, ServerAssumption DEF WakerStep
  <2> QED BY <2>2, <2>3, <2>4, <2>5, <2>7, <2>8, <2>9, <2>10 DEF ServerNext
<1>3. TrackedInv => OpenIsTracked
  <2> SUFFICES ASSUME TrackedInv, NEW c \in Ops, IsOpen(c) PROVE conn_fds[fd[c]] > 0
    BY DEF OpenIsTracked
  <2>1. fd[c] \in Fds /\ c \in Holders(fd[c])
    BY Zenon DEF TrackedInv, Holders
  <2>2. Cardinality(Holders(fd[c])) # 0 /\ Cardinality(Holders(fd[c])) \in Nat
    BY <2>1, HoldersFinite, FS_EmptySet
  <2> QED BY <2>1, <2>2 DEF TrackedInv
<1> QED BY <1>1, <1>2, <1>3, PTL DEF ServerSpec
=============================================================================
