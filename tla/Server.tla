------------------------------- MODULE Server -------------------------------
(***************************************************************************)
(* The memcache server's connections (src/src/net/memcache.cc), their      *)
(* epoll state (src/src/udepot/io/net.cc) and the asynchronous I/O of the  *)
(* commands they run (io/aio.cc, io/uring.cc), composed with CoroTask.     *)
(*                                                                         *)
(* A connection has a handler thread, which starts serve_connection() and  *)
(* drives it with run_sync(), and a poller thread, which resumes whatever  *)
(* waits for the socket.  A command that waits for space in the store, or  *)
(* for its index to grow, is resumed by the store's space waker.  The      *)
(* coroutine moves between the three: it goes on on the thread that        *)
(* resumed it, and the I/O it then submits is reaped by that thread only.  *)
(* Frame 1 is serve_connection(), frame 2 the recv or the command it       *)
(* awaits; the frames below a command are folded into it.                  *)
(* What the commands do to the store is module Memcache's.                 *)
(***************************************************************************)
EXTENDS Task, FiniteSets

CONSTANTS Fds, NoFd,    \* descriptor numbers, the lowest free one is reused
          Parts,        \* messages a request arrives in: its line, its data block
          MaxSent,      \* bound: messages a client sends
          Plans         \* what commands do: <<waits for space, store I/Os, sends>>

Handler(c) == <<c, "handler">>
Poller(c) == <<c, "poller">>
Waker == <<NoOp, "waker">>

ASSUME ServerAssumption ==
    /\ Threads = {Handler(c) : c \in Ops} \cup {Poller(c) : c \in Ops} \cup {Waker}
    /\ IsFiniteSet(Ops) /\ Depth = 2 /\ Parts \in Nat \ {0} /\ NoFd \notin Fds

VARIABLES conn,         \* per connection: where handle_connection() is
          fd,           \* per connection: its descriptor
          sock,         \* per connection: the socket
          buf,          \* per connection: messages received and not parsed
          sv,           \* per connection: where serve_connection() is
          kid,          \* per connection: what frame 2 is doing
          todo,         \* per connection: what the command has left of its plan
          waiter,       \* per connection: the slots waiter_in_ and waiter_out_
          io,           \* per connection: the store I/O it waits for
          space,        \* per connection: in space_waiters_, or taken out by the waker
          es,           \* per connection: EpollState::state_
          po,           \* per connection: where poller_loop() is, and its events
          conn_fds,     \* how often each number is in conn_fds_
          running,      \* running_, and whether listen_fd_ still accepts
          acceptor, stopper     \* where accept_loop() and stop() are

frameVars == <<taskVars, buf, sv, kid, todo>>
waitVars == <<waiter, io, space>>
epollVars == <<es, po>>
fdVars == <<fd, conn_fds>>
serverVars == <<running, acceptor, stopper>>
vars == <<frameVars, waitVars, epollVars, fdVars, serverVars, conn, sock>>

NewSock == [in |-> 0, sent |-> 0, full |-> FALSE, ended |-> FALSE]
NoIo == [at |-> "none", on |-> NoThread]

ServerInit ==
    /\ TaskInit
    /\ conn = [c \in Ops |-> "none"]
    /\ fd = [c \in Ops |-> NoFd]
    /\ sock = [c \in Ops |-> NewSock]
    /\ buf = [c \in Ops |-> 0]
    /\ sv = [c \in Ops |-> "top"]
    /\ kid = [c \in Ops |-> "none"]
    /\ todo = [c \in Ops |-> <<0, 0, 0>>]
    /\ waiter = [c \in Ops |-> "none"]
    /\ io = [c \in Ops |-> NoIo]
    /\ space = [c \in Ops |-> "none"]
    /\ es = [c \in Ops |-> "uninitialized"]
    /\ po = [c \in Ops |-> [at |-> "none", ev |-> {}]]
    /\ conn_fds = [f \in Fds |-> 0]
    /\ running = FALSE
    /\ acceptor = "none"
    /\ stopper = "none"
-----------------------------------------------------------------------------
(* Clients, the kernel's end of the sockets, and the device.               *)

Connect(c) ==
    /\ conn[c] = "none" /\ running
    /\ \A d \in Ops : conn[d] = "none" => c <= d      \* named in the order they come
    /\ conn' = [conn EXCEPT ![c] = "backlog"]
    /\ UNCHANGED <<frameVars, waitVars, epollVars, fdVars, serverVars, sock>>

IsOpen(c) == conn[c] \in {"accepted", "ready", "serving", "stopping"}

\* A client sends part of a request, reads its answers, or closes its end.
ClientStep(c) ==
    /\ IsOpen(c) /\ ~sock[c].ended
    /\ \/ /\ sock[c].sent < MaxSent
          /\ sock' = [sock EXCEPT ![c].in = @ + 1, ![c].sent = @ + 1]
       \/ sock[c].full /\ sock' = [sock EXCEPT ![c].full = FALSE]
       \/ sock' = [sock EXCEPT ![c].ended = TRUE]
    /\ UNCHANGED <<frameVars, waitVars, epollVars, fdVars, serverVars, conn>>

Device(c) ==
    /\ io[c].at = "submitted"
    /\ io' = [io EXCEPT ![c].at = "done"]
    /\ UNCHANGED <<frameVars, waiter, space, epollVars, fdVars, serverVars, conn, sock>>

Readable(c) == sock[c].in > 0 \/ sock[c].ended
Writable(c) == ~sock[c].full \/ sock[c].ended
-----------------------------------------------------------------------------
(* serve_connection(), on whichever thread t runs it.                      *)

RunsFrame(t, l) == th[t].at = "run" /\ th[t].lvl = l

\* while (running): only between commands.
MayServe(c) == sv[c] = "line" \/ (sv[c] = "top" /\ running)

ServeRecv(t) ==
    LET c == th[t].op
    IN  /\ RunsFrame(t, 1) /\ MayServe(c) /\ buf[c] < Parts
        /\ Call(t)
        /\ kid' = [kid EXCEPT ![c] = "recv"]
        /\ UNCHANGED <<buf, sv, todo, waitVars, epollVars, fdVars, serverVars,
                       conn, sock>>

ServeCommand(t) ==
    LET c == th[t].op
    IN  /\ RunsFrame(t, 1) /\ MayServe(c) /\ buf[c] >= Parts
        /\ Call(t)
        /\ kid' = [kid EXCEPT ![c] = "command"]
        /\ buf' = [buf EXCEPT ![c] = @ - Parts]
        /\ \E p \in Plans : todo' = [todo EXCEPT ![c] = p]
        /\ UNCHANGED <<sv, waitVars, epollVars, fdVars, serverVars, conn, sock>>

\* The server stops, the client has gone, or the line says quit.
ServeReturn(t) ==
    LET c == th[t].op
    IN  /\ RunsFrame(t, 1)
        /\ \/ sv[c] = "top" /\ ~running
           \/ sv[c] = "end"
           \/ MayServe(c) /\ buf[c] > 0
        /\ Return(t)
        /\ UNCHANGED <<buf, sv, kid, todo, waitVars, epollVars, fdVars, serverVars,
                       conn, sock>>

\* Frame 2 completes and serve_connection() goes on from s.
Completes(t, s) ==
    /\ Return(t)
    /\ kid' = [kid EXCEPT ![th[t].op] = "none"]
    /\ sv' = [sv EXCEPT ![th[t].op] = s]

\* What ::recv() takes from a readable socket.
Taken(c) ==
    /\ buf' = [buf EXCEPT ![c] = @ + sock[c].in]
    /\ sock' = [sock EXCEPT ![c].in = 0]
AfterRecv(c) == IF sock[c].in > 0 THEN "line" ELSE "end"

\* EpollOpAwaitable::await_ready() of a recv: the syscall, or EAGAIN.
RecvTry(t) ==
    LET c == th[t].op
    IN  /\ RunsFrame(t, 2) /\ kid[c] = "recv"
        /\ \/ Readable(c) /\ Taken(c) /\ Completes(t, AfterRecv(c))
           \/ /\ ~Readable(c) /\ kid' = [kid EXCEPT ![c] = "recv wait"]
              /\ UNCHANGED <<taskVars, buf, sv, sock>>
        /\ UNCHANGED <<todo, waitVars, epollVars, fdVars, serverVars, conn>>

\* The poller has completed the recv: frame 2 only returns.
RecvReturn(t) ==
    LET c == th[t].op
    IN  /\ RunsFrame(t, 2) /\ kid[c] \in {"line", "end"}
        /\ Completes(t, kid[c])
        /\ UNCHANGED <<buf, todo, waitVars, epollVars, fdVars, serverVars, conn, sock>>

Does(c, i) == todo' = [todo EXCEPT ![c][i] = @ - 1]

\* A store I/O: it is queued or submitted on this thread and reaped there only;
\* or it completes at once (PosixIO), or finds no context or room.
StoreIo(t) ==
    LET c == th[t].op
    IN  /\ RunsFrame(t, 2) /\ kid[c] = "command" /\ todo[c][2] > 0
        /\ Does(c, 2)
        /\ \/ UNCHANGED <<taskVars, io>>
           \/ /\ Suspend(t)
              /\ \E at \in {"queued", "submitted"} :
                    io' = [io EXCEPT ![c] = [at |-> at, on |-> t]]
        /\ UNCHANGED <<buf, sv, kid, waiter, space, epollVars, fdVars, serverVars,
                       conn, sock>>

\* SpaceWait::await_suspend(): a put or delete that finds no space, or its table
\* full or frozen, queues for the space waker.
SpaceWait(t) ==
    LET c == th[t].op
    IN  /\ RunsFrame(t, 2) /\ kid[c] = "command" /\ todo[c][1] > 0
        /\ Does(c, 1)
        /\ Suspend(t)
        /\ space' = [space EXCEPT ![c] = "waiting"]
        /\ UNCHANGED <<buf, sv, kid, waiter, io, epollVars, fdVars, serverVars,
                       conn, sock>>

\* What ::send() puts into a writable socket.
Filled(c) == sock' = [sock EXCEPT ![c].full = ~sock[c].ended]

\* EpollOpAwaitable::await_ready() of a send; its errors are not looked at.
SendTry(t) ==
    LET c == th[t].op
    IN  /\ RunsFrame(t, 2) /\ kid[c] = "command"
        /\ todo[c][1] = 0 /\ todo[c][2] = 0 /\ todo[c][3] > 0
        /\ \/ Writable(c) /\ Filled(c) /\ Does(c, 3) /\ UNCHANGED kid
           \/ /\ ~Writable(c) /\ kid' = [kid EXCEPT ![c] = "send wait"]
              /\ UNCHANGED <<sock, todo>>
        /\ UNCHANGED <<taskVars, buf, sv, waitVars, epollVars, fdVars, serverVars, conn>>

CommandReturn(t) ==
    LET c == th[t].op
    IN  /\ RunsFrame(t, 2) /\ kid[c] = "command" /\ todo[c] = <<0, 0, 0>>
        /\ Completes(t, "top")
        /\ UNCHANGED <<buf, todo, waitVars, epollVars, fdVars, serverVars, conn, sock>>

\* EpollOpAwaitable::await_suspend(): the waiter is published.
Publish(t) ==
    LET c == th[t].op
    IN  /\ RunsFrame(t, 2) /\ kid[c] \in {"recv wait", "send wait"}
        /\ waiter' = [waiter EXCEPT ![c] = IF kid[c] = "recv wait" THEN "in" ELSE "out"]
        /\ Suspend(t)
        /\ UNCHANGED <<buf, sv, kid, todo, io, space, epollVars, fdVars, serverVars,
                       conn, sock>>

\* CoroTask's co_await: serve_connection() awaits frame 2.
Awaits(t) ==
    /\ AwaitReady(t) \/ AwaitSuspend(t)
    /\ UNCHANGED <<buf, sv, kid, todo, waitVars, epollVars, fdVars, serverVars,
                   conn, sock>>
-----------------------------------------------------------------------------
(* Polling.                                                                *)

\* poll_this_thread() of thread t: I/O it has queued is pushed, I/O that is done
\* is taken off and its coroutine resumed.
PollIo(t) ==
    LET mine == {c \in Ops : io[c].on = t /\ io[c].at \in {"queued", "done"}}
    IN  /\ th[t].at = "idle"
        /\ \/ mine = {} /\ UNCHANGED <<taskVars, io>>
           \/ \E c \in mine :
                 \/ /\ io[c].at = "queued" /\ io' = [io EXCEPT ![c].at = "submitted"]
                    /\ UNCHANGED taskVars
                 \/ /\ io[c].at = "done" /\ io' = [io EXCEPT ![c] = NoIo]
                    /\ Resume(t, c, 2)
        /\ UNCHANGED <<buf, sv, kid, todo, waiter, space, fdVars, serverVars, conn, sock>>

\* run_sync(), until serve_connection() has completed.
HandlerPolls(c) ==
    /\ owner[c] = Handler(c) /\ cont[c][1] # "done"
    /\ PollIo(Handler(c))
    /\ UNCHANGED epollVars

\* poller_loop() polls in every round, and after the last until nothing is left.
PollerPolls(c) ==
    /\ po[c].at = "loop"
    /\ es[c] = "ready" \/ \E d \in Ops : io[d].on = Poller(c)
    /\ po' = [po EXCEPT ![c].at = IF es[c] = "ready" THEN "wait" ELSE "loop"]
    /\ PollIo(Poller(c))
    /\ UNCHANGED es

PollerExits(c) ==
    /\ po[c].at = "loop" /\ th[Poller(c)].at = "idle" /\ es[c] = "draining"
    /\ \A d \in Ops : io[d].on # Poller(c)
    /\ po' = [po EXCEPT ![c].at = "gone"]
    /\ UNCHANGED <<frameVars, waitVars, es, fdVars, serverVars, conn, sock>>

Ready(c, e) == IF e = "in" THEN Readable(c) ELSE Writable(c)

\* The round goes on with the events left.
Round(c, ev) ==
    po' = [po EXCEPT ![c] = [at |-> IF ev = {} THEN "loop" ELSE "events", ev |-> ev]]

\* epoll_wait(), level triggered, or its timeout.
EpollWait(c) ==
    /\ po[c].at = "wait" /\ th[Poller(c)].at = "idle"
    /\ Round(c, {e \in {"in", "out"} : Ready(c, e)})
    /\ UNCHANGED <<frameVars, waitVars, es, fdVars, serverVars, conn, sock>>

\* Mutant: the slot keeps the waiter.
Unpublish_Kept(c) == UNCHANGED waiter

\* The waiter is taken out of its slot, to be resumed outside the lock.
Unpublish(c) == waiter' = [waiter EXCEPT ![c] = "none"]

\* notify_maybe(), for EPOLLIN before EPOLLOUT: the event may be stale, so the
\* syscall is made again under fds_mu_ and the waiter kept if it fails.
Notify(c) ==
    LET e == IF "in" \in po[c].ev THEN "in" ELSE "out"
    IN  /\ po[c].at = "events" /\ th[Poller(c)].at = "idle"
        /\ Round(c, po[c].ev \ {e})
        /\ \/ /\ waiter[c] # e \/ ~Ready(c, e)
              /\ UNCHANGED <<taskVars, buf, kid, todo, waiter, sock>>
           \/ /\ waiter[c] = "in" /\ e = "in" /\ Ready(c, e)
              /\ Taken(c)
              /\ kid' = [kid EXCEPT ![c] = AfterRecv(c)]
              /\ Unpublish(c)
              /\ Resume(Poller(c), c, 2)
              /\ UNCHANGED todo
           \/ /\ waiter[c] = "out" /\ e = "out" /\ Ready(c, e)
              /\ Filled(c)
              /\ Does(c, 3)
              /\ kid' = [kid EXCEPT ![c] = "command"]
              /\ Unpublish(c)
              /\ Resume(Poller(c), c, 2)
              /\ UNCHANGED buf
        /\ UNCHANGED <<sv, io, space, es, fdVars, serverVars, conn>>
-----------------------------------------------------------------------------
(* The space waker: it takes every waiter, resumes each in its turn and    *)
(* then polls until no I/O of what it resumed is left on its thread.  The  *)
(* grows it runs in between are part of Directory.                         *)

WakerIdle == th[Waker].at = "idle" /\ \A c \in Ops : space[c] # "taken"
WakerIo == \E c \in Ops : io[c].on = Waker

\* space_waker_loop() after its sleep.
WakerTakes ==
    /\ WakerIdle /\ ~WakerIo
    /\ \E c \in Ops : space[c] = "waiting"
    /\ space' = [c \in Ops |-> IF space[c] = "waiting" THEN "taken" ELSE space[c]]
    /\ UNCHANGED <<frameVars, waiter, io, epollVars, fdVars, serverVars, conn, sock>>

\* resume_waiters(): one of those taken goes on, on this thread.
WakerResumes(c) ==
    /\ space[c] = "taken"
    /\ space' = [space EXCEPT ![c] = "none"]
    /\ Resume(Waker, c, 2)
    /\ UNCHANGED <<buf, sv, kid, todo, waiter, io, epollVars, fdVars, serverVars,
                   conn, sock>>

\* Mutant: the waker goes back to its queue and leaves the I/O.
WakerPolls_Not == FALSE /\ UNCHANGED vars

\* With all of them resumed: while (poll_this_thread()) {}.
WakerPolls ==
    /\ WakerIdle /\ WakerIo
    /\ PollIo(Waker)
    /\ UNCHANGED epollVars
-----------------------------------------------------------------------------
(* The life of a connection.                                               *)

InUse == {fd[c] : c \in {d \in Ops : IsOpen(d)}}

\* accept_loop(): a connection is tracked and its thread started; without a
\* descriptor to give it, or on a socket stop() has shut down, the loop ends.
Accept ==
    /\ acceptor = "loop"
    /\ \/ \E c \in Ops, f \in Fds \ InUse :
             /\ running /\ conn[c] = "backlog"
             /\ conn' = [conn EXCEPT ![c] = "accepted"]
             /\ fd' = [fd EXCEPT ![c] = f]
             /\ conn_fds' = [conn_fds EXCEPT ![f] = @ + 1]
             /\ UNCHANGED acceptor
       \/ /\ ~running \/ (Fds = InUse /\ \E c \in Ops : conn[c] = "backlog")
          /\ acceptor' = "gone"
          /\ UNCHANGED <<conn, fdVars>>
    /\ UNCHANGED <<frameVars, waitVars, epollVars, running, stopper, sock>>

\* EpollState::init() and register_fd(); when that fails, the connection is
\* closed and its number stays in conn_fds_.
EsInit(c) ==
    /\ conn[c] = "accepted"
    /\ \/ /\ conn' = [conn EXCEPT ![c] = "ready"]
          /\ es' = [es EXCEPT ![c] = "ready"]
          /\ po' = [po EXCEPT ![c].at = "loop"]
          /\ UNCHANGED sock
       \/ /\ conn' = [conn EXCEPT ![c] = "gone"]
          /\ sock' = [sock EXCEPT ![c] = NewSock]
          /\ UNCHANGED epollVars
    /\ UNCHANGED <<frameVars, waitVars, fdVars, serverVars>>

\* serve_connection() starts.
Serve(c) ==
    /\ conn[c] = "ready"
    /\ conn' = [conn EXCEPT ![c] = "serving"]
    /\ Start(Handler(c), c)
    /\ UNCHANGED <<buf, sv, kid, todo, waitVars, epollVars, fdVars, serverVars, sock>>

\* run_sync() returns, and EpollState::stop() begins.
EsStop(c) ==
    /\ conn[c] = "serving"
    /\ RunSync(Handler(c), c)
    /\ conn' = [conn EXCEPT ![c] = "stopping"]
    /\ es' = [es EXCEPT ![c] = "draining"]
    /\ UNCHANGED <<buf, sv, kid, todo, waitVars, po, fdVars, serverVars, sock>>

\* EpollState::stop() has joined the poller; shutdown_all(), and ::close(fd).
CloseFd(c) ==
    /\ conn[c] = "stopping" /\ po[c].at = "gone"
    /\ conn' = [conn EXCEPT ![c] = "closed"]
    /\ es' = [es EXCEPT ![c] = "done"]
    /\ sock' = [sock EXCEPT ![c] = NewSock]
    /\ buf' = [buf EXCEPT ![c] = 0]
    /\ sv' = [sv EXCEPT ![c] = "top"]
    /\ UNCHANGED <<taskVars, kid, todo, waitVars, po, fdVars, serverVars>>

\* Mutant: every occurrence of the number is erased.
EraseFd_All(c) ==
    /\ conn[c] = "closed"
    /\ conn' = [conn EXCEPT ![c] = "gone"]
    /\ conn_fds' = [conn_fds EXCEPT ![fd[c]] = 0]
    /\ UNCHANGED <<frameVars, waitVars, epollVars, fd, serverVars, sock>>

\* The number is erased from conn_fds_, once, and the thread ends.  A later
\* connection may have been given it by now.
EraseFd(c) ==
    /\ conn[c] = "closed"
    /\ conn' = [conn EXCEPT ![c] = "gone"]
    /\ conn_fds' = [conn_fds EXCEPT ![fd[c]] = IF @ > 0 THEN @ - 1 ELSE 0]
    /\ UNCHANGED <<frameVars, waitVars, epollVars, fd, serverVars, sock>>

\* MemcacheServer::start(), when it succeeds: otherwise it closes what it opened.
StartServer ==
    /\ acceptor = "none"
    /\ acceptor' = "loop"
    /\ running' = TRUE
    /\ UNCHANGED <<frameVars, waitVars, epollVars, fdVars, stopper, conn, sock>>

\* MemcacheServer::stop(): running_ and listen_fd_; the accept thread; every
\* tracked descriptor is shut down; and the connections' threads.
Stop ==
    /\ running
    /\ stopper' = "accept"
    /\ running' = FALSE
    /\ UNCHANGED <<frameVars, waitVars, epollVars, fdVars, acceptor, conn, sock>>

ShutDown ==
    /\ stopper = "accept" /\ acceptor = "gone"
    /\ stopper' = "join"
    /\ sock' = [c \in Ops |-> [sock[c] EXCEPT !.ended =
                  @ \/ (IsOpen(c) /\ conn_fds[fd[c]] > 0)]]
    /\ UNCHANGED <<frameVars, waitVars, epollVars, fdVars, running, acceptor, conn>>

Stopped ==
    /\ stopper = "join"
    /\ \A c \in Ops : conn[c] \in {"none", "backlog", "gone"}
    /\ stopper' = "done"
    /\ UNCHANGED <<frameVars, waitVars, epollVars, fdVars, running, acceptor, conn, sock>>

FrameStep(t) ==
    \/ ServeRecv(t) \/ ServeCommand(t) \/ ServeReturn(t) \/ RecvTry(t) \/ RecvReturn(t)
    \/ StoreIo(t) \/ SpaceWait(t) \/ SendTry(t) \/ CommandReturn(t) \/ Publish(t)
    \/ Awaits(t)

\* The threads of a connection, and the store's.
HandlerStep(c) ==
    \/ EsInit(c) \/ Serve(c) \/ FrameStep(Handler(c)) \/ HandlerPolls(c)
    \/ EsStop(c) \/ CloseFd(c) \/ EraseFd(c)
PollerStep(c) ==
    \/ FrameStep(Poller(c)) \/ PollerPolls(c) \/ EpollWait(c)
    \/ Notify(c) \/ PollerExits(c)
WakerStep ==
    \/ FrameStep(Waker) \/ WakerTakes \/ WakerPolls
    \/ \E c \in Ops : WakerResumes(c)
StopStep == ShutDown \/ Stopped

ServerNext ==
    \/ StartServer \/ Accept \/ Stop \/ StopStep \/ WakerStep
    \/ \E c \in Ops : \/ Connect(c) \/ ClientStep(c) \/ Device(c)
                     \/ HandlerStep(c) \/ PollerStep(c)

\* The threads are scheduled, and the device completes what is submitted.
\* Nothing is assumed of the clients, or of whoever calls stop().  That a command
\* waits for space finitely often is in its plan: space is freed, or the grow it
\* asked for ends, sooner or later.
ServerFair ==
    /\ WF_vars(Accept) /\ WF_vars(StopStep) /\ WF_vars(WakerStep)
    /\ \A c \in Ops : /\ WF_vars(Device(c))
                     /\ WF_vars(HandlerStep(c)) /\ WF_vars(PollerStep(c))

ServerSpec == ServerInit /\ [][ServerNext]_vars /\ ServerFair
-----------------------------------------------------------------------------
(* Properties.                                                             *)

\* A coroutine that waits has exactly one waker, its waiter slot, its I/O or its
\* place among those waiting for space, and one that runs or has ended has none:
\* no wake-up is lost, however late or stale the events and whichever of the three
\* threads they come to, and no coroutine is resumed twice or after its end.
OneWaker ==
    \A c \in Ops :
       /\ Leaf(c, 2) <=> waiter[c] # "none" \/ io[c].at # "none" \/ space[c] # "none"
       /\ waiter[c] = "none" \/ io[c].at = "none"
       /\ space[c] = "none" \/ (waiter[c] = "none" /\ io[c].at = "none")

\* The descriptor of every open connection is in conn_fds_, where stop() finds
\* it, also when the number has been given twice: its last owner erases it after
\* closing it, and may by then erase it under the next one.
OpenIsTracked == \A c \in Ops : IsOpen(c) => conn_fds[fd[c]] > 0

\* Why: a number is in conn_fds_ at least once for every connection that has it
\* and has not erased it yet.
Holders(f) == {c \in Ops : (IsOpen(c) \/ conn[c] = "closed") /\ fd[c] = f}

Stages ==
    {"none", "backlog", "accepted", "ready", "serving", "stopping", "closed", "gone"}

TrackedInv ==
    /\ conn \in [Ops -> Stages]
    /\ fd \in [Ops -> Fds \cup {NoFd}]
    /\ conn_fds \in [Fds -> Nat]
    /\ \A c \in Ops : IsOpen(c) \/ conn[c] = "closed" => fd[c] \in Fds
    /\ \A f \in Fds : conn_fds[f] >= Cardinality(Holders(f))

\* stop() returns, wherever the connections are: just accepted, mid-request,
\* behind a client that does not read its answers, waiting for space that will be
\* freed, or waiting for I/O, which is reaped by the thread it was submitted on,
\* be it the handler, the poller or the space waker, and by no other.
StopReturns == stopper = "accept" ~> stopper = "done"
=============================================================================
