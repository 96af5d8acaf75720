------------------------------ MODULE TaskProofs ------------------------------
(***************************************************************************)
(* CoroTask never enters a frame twice and never loses a wake-up, for any  *)
(* number of operations, threads and nested frames.  FrameSafety is not    *)
(* inductive: what it says of a frame and its parent depends on whose      *)
(* stack they are on and on what the child's continuation_ holds, so       *)
(* TaskInv adds what a thread's stack is (StacksOK) and what a chain of    *)
(* frames is (FramesOK).  One lemma per step follows, split where the step *)
(* depends on what its exchange finds.                                     *)
(***************************************************************************)
EXTENDS Task, TLAPS

USE TaskAssumption

\* A thread that runs an operation has its stack inside the chain, and runs it.
LEMMA Busy ==
  ASSUME TaskInv, NEW t \in Threads, th[t].at # "idle"
  PROVE  /\ th[t].op \in Ops /\ th[t].op # NoOp
         /\ th[t].base \in Levels /\ th[t].lvl \in Levels
         /\ 1 <= th[t].base /\ th[t].base <= th[t].lvl
         /\ OnStack(t, th[t].op, th[t].lvl)
         /\ \A k \in Levels : th[t].base <= k /\ k <= th[t].lvl => fr[th[t].op][k] = "run"
         /\ fr[th[t].op][th[t].lvl] = "run"
         /\ th[t].lvl > 1 => th[t].lvl - 1 \in Levels /\ fr[th[t].op][th[t].lvl - 1] # "none"
<1>1. /\ th[t].op \in Ops /\ th[t].op # NoOp
      /\ th[t].base \in Levels /\ th[t].lvl \in Levels
      /\ 1 <= th[t].base /\ th[t].base <= th[t].lvl
  BY DEF TaskInv, TaskTypeOK, StacksOK, StackOK, Levels, ThreadType
<1>2. OnStack(t, th[t].op, th[t].lvl)
  BY <1>1 DEF OnStack, Levels
<1>3. \A k \in Levels : th[t].base <= k /\ k <= th[t].lvl => fr[th[t].op][k] = "run"
  BY <1>1 DEF TaskInv, OneRunner, OnStack
<1>4. fr[th[t].op][th[t].lvl] = "run"
  BY <1>1, <1>3 DEF Levels
<1>5. ASSUME th[t].lvl > 1
      PROVE  th[t].lvl - 1 \in Levels /\ fr[th[t].op][th[t].lvl - 1] # "none"
  <2>1. th[t].lvl - 1 \in Levels /\ th[t].lvl - 1 < Depth /\ (th[t].lvl - 1) + 1 = th[t].lvl
    BY <1>1, <1>5 DEF Levels
  <2>2. FrameOK(th[t].op, th[t].lvl - 1)
    BY <1>1, <2>1 DEF TaskInv, FramesOK
  <2> QED BY <1>4, <2>1, <2>2 DEF FrameOK
<1> QED BY <1>1, <1>2, <1>3, <1>4, <1>5

\* The stacks of other threads survive a step of t that changes no frame but the
\* ones next to t's top: none of them can reach that frame, and one whose top is
\* the frame below finds the child it is about to wait for.
LEMMA OthersKept ==
  ASSUME TaskInv, NEW t \in Threads, th[t].at # "idle",
         NEW o, NEW n, o = th[t].op, n = th[t].lvl,
         \A p \in Ops, k \in Levels :
            p # o \/ k \notin {n - 1, n, n + 1} =>
               fr'[p][k] = fr[p][k] /\ cont'[p][k] = cont[p][k],
         n > 1 => /\ cont'[o][n - 1] = cont[o][n - 1]
                  /\ fr[o][n - 1] # "none" /\ fr'[o][n - 1] # "none"
                  /\ fr[o][n - 1] = "run" => fr'[o][n] # "none" /\ cont'[o][n] # "parent",
         NEW u \in Threads, u # t, th'[u] = th[u]
  PROVE  StackOK(u)'
<1> DEFINE q == th[u].op
           c == th[u].base
           m == th[u].lvl
<1>1. StackOK(u)
  BY SMTT(30) DEF TaskInv, StacksOK
<1>2. CASE th[u].at = "idle"
  BY <1>1, <1>2, SMTT(30) DEF StackOK
<1>3. CASE th[u].at # "idle"
  <2>1. /\ q \in Ops /\ q # NoOp /\ c \in 1..Depth /\ m \in 1..Depth /\ 1 <= c /\ c <= m
        /\ n \in 1..Depth /\ o \in Ops
        /\ \A k \in Levels : c <= k /\ k <= m => fr[q][k] = "run"
    BY <1>3, Busy, SMTT(30) DEF Levels
  <2>2. \A k \in Levels : c <= k /\ k <= m => ~(q = o /\ k = n)
    <3>1. \A k \in Levels : c <= k /\ k <= m => OnStack(u, q, k)
      BY DEF OnStack
    <3> QED BY <2>1, <3>1, Busy, SMTT(30) DEF TaskInv, OneRunner, Levels
  <2>3. ASSUME NEW k \in Levels, c < k, k <= m
        PROVE  cont'[q][k] = "null"
    <3>1. cont[q][k] = "null"
      BY <1>1, <2>1, <2>3 DEF StackOK
    <3>2. q = o => k # n /\ k # n + 1
      BY <2>1, <2>2, <2>3 DEF Levels
    <3>3. CASE q = o /\ k = n - 1
      BY <2>1, <3>1, <3>3 DEF Levels
    <3> QED BY <2>1, <3>1, <3>2, <3>3
  <2>4. ASSUME th[u].at = "run", m < Depth
        PROVE  fr'[q][m + 1] = "none"
    <3>1. fr[q][m + 1] = "none" /\ m + 1 \in Levels
      BY <1>1, <2>1, <2>4, SMTT(30) DEF StackOK, Levels
    <3>2. q = o => m + 1 # n /\ m + 1 # n + 1 /\ m + 1 # n - 1
      <4>1. fr[o][n] = "run"
        BY Busy DEF Levels
      <4> QED BY <2>1, <2>2, <3>1, <4>1, SMTT(30) DEF Levels
    <3> QED BY <2>1, <3>1, <3>2, SMTT(30)
  <2>5. ASSUME th[u].at \in {"await", "suspend"}
        PROVE  m < Depth /\ fr'[q][m + 1] # "none" /\ cont'[q][m + 1] # "parent"
    <3>1. m < Depth /\ fr[q][m + 1] # "none" /\ cont[q][m + 1] # "parent" /\ m + 1 \in Levels
      BY <1>1, <2>1, <2>5, SMTT(30) DEF StackOK, Levels
    <3>2. CASE q = o /\ m + 1 = n
      BY <2>1, <3>1, <3>2, SMTT(30) DEF Levels
    <3>3. CASE q = o /\ m + 1 = n - 1
      BY <2>1, <3>1, <3>3, SMTT(30) DEF Levels
    <3>4. ~(q = o /\ m + 1 = n + 1)
      BY <2>1, <2>2 DEF Levels
    <3> QED BY <2>1, <3>1, <3>2, <3>3, <3>4, SMTT(30)
  <2> QED BY <1>1, <1>3, <2>1, <2>3, <2>4, <2>5, SMTT(30) DEF StackOK
<1> QED BY <1>2, <1>3

\* The stacks of threads that do not move stay as they are.
LEMMA OthersStay ==
  ASSUME NEW t, \A u \in Threads : u # t => th'[u] = th[u]
  PROVE  \A u \in Threads, p \in Ops, k \in Levels :
            u # t => (OnStack(u, p, k)' <=> OnStack(u, p, k))
BY DEF OnStack

\* A thread that leaves its top frame keeps the rest of its stack.
LEMMA BelowStack ==
  ASSUME TaskInv, NEW t \in Threads, th[t].at # "idle", th' = [th EXCEPT ![t] = Below(th[t])]
  PROVE  /\ \A u \in Threads, p \in Ops, k \in Levels :
               OnStack(u, p, k)' <=> OnStack(u, p, k) /\ ~(p = th[t].op /\ k = th[t].lvl)
         /\ th' \in [Threads -> ThreadType]
<1> SUFFICES ASSUME NEW o, NEW b, NEW n, o = th[t].op, b = th[t].base, n = th[t].lvl
             PROVE  /\ \A u \in Threads, p \in Ops, k \in Levels :
                         OnStack(u, p, k)' <=> OnStack(u, p, k) /\ ~(p = o /\ k = n)
                    /\ th' \in [Threads -> ThreadType]
  OBVIOUS
<1>1. OneRunner /\ th \in [Threads -> ThreadType]
  BY DEF TaskInv, TaskTypeOK
<1>2. o \in Ops /\ o # NoOp /\ b \in Levels /\ n \in Levels /\ b <= n
  BY Busy
<1>3. /\ \A u \in Threads : u # t => th'[u] = th[u]
      /\ th'[t].op = IF n > b THEN o ELSE NoOp
      /\ n > b => th'[t].base = b /\ th'[t].lvl = n - 1
  BY <1>1 DEF Below, Runs, Idle
<1>4. OnStack(t, o, n)
  BY <1>2 DEF OnStack, Levels
<1>5. ASSUME NEW u \in Threads, NEW p \in Ops, NEW k \in Levels
      PROVE  OnStack(u, p, k)' <=> OnStack(u, p, k) /\ ~(p = o /\ k = n)
  <2>1. CASE u = t
    BY <1>2, <1>3, <2>1 DEF OnStack, Levels
  <2>2. CASE u # t
    <3>1. OnStack(u, p, k)' <=> OnStack(u, p, k)
      BY <1>3, <2>2, OthersStay
    <3>2. ~ OnStack(u, o, n)
      BY <1>1, <1>2, <1>4, <2>2 DEF OneRunner
    <3> QED BY <3>1, <3>2
  <2> QED BY <2>1, <2>2
<1>6. th' \in [Threads -> ThreadType]
  BY <1>1, <1>2 DEF ThreadType, Below, Runs, Idle, Levels
<1> QED BY <1>5, <1>6

\* A thread that moves within its top frame keeps its stack.
LEMMA SameStack ==
  ASSUME TaskInv, NEW t \in Threads, th[t].at # "idle", NEW a \in {"run", "suspend"},
         th' = [th EXCEPT ![t] = Runs(th[t].op, th[t].base, th[t].lvl, a)]
  PROVE  /\ \A u \in Threads, p \in Ops, k \in Levels : OnStack(u, p, k)' <=> OnStack(u, p, k)
         /\ th' \in [Threads -> ThreadType]
<1>1. th \in [Threads -> ThreadType]
  BY DEF TaskInv, TaskTypeOK
<1>2. \A u \in Threads : th'[u].op = th[u].op /\ th'[u].base = th[u].base /\ th'[u].lvl = th[u].lvl
  BY <1>1 DEF Runs
<1>3. th' \in [Threads -> ThreadType]
  BY <1>1 DEF ThreadType, Runs
<1> QED BY <1>2, <1>3 DEF OnStack

\* A call adds one frame to the stack.
LEMMA CallStack ==
  ASSUME TaskInv, NEW t \in Threads, th[t].at # "idle", th[t].lvl < Depth,
         th' = [th EXCEPT ![t] = Runs(th[t].op, th[t].base, th[t].lvl + 1, "run")]
  PROVE  /\ \A u \in Threads, p \in Ops, k \in Levels :
               OnStack(u, p, k)' <=>
                  OnStack(u, p, k) \/ (u = t /\ p = th[t].op /\ k = th[t].lvl + 1)
         /\ th' \in [Threads -> ThreadType]
<1> SUFFICES ASSUME NEW o, NEW b, NEW n, o = th[t].op, b = th[t].base, n = th[t].lvl
             PROVE  /\ \A u \in Threads, p \in Ops, k \in Levels :
                         OnStack(u, p, k)' <=> OnStack(u, p, k) \/ (u = t /\ p = o /\ k = n + 1)
                    /\ th' \in [Threads -> ThreadType]
  OBVIOUS
<1>1. th \in [Threads -> ThreadType]
  BY DEF TaskInv, TaskTypeOK
<1>2. o \in Ops /\ b \in 1..Depth /\ n \in 1..Depth /\ b <= n
  BY Busy DEF Levels
<1>3. \A u \in Threads : u # t => th'[u] = th[u]
  BY <1>1
<1>4. th'[t].op = o /\ th'[t].base = b /\ th'[t].lvl = n + 1
  BY <1>1 DEF Runs
<1>5. ASSUME NEW p \in Ops, NEW k \in Levels
      PROVE  OnStack(t, p, k)' <=> OnStack(t, p, k) \/ (p = o /\ k = n + 1)
  <2>1. k \in Int /\ (b <= k /\ k <= n + 1 <=> (b <= k /\ k <= n) \/ k = n + 1)
    BY <1>2 DEF Levels
  <2> QED BY <1>2, <1>4, <2>1 DEF OnStack
<1>6. th' \in [Threads -> ThreadType]
  BY <1>1, <1>2 DEF ThreadType, Runs
<1>7. ASSUME NEW u \in Threads, NEW p \in Ops, NEW k \in Levels
      PROVE  OnStack(u, p, k)' <=> OnStack(u, p, k) \/ (u = t /\ p = o /\ k = n + 1)
  <2>1. CASE u = t
    BY <1>5, <2>1
  <2>2. CASE u # t
    <3>1. th'[u] = th[u]
      BY <1>3, <2>2
    <3> QED BY <2>2, <3>1 DEF OnStack
  <2> QED BY <2>1, <2>2
<1> QED BY <1>6, <1>7

\* Symmetric transfer: the finished frame leaves the stack and its parent enters.
LEMMA ParentStack ==
  ASSUME TaskInv, NEW t \in Threads, th[t].at # "idle", th[t].base = th[t].lvl, th[t].lvl > 1,
         th' = [th EXCEPT ![t] = Runs(th[t].op, th[t].lvl - 1, th[t].lvl - 1, "run")]
  PROVE  /\ \A u \in Threads, p \in Ops, k \in Levels :
               OnStack(u, p, k)' <=> \/ OnStack(u, p, k) /\ ~(p = th[t].op /\ k = th[t].lvl)
                                     \/ u = t /\ p = th[t].op /\ k = th[t].lvl - 1
         /\ th' \in [Threads -> ThreadType]
<1> SUFFICES ASSUME NEW o, NEW n, o = th[t].op, n = th[t].base, n = th[t].lvl
             PROVE  /\ \A u \in Threads, p \in Ops, k \in Levels :
                         OnStack(u, p, k)' <=> \/ OnStack(u, p, k) /\ ~(p = o /\ k = n)
                                               \/ u = t /\ p = o /\ k = n - 1
                    /\ th' \in [Threads -> ThreadType]
  OBVIOUS
<1>1. OneRunner /\ th \in [Threads -> ThreadType]
  BY DEF TaskInv, TaskTypeOK
<1>2. o \in Ops /\ n \in Levels /\ n \in 1..Depth
  BY Busy DEF Levels
<1>3. \A u \in Threads : u # t => th'[u] = th[u]
  BY <1>1
<1>4. th'[t].op = o /\ th'[t].base = n - 1 /\ th'[t].lvl = n - 1
  BY <1>1 DEF Runs
<1>5. ASSUME NEW p \in Ops, NEW k \in Levels
      PROVE  /\ OnStack(t, p, k)' <=> p = o /\ k = n - 1
             /\ OnStack(t, p, k) <=> p = o /\ k = n
  BY <1>2, <1>4 DEF OnStack, Levels
<1>6. ASSUME NEW u \in Threads, u # t
      PROVE  ~ OnStack(u, o, n)
  BY <1>1, <1>2, <1>5, <1>6 DEF OneRunner
<1>7. th' \in [Threads -> ThreadType]
  BY <1>1, <1>2 DEF ThreadType, Runs
<1>8. ASSUME NEW u \in Threads, NEW p \in Ops, NEW k \in Levels
      PROVE  OnStack(u, p, k)' <=> \/ OnStack(u, p, k) /\ ~(p = o /\ k = n)
                                   \/ u = t /\ p = o /\ k = n - 1
  <2>1. CASE u = t
    <3>1. n # n - 1
      BY <1>2
    <3> QED BY <1>5, <2>1, <3>1
  <2>2. CASE u # t
    BY <1>3, <1>6, <2>2, OthersStay
  <2> QED BY <2>1, <2>2
<1> QED BY <1>7, <1>8

\* Every action preserves the invariant.  Return, with the parent registered.
LEMMA ReturnToParent ==
  ASSUME TaskInv, NEW t \in Threads, cont[th[t].op][th[t].lvl] = "parent", Return(t)
  PROVE  TaskInv'
<1> SUFFICES ASSUME NEW o, NEW b, NEW n, o = th[t].op, b = th[t].base, n = th[t].lvl
             PROVE  TaskInv'
  OBVIOUS
<1>1. /\ TaskTypeOK /\ OneRunner /\ NoLostParent /\ StacksOK /\ FramesOK
      /\ fr \in [Ops -> [Levels -> FrameType]]
      /\ cont \in [Ops -> [Levels -> ContType]]
      /\ th \in [Threads -> ThreadType]
  BY DEF TaskInv, TaskTypeOK
<1>2. th[t].at = "run" /\ th[t].at # "idle"
  BY DEF Return
<1>3. /\ fr' = [fr EXCEPT ![o][n] = "none", ![o][n - 1] = "run"]
      /\ cont' = [cont EXCEPT ![o][n] = "null"]
      /\ th' = [th EXCEPT ![t] = Runs(o, n - 1, n - 1, "run")]
      /\ owner' = owner
  BY DEF Return
<1>4. /\ o \in Ops /\ o # NoOp /\ b \in Levels /\ n \in Levels /\ 1 <= b /\ b <= n
      /\ n \in 1..Depth /\ b \in 1..Depth /\ fr[o][n] = "run"
      /\ n > 1 => n - 1 \in Levels /\ fr[o][n - 1] # "none"
  BY <1>2, Busy DEF Levels
<1>5. StackOK(t) /\ FrameOK(o, n) /\ (n < Depth => FrameOK(o, n + 1))
  BY <1>1, <1>4 DEF StacksOK, FramesOK, Levels
<1>6. /\ b = n /\ n = th[t].base /\ n > 1 /\ n - 1 \in Levels /\ fr[o][n - 1] = "susp"
      /\ n < Depth => fr[o][n + 1] = "none"
  BY <1>2, <1>4, <1>5, SMTT(30) DEF StackOK, FrameOK, Levels
<1>7. /\ fr' \in [Ops -> [Levels -> FrameType]]
      /\ \A p \in Ops, k \in Levels :
            fr'[p][k] = IF p = o /\ k = n THEN "none"
                        ELSE IF p = o /\ k = n - 1 THEN "run" ELSE fr[p][k]
  BY <1>1, <1>3, <1>4, <1>6, Zenon DEF Levels, FrameType
<1>8. /\ cont' \in [Ops -> [Levels -> ContType]]
      /\ \A p \in Ops, k \in Levels : cont'[p][k] = IF p = o /\ k = n THEN "null" ELSE cont[p][k]
  BY <1>1, <1>3, <1>4, <1>6, SMTT(30) DEF Levels, ContType
<1>9. /\ th'[t].op = o
      /\ th'[t].base = n - 1
      /\ th'[t].lvl = n - 1
      /\ th'[t].at = "run"
  BY <1>1, <1>3, <1>4, <1>6 DEF Runs, Below, Idle
<1>10. \A u \in Threads : u # t => th'[u] = th[u]
  BY <1>1, <1>3
<1>11. /\ \A u \in Threads, p \in Ops, k \in Levels :
            OnStack(u, p, k)' <=> (OnStack(u, p, k) /\ ~(p = o /\ k = n)) \/ (u = t /\ p = o /\ k = n - 1)
      /\ th' \in [Threads -> ThreadType]
  <2>1. th[t].base = th[t].lvl /\ th[t].lvl > 1
    BY <1>6
  <2>2. th' = [th EXCEPT ![t] = Runs(th[t].op, th[t].lvl - 1, th[t].lvl - 1, "run")]
    BY <1>3
  <2>3. /\ \A u \in Threads, p \in Ops, k \in Levels :
              OnStack(u, p, k)' <=> \/ OnStack(u, p, k) /\ ~(p = th[t].op /\ k = th[t].lvl)
                                    \/ u = t /\ p = th[t].op /\ k = th[t].lvl - 1
        /\ th' \in [Threads -> ThreadType]
    BY <1>2, <2>1, <2>2, ParentStack, Zenon
  <2> QED BY <2>3
<1>12. TaskTypeOK'
  BY <1>1, <1>3, <1>7, <1>8, <1>11, Zenon DEF TaskTypeOK
<1>13. OneRunner'
  BY <1>1, <1>4, <1>6, <1>7, <1>11 DEF OneRunner
<1>14. NoLostParent'
  <2> SUFFICES ASSUME NEW p \in Ops, NEW k \in 1..Depth - 1,
                      fr'[p][k] = "susp", fr'[p][k + 1] # "none"
               PROVE  cont'[p][k + 1] = "parent" /\ fr'[p][k + 1] \in {"run", "susp"}
    BY DEF NoLostParent
  <2>1. k \in Levels /\ k + 1 \in Levels
    BY DEF Levels
  <2>2. fr[p][k] = "susp" /\ fr[p][k + 1] # "none" =>
          cont[p][k + 1] = "parent" /\ fr[p][k + 1] \in {"run", "susp"}
    BY <1>1 DEF NoLostParent
  <2>3. fr[p][k + 1] \in FrameType
    BY <1>1, <2>1
  <2>4. (k + 1 = n <=> k = n - 1) /\ (k + 1 = n + 1 <=> k = n) /\ k + 1 # k
    BY <1>4
  <2> QED BY <1>4, <1>6, <1>7, <1>8, <2>1, <2>2, <2>3, <2>4 DEF FrameType
<1>15. ASSUME NEW u \in Threads, u # t
       PROVE  StackOK(u)'
  <2>1. \A p \in Ops, k \in Levels :
           p # o \/ k \notin {n - 1, n, n + 1} =>
              fr'[p][k] = fr[p][k] /\ cont'[p][k] = cont[p][k]
    BY <1>7, <1>8
  <2>2. n > 1 => /\ cont'[o][n - 1] = cont[o][n - 1]
                 /\ fr[o][n - 1] # "none" /\ fr'[o][n - 1] # "none"
                 /\ fr[o][n - 1] = "run" => fr'[o][n] # "none" /\ cont'[o][n] # "parent"
    <3>1. n > 1 => n # n - 1 /\ n + 1 # n - 1 /\ n # n + 1
      BY <1>4
    <3>2. cont[o][n] = "parent" => fr[o][n - 1] = "susp"
      BY <1>5, SMTT(30) DEF FrameOK
    <3> QED BY <1>4, <1>6, <1>7, <1>8, <3>1, <3>2, SMTT(30)
  <2>3. th'[u] = th[u]
    BY <1>10, <1>15
  <2> QED BY <1>2, <1>15, <2>1, <2>2, <2>3, OthersKept
<1>16. StackOK(t)'
  <2>1. \A k \in Levels : b < k /\ k <= n => cont[o][k] = "null"
    BY <1>4, <1>5 DEF StackOK
  <2>2. /\ 1 <= n - 1 /\ n - 1 <= n - 1
        /\ (n - 1 < Depth => fr'[o][n - 1 + 1] = "none")
    <3>1. n - 1 < Depth => n - 1 + 1 \in Levels
      BY <1>4, <1>6 DEF Levels
    <3>2. n - 1 + 1 # n - 1 /\ n + 1 # n
      BY <1>4, <1>6
    <3> QED BY <1>4, <1>6, <1>7, <1>8, <3>1, <3>2
  <2>3. ASSUME NEW k \in Levels, n - 1 < k, k <= n - 1
        PROVE  cont'[o][k] = "null"
    <3>1. k \in 1..Depth
      BY DEF Levels
    <3> QED BY <1>4, <1>6, <1>8, <2>1, <2>3, <3>1
  <2> QED BY <1>4, <1>9, <2>2, <2>3 DEF StackOK
<1>17. FramesOK'
  <2> SUFFICES ASSUME NEW p \in Ops, NEW k \in Levels
               PROVE  FrameOK(p, k)'
    BY DEF FramesOK
  <2>1. /\ FrameOK(p, k) /\ k \in 1..Depth
        /\ k < Depth => k + 1 \in Levels
        /\ k > 1 => k - 1 \in Levels
    BY <1>1 DEF FramesOK, Levels
  <2>2. fr'[p][k] \in {"none", "done"} /\ k < Depth => fr'[p][k + 1] = "none"
    BY <1>4, <1>6, <1>7, <2>1 DEF FrameOK
  <2>3. /\ (fr'[p][k] = "none" => cont'[p][k] = "null")
        /\ (fr'[p][k] = "done" <=> cont'[p][k] = "done")
    BY <1>4, <1>6, <1>7, <1>8, <2>1 DEF FrameOK
  <2>4. fr'[p][k] = "run" => \E u \in Threads : OnStack(u, p, k)'
    <3>1. OnStack(t, o, n - 1)'
      BY <1>4, <1>6, <1>11
    <3> QED BY <1>4, <1>6, <1>7, <1>11, <2>1, <3>1 DEF FrameOK
  <2>5. cont'[p][k] = "parent" => k > 1 /\ fr'[p][k - 1] = "susp"
    <3>1. k > 1 => (k = n + 1 <=> k - 1 = n) /\ (k = n <=> k - 1 = n - 1) /\ k # k - 1
      BY <1>4, <2>1
    <3> QED BY <1>4, <1>6, <1>7, <1>8, <2>1, <3>1 DEF FrameOK
  <2>6. owner'[p] = NoThread /\ k = 1 => fr'[p][k] = "none"
    <3>1. k = 1 => k # n + 1 /\ (k = n => fr[p][k] = "run" \/ p # o)
      BY <1>4, <2>1
    <3>2. owner[p] = NoThread /\ k = 1 => fr[p][k] = "none"
      BY <2>1 DEF FrameOK
    <3> QED BY <1>3, <1>4, <1>6, <1>7, <2>1, <3>1, <3>2, SMTT(30)
  <2> QED BY <2>2, <2>3, <2>4, <2>5, <2>6 DEF FrameOK
<1> QED BY <1>12, <1>13, <1>14, <1>15, <1>16, <1>17 DEF TaskInv, StacksOK

\* Return, before the parent is registered.
LEMMA ReturnAlone ==
  ASSUME TaskInv, NEW t \in Threads, cont[th[t].op][th[t].lvl] = "null", Return(t)
  PROVE  TaskInv'
<1> SUFFICES ASSUME NEW o, NEW b, NEW n, o = th[t].op, b = th[t].base, n = th[t].lvl
             PROVE  TaskInv'
  OBVIOUS
<1>1. /\ TaskTypeOK /\ OneRunner /\ NoLostParent /\ StacksOK /\ FramesOK
      /\ fr \in [Ops -> [Levels -> FrameType]]
      /\ cont \in [Ops -> [Levels -> ContType]]
      /\ th \in [Threads -> ThreadType]
  BY DEF TaskInv, TaskTypeOK
<1>2. th[t].at = "run" /\ th[t].at # "idle"
  BY DEF Return
<1>3. /\ fr' = [fr EXCEPT ![o][n] = "done"]
      /\ cont' = [cont EXCEPT ![o][n] = "done"]
      /\ th' = [th EXCEPT ![t] = Below(th[t])]
      /\ owner' = owner
  BY DEF Return
<1>4. /\ o \in Ops /\ o # NoOp /\ b \in Levels /\ n \in Levels /\ 1 <= b /\ b <= n
      /\ n \in 1..Depth /\ b \in 1..Depth /\ fr[o][n] = "run"
      /\ n > 1 => n - 1 \in Levels /\ fr[o][n - 1] # "none"
  BY <1>2, Busy, SMTT(30) DEF Levels
<1>5. StackOK(t) /\ FrameOK(o, n) /\ (n < Depth => FrameOK(o, n + 1))
  BY <1>1, <1>4 DEF StacksOK, FramesOK, Levels
<1>6. /\ n < Depth => fr[o][n + 1] = "none"
      /\ cont[o][n] = "null"
  BY <1>2, <1>4, <1>5, SMTT(30) DEF StackOK, FrameOK, Levels
<1>7. /\ fr' \in [Ops -> [Levels -> FrameType]]
      /\ \A p \in Ops, k \in Levels : fr'[p][k] = IF p = o /\ k = n THEN "done" ELSE fr[p][k]
  BY <1>1, <1>3, <1>4, <1>6, SMTT(30) DEF Levels, FrameType
<1>8. /\ cont' \in [Ops -> [Levels -> ContType]]
      /\ \A p \in Ops, k \in Levels : cont'[p][k] = IF p = o /\ k = n THEN "done" ELSE cont[p][k]
  BY <1>1, <1>3, <1>4, <1>6, SMTT(30) DEF Levels, ContType
<1>9. /\ th'[t].op = IF n > b THEN o ELSE NoOp
      /\ th'[t].base = IF n > b THEN b ELSE 0
      /\ th'[t].lvl = IF n > b THEN n - 1 ELSE 0
      /\ th'[t].at = IF n > b THEN "await" ELSE "idle"
  BY <1>1, <1>3, <1>4, <1>6 DEF Runs, Below, Idle
<1>10. \A u \in Threads : u # t => th'[u] = th[u]
  BY <1>1, <1>3
<1>11. /\ \A u \in Threads, p \in Ops, k \in Levels :
            OnStack(u, p, k)' <=> OnStack(u, p, k) /\ ~(p = o /\ k = n)
      /\ th' \in [Threads -> ThreadType]
  BY <1>2, <1>3, BelowStack, Zenon
<1>12. TaskTypeOK'
  BY <1>1, <1>3, <1>7, <1>8, <1>11 DEF TaskTypeOK
<1>13. OneRunner'
  BY <1>1, <1>4, <1>6, <1>7, <1>11 DEF OneRunner
<1>14. NoLostParent'
  <2> SUFFICES ASSUME NEW p \in Ops, NEW k \in 1..Depth - 1,
                      fr'[p][k] = "susp", fr'[p][k + 1] # "none"
               PROVE  cont'[p][k + 1] = "parent" /\ fr'[p][k + 1] \in {"run", "susp"}
    BY DEF NoLostParent
  <2>1. k \in Levels /\ k + 1 \in Levels
    BY DEF Levels
  <2>2. fr[p][k] = "susp" /\ fr[p][k + 1] # "none" =>
          cont[p][k + 1] = "parent" /\ fr[p][k + 1] \in {"run", "susp"}
    BY <1>1 DEF NoLostParent
  <2>3. fr[p][k + 1] \in FrameType
    BY <1>1, <2>1
  <2>4. (k + 1 = n <=> k = n - 1) /\ (k + 1 = n + 1 <=> k = n) /\ k + 1 # k
    BY <1>4
  <2> QED BY <1>4, <1>6, <1>7, <1>8, <2>1, <2>2, <2>3, <2>4 DEF FrameType
<1>15. ASSUME NEW u \in Threads, u # t
       PROVE  StackOK(u)'
  <2>1. \A p \in Ops, k \in Levels :
           p # o \/ k \notin {n - 1, n, n + 1} =>
              fr'[p][k] = fr[p][k] /\ cont'[p][k] = cont[p][k]
    BY <1>7, <1>8
  <2>2. n > 1 => /\ cont'[o][n - 1] = cont[o][n - 1]
                 /\ fr[o][n - 1] # "none" /\ fr'[o][n - 1] # "none"
                 /\ fr[o][n - 1] = "run" => fr'[o][n] # "none" /\ cont'[o][n] # "parent"
    <3>1. n > 1 => n # n - 1 /\ n + 1 # n - 1 /\ n # n + 1
      BY <1>4
    <3>2. cont[o][n] = "parent" => fr[o][n - 1] = "susp"
      BY <1>5, SMTT(30) DEF FrameOK
    <3> QED BY <1>4, <1>6, <1>7, <1>8, <3>1, <3>2, SMTT(30)
  <2>3. th'[u] = th[u]
    BY <1>10, <1>15
  <2> QED BY <1>2, <1>15, <2>1, <2>2, <2>3, OthersKept, SMTT(30)
<1>16. StackOK(t)'
  <2>1. \A k \in Levels : b < k /\ k <= n => cont[o][k] = "null"
    BY <1>4, <1>5, SMTT(30) DEF StackOK
  <2>2. CASE n > b
    <3>1. 1 <= b /\ b <= n - 1 /\ n - 1 < Depth /\ (n - 1) + 1 = n
      BY <1>4, <2>2
    <3>2. fr'[o][n] # "none" /\ cont'[o][n] # "parent"
      BY <1>4, <1>6, <1>7, <1>8, <2>1, <2>2, SMTT(30)
    <3>3. ASSUME NEW k \in Levels, b < k, k <= n - 1
          PROVE  cont'[o][k] = "null"
      <4>1. k \in 1..Depth
        BY DEF Levels
      <4> QED BY <1>4, <1>6, <1>8, <2>1, <3>3, <4>1
    <3> QED BY <1>4, <1>9, <2>2, <3>1, <3>2, <3>3, SMTT(30) DEF StackOK
  <2>3. CASE ~(n > b)
    BY <1>9, <2>3, SMTT(30) DEF StackOK
  <2> QED BY <2>2, <2>3
<1>17. FramesOK'
  <2> SUFFICES ASSUME NEW p \in Ops, NEW k \in Levels
               PROVE  FrameOK(p, k)'
    BY DEF FramesOK
  <2>1. /\ FrameOK(p, k) /\ k \in 1..Depth
        /\ k < Depth => k + 1 \in Levels
        /\ k > 1 => k - 1 \in Levels
    BY <1>1 DEF FramesOK, Levels
  <2>2. fr'[p][k] \in {"none", "done"} /\ k < Depth => fr'[p][k + 1] = "none"
    BY <1>4, <1>6, <1>7, <2>1, SMTT(30) DEF FrameOK
  <2>3. /\ (fr'[p][k] = "none" => cont'[p][k] = "null")
        /\ (fr'[p][k] = "done" <=> cont'[p][k] = "done")
    BY <1>4, <1>6, <1>7, <1>8, <2>1, SMTT(30) DEF FrameOK
  <2>4. fr'[p][k] = "run" => \E u \in Threads : OnStack(u, p, k)'
    BY <1>4, <1>6, <1>7, <1>11, <2>1, SMTT(30) DEF FrameOK
  <2>5. cont'[p][k] = "parent" => k > 1 /\ fr'[p][k - 1] = "susp"
    <3>1. k > 1 => (k = n + 1 <=> k - 1 = n) /\ (k = n <=> k - 1 = n - 1) /\ k # k - 1
      BY <1>4, <2>1
    <3> QED BY <1>4, <1>6, <1>7, <1>8, <2>1, <3>1, SMTT(30) DEF FrameOK
  <2>6. owner'[p] = NoThread /\ k = 1 => fr'[p][k] = "none"
    <3>1. k = 1 => k # n + 1 /\ (k = n => fr[p][k] = "run" \/ p # o)
      BY <1>4, <2>1
    <3>2. owner[p] = NoThread /\ k = 1 => fr[p][k] = "none"
      BY <2>1 DEF FrameOK
    <3> QED BY <1>3, <1>4, <1>6, <1>7, <2>1, <3>1, <3>2, SMTT(30)
  <2> QED BY <2>2, <2>3, <2>4, <2>5, <2>6 DEF FrameOK
<1> QED BY <1>12, <1>13, <1>14, <1>15, <1>16, <1>17 DEF TaskInv, StacksOK

\* The parent goes on because the child has completed.
LEMMA ResumedPreserves ==
  ASSUME TaskInv, NEW t \in Threads, th[t].at \in {"await", "suspend"}, Resumed(t, th[t]), UNCHANGED owner
  PROVE  TaskInv'
<1> SUFFICES ASSUME NEW o, NEW b, NEW n, o = th[t].op, b = th[t].base, n = th[t].lvl
             PROVE  TaskInv'
  OBVIOUS
<1>1. /\ TaskTypeOK /\ OneRunner /\ NoLostParent /\ StacksOK /\ FramesOK
      /\ fr \in [Ops -> [Levels -> FrameType]]
      /\ cont \in [Ops -> [Levels -> ContType]]
      /\ th \in [Threads -> ThreadType]
  BY DEF TaskInv, TaskTypeOK
<1>2. th[t].at \in {"await", "suspend"} /\ th[t].at # "idle"
  BY DEF Resumed
<1>3. /\ fr' = [fr EXCEPT ![o][n + 1] = "none"]
      /\ cont' = [cont EXCEPT ![o][n + 1] = "null"]
      /\ th' = [th EXCEPT ![t] = Runs(o, b, n, "run")]
      /\ owner' = owner
  BY DEF Resumed
<1>4. /\ o \in Ops /\ o # NoOp /\ b \in Levels /\ n \in Levels /\ 1 <= b /\ b <= n
      /\ n \in 1..Depth /\ b \in 1..Depth /\ fr[o][n] = "run"
      /\ n > 1 => n - 1 \in Levels /\ fr[o][n - 1] # "none"
  BY <1>2, Busy, SMTT(30) DEF Levels
<1>5. StackOK(t) /\ FrameOK(o, n) /\ (n < Depth => FrameOK(o, n + 1))
  BY <1>1, <1>4 DEF StacksOK, FramesOK, Levels
<1>6. /\ n < Depth /\ n + 1 \in Levels /\ fr[o][n + 1] # "none" /\ cont[o][n + 1] # "parent"
      /\ fr[o][n + 1] = "done" /\ (n + 1 < Depth => fr[o][n + 1 + 1] = "none")
  <2>1. n < Depth /\ n + 1 \in Levels /\ fr[o][n + 1] # "none" /\ cont[o][n + 1] # "parent"
    BY <1>2, <1>4, <1>5, SMTT(30) DEF StackOK, Levels
  <2>2. cont[o][n + 1] = "done"
    BY DEF Resumed
  <2> QED BY <1>4, <1>5, <2>1, <2>2, SMTT(30) DEF FrameOK
<1>7. /\ fr' \in [Ops -> [Levels -> FrameType]]
      /\ \A p \in Ops, k \in Levels : fr'[p][k] = IF p = o /\ k = n + 1 THEN "none" ELSE fr[p][k]
  BY <1>1, <1>3, <1>4, <1>6, SMTT(30) DEF Levels, FrameType
<1>8. /\ cont' \in [Ops -> [Levels -> ContType]]
      /\ \A p \in Ops, k \in Levels : cont'[p][k] = IF p = o /\ k = n + 1 THEN "null" ELSE cont[p][k]
  BY <1>1, <1>3, <1>4, <1>6, SMTT(30) DEF Levels, ContType
<1>9. /\ th'[t].op = o
      /\ th'[t].base = b
      /\ th'[t].lvl = n
      /\ th'[t].at = "run"
  BY <1>1, <1>3, <1>4, <1>6 DEF Runs, Below, Idle
<1>10. \A u \in Threads : u # t => th'[u] = th[u]
  BY <1>1, <1>3
<1>11. /\ \A u \in Threads, p \in Ops, k \in Levels :
            OnStack(u, p, k)' <=> OnStack(u, p, k)
      /\ th' \in [Threads -> ThreadType]
  BY <1>2, <1>3, SameStack, Zenon
<1>12. TaskTypeOK'
  BY <1>1, <1>3, <1>7, <1>8, <1>11 DEF TaskTypeOK
<1>13. OneRunner'
  BY <1>1, <1>4, <1>6, <1>7, <1>11 DEF OneRunner
<1>14. NoLostParent'
  BY <1>1, <1>4, <1>6, <1>7, <1>8, SMTT(30) DEF NoLostParent, Levels, FrameType
<1>15. ASSUME NEW u \in Threads, u # t
       PROVE  StackOK(u)'
  <2>1. \A p \in Ops, k \in Levels :
           p # o \/ k \notin {n - 1, n, n + 1} =>
              fr'[p][k] = fr[p][k] /\ cont'[p][k] = cont[p][k]
    BY <1>7, <1>8
  <2>2. n > 1 => /\ cont'[o][n - 1] = cont[o][n - 1]
                 /\ fr[o][n - 1] # "none" /\ fr'[o][n - 1] # "none"
                 /\ fr[o][n - 1] = "run" => fr'[o][n] # "none" /\ cont'[o][n] # "parent"
    <3>1. n > 1 => n # n - 1 /\ n + 1 # n - 1 /\ n # n + 1
      BY <1>4
    <3>2. cont[o][n] = "parent" => fr[o][n - 1] = "susp"
      BY <1>5, SMTT(30) DEF FrameOK
    <3> QED BY <1>4, <1>6, <1>7, <1>8, <3>1, <3>2, SMTT(30)
  <2>3. th'[u] = th[u]
    BY <1>10, <1>15
  <2> QED BY <1>2, <1>15, <2>1, <2>2, <2>3, OthersKept, SMTT(30)
<1>16. StackOK(t)'
  <2>1. \A k \in Levels : b < k /\ k <= n => cont[o][k] = "null"
    BY <1>4, <1>5, SMTT(30) DEF StackOK
  <2>2. /\ 1 <= b /\ b <= n
        /\ (n < Depth => fr'[o][n + 1] = "none")
    <3>1. n < Depth => n + 1 \in Levels
      BY <1>4, <1>6, SMTT(30) DEF Levels
    <3>2. n + 1 # n /\ n + 1 # n
      BY <1>4, <1>6
    <3> QED BY <1>4, <1>6, <1>7, <1>8, <3>1, <3>2, SMTT(30)
  <2>3. ASSUME NEW k \in Levels, b < k, k <= n
        PROVE  cont'[o][k] = "null"
    <3>1. k \in 1..Depth
      BY DEF Levels
    <3> QED BY <1>4, <1>6, <1>8, <2>1, <2>3, <3>1, SMTT(30)
  <2> QED BY <1>4, <1>9, <2>2, <2>3, SMTT(30) DEF StackOK
<1>17. FramesOK'
  <2> SUFFICES ASSUME NEW p \in Ops, NEW k \in Levels
               PROVE  FrameOK(p, k)'
    BY DEF FramesOK
  <2>1. /\ FrameOK(p, k) /\ k \in 1..Depth
        /\ k < Depth => k + 1 \in Levels
        /\ k > 1 => k - 1 \in Levels
    BY <1>1 DEF FramesOK, Levels
  <2>2. fr'[p][k] \in {"none", "done"} /\ k < Depth => fr'[p][k + 1] = "none"
    BY <1>4, <1>6, <1>7, <2>1, SMTT(30) DEF FrameOK
  <2>3. /\ (fr'[p][k] = "none" => cont'[p][k] = "null")
        /\ (fr'[p][k] = "done" <=> cont'[p][k] = "done")
    BY <1>4, <1>6, <1>7, <1>8, <2>1, SMTT(30) DEF FrameOK
  <2>4. fr'[p][k] = "run" => \E u \in Threads : OnStack(u, p, k)'
    BY <1>4, <1>6, <1>7, <1>11, <2>1, SMTT(30) DEF FrameOK
  <2>5. cont'[p][k] = "parent" => k > 1 /\ fr'[p][k - 1] = "susp"
    <3>1. k > 1 => (k = n + 1 <=> k - 1 = n) /\ (k = n <=> k - 1 = n - 1) /\ k # k - 1
      BY <1>4, <2>1
    <3> QED BY <1>4, <1>6, <1>7, <1>8, <2>1, <3>1, SMTT(30) DEF FrameOK
  <2>6. owner'[p] = NoThread /\ k = 1 => fr'[p][k] = "none"
    <3>1. k = 1 => k # n + 1 /\ (k = n => fr[p][k] = "run" \/ p # o)
      BY <1>4, <2>1
    <3>2. owner[p] = NoThread /\ k = 1 => fr[p][k] = "none"
      BY <2>1 DEF FrameOK
    <3> QED BY <1>3, <1>4, <1>6, <1>7, <2>1, <3>1, <3>2, SMTT(30)
  <2> QED BY <2>2, <2>3, <2>4, <2>5, <2>6 DEF FrameOK
<1> QED BY <1>12, <1>13, <1>14, <1>15, <1>16, <1>17 DEF TaskInv, StacksOK

\* await_ready() with the child under way.
LEMMA AwaitReadyPreserves ==
  ASSUME TaskInv, NEW t \in Threads, AwaitReady(t), cont[th[t].op][th[t].lvl + 1] # "done"
  PROVE  TaskInv'
<1> SUFFICES ASSUME NEW o, NEW b, NEW n, o = th[t].op, b = th[t].base, n = th[t].lvl
             PROVE  TaskInv'
  OBVIOUS
<1>1. /\ TaskTypeOK /\ OneRunner /\ NoLostParent /\ StacksOK /\ FramesOK
      /\ fr \in [Ops -> [Levels -> FrameType]]
      /\ cont \in [Ops -> [Levels -> ContType]]
      /\ th \in [Threads -> ThreadType]
  BY DEF TaskInv, TaskTypeOK
<1>2. th[t].at = "await" /\ th[t].at # "idle"
  BY DEF AwaitReady, Resumed
<1>3. /\ fr' = fr
      /\ cont' = cont
      /\ th' = [th EXCEPT ![t] = Runs(o, b, n, "suspend")]
      /\ owner' = owner
  BY DEF AwaitReady, Resumed
<1>4. /\ o \in Ops /\ o # NoOp /\ b \in Levels /\ n \in Levels /\ 1 <= b /\ b <= n
      /\ n \in 1..Depth /\ b \in 1..Depth /\ fr[o][n] = "run"
      /\ n > 1 => n - 1 \in Levels /\ fr[o][n - 1] # "none"
  BY <1>2, Busy, SMTT(30) DEF Levels
<1>5. StackOK(t) /\ FrameOK(o, n) /\ (n < Depth => FrameOK(o, n + 1))
  BY <1>1, <1>4 DEF StacksOK, FramesOK, Levels
<1>6. /\ n < Depth /\ n + 1 \in Levels /\ fr[o][n + 1] # "none" /\ cont[o][n + 1] # "parent"
  BY <1>2, <1>4, <1>5, SMTT(30) DEF StackOK, FrameOK, Levels, Resumed
<1>7. /\ fr' \in [Ops -> [Levels -> FrameType]]
      /\ \A p \in Ops, k \in Levels : fr'[p][k] = fr[p][k]
  BY <1>1, <1>3, <1>4, <1>6 DEF Levels, FrameType
<1>8. /\ cont' \in [Ops -> [Levels -> ContType]]
      /\ \A p \in Ops, k \in Levels : cont'[p][k] = cont[p][k]
  BY <1>1, <1>3, <1>4, <1>6 DEF Levels, ContType
<1>9. /\ th'[t].op = o
      /\ th'[t].base = b
      /\ th'[t].lvl = n
      /\ th'[t].at = "suspend"
  BY <1>1, <1>3, <1>4, <1>6 DEF Runs, Below, Idle
<1>10. \A u \in Threads : u # t => th'[u] = th[u]
  BY <1>1, <1>3
<1>11. /\ \A u \in Threads, p \in Ops, k \in Levels :
            OnStack(u, p, k)' <=> OnStack(u, p, k)
      /\ th' \in [Threads -> ThreadType]
  BY <1>2, <1>3, SameStack, Zenon
<1>12. TaskTypeOK'
  BY <1>1, <1>3, <1>7, <1>8, <1>11 DEF TaskTypeOK
<1>13. OneRunner'
  BY <1>1, <1>4, <1>6, <1>7, <1>11 DEF OneRunner
<1>14. NoLostParent'
  BY <1>1, <1>4, <1>6, <1>7, <1>8, SMTT(30) DEF NoLostParent, Levels, FrameType
<1>15. ASSUME NEW u \in Threads, u # t
       PROVE  StackOK(u)'
  <2>1. \A p \in Ops, k \in Levels :
           p # o \/ k \notin {n - 1, n, n + 1} =>
              fr'[p][k] = fr[p][k] /\ cont'[p][k] = cont[p][k]
    BY <1>7, <1>8
  <2>2. n > 1 => /\ cont'[o][n - 1] = cont[o][n - 1]
                 /\ fr[o][n - 1] # "none" /\ fr'[o][n - 1] # "none"
                 /\ fr[o][n - 1] = "run" => fr'[o][n] # "none" /\ cont'[o][n] # "parent"
    <3>1. n > 1 => n # n - 1 /\ n + 1 # n - 1 /\ n # n + 1
      BY <1>4
    <3>2. cont[o][n] = "parent" => fr[o][n - 1] = "susp"
      BY <1>5, SMTT(30) DEF FrameOK
    <3> QED BY <1>4, <1>6, <1>7, <1>8, <3>1, <3>2, SMTT(30)
  <2>3. th'[u] = th[u]
    BY <1>10, <1>15
  <2> QED BY <1>2, <1>15, <2>1, <2>2, <2>3, OthersKept, SMTT(30)
<1>16. StackOK(t)'
  <2>1. \A k \in Levels : b < k /\ k <= n => cont[o][k] = "null"
    BY <1>4, <1>5, SMTT(30) DEF StackOK
  <2>2. /\ 1 <= b /\ b <= n
        /\ fr'[o][n + 1] # "none" /\ cont'[o][n + 1] # "parent" /\ n < Depth
    <3>1. n < Depth => n + 1 \in Levels
      BY <1>4, <1>6 DEF Levels
    <3>2. n + 1 # n /\ n + 1 # n
      BY <1>4, <1>6
    <3> QED BY <1>4, <1>6, <1>7, <1>8, <3>1, <3>2, SMTT(30)
  <2>3. ASSUME NEW k \in Levels, b < k, k <= n
        PROVE  cont'[o][k] = "null"
    <3>1. k \in 1..Depth
      BY DEF Levels
    <3> QED BY <1>4, <1>6, <1>8, <2>1, <2>3, <3>1
  <2> QED BY <1>4, <1>9, <2>2, <2>3, SMTT(30) DEF StackOK
<1>17. FramesOK'
  <2> SUFFICES ASSUME NEW p \in Ops, NEW k \in Levels
               PROVE  FrameOK(p, k)'
    BY DEF FramesOK
  <2>1. /\ FrameOK(p, k) /\ k \in 1..Depth
        /\ k < Depth => k + 1 \in Levels
        /\ k > 1 => k - 1 \in Levels
    BY <1>1 DEF FramesOK, Levels
  <2>2. fr'[p][k] \in {"none", "done"} /\ k < Depth => fr'[p][k + 1] = "none"
    BY <1>4, <1>6, <1>7, <2>1, SMTT(30) DEF FrameOK
  <2>3. /\ (fr'[p][k] = "none" => cont'[p][k] = "null")
        /\ (fr'[p][k] = "done" <=> cont'[p][k] = "done")
    BY <1>4, <1>6, <1>7, <1>8, <2>1, SMTT(30) DEF FrameOK
  <2>4. fr'[p][k] = "run" => \E u \in Threads : OnStack(u, p, k)'
    BY <1>4, <1>6, <1>7, <1>11, <2>1, SMTT(30) DEF FrameOK
  <2>5. cont'[p][k] = "parent" => k > 1 /\ fr'[p][k - 1] = "susp"
    <3>1. k > 1 => (k = n + 1 <=> k - 1 = n) /\ (k = n <=> k - 1 = n - 1) /\ k # k - 1
      BY <1>4, <2>1, SMTT(30)
    <3> QED BY <1>4, <1>6, <1>7, <1>8, <2>1, <3>1, SMTT(30) DEF FrameOK
  <2>6. owner'[p] = NoThread /\ k = 1 => fr'[p][k] = "none"
    <3>1. k = 1 => k # n + 1 /\ (k = n => fr[p][k] = "run" \/ p # o)
      BY <1>4, <2>1, SMTT(30)
    <3>2. owner[p] = NoThread /\ k = 1 => fr[p][k] = "none"
      BY <2>1 DEF FrameOK
    <3> QED BY <1>3, <1>4, <1>6, <1>7, <2>1, <3>1, <3>2, SMTT(30)
  <2> QED BY <2>2, <2>3, <2>4, <2>5, <2>6 DEF FrameOK
<1> QED BY <1>12, <1>13, <1>14, <1>15, <1>16, <1>17 DEF TaskInv, StacksOK

\* await_suspend() with the child under way.
LEMMA AwaitSuspendPreserves ==
  ASSUME TaskInv, NEW t \in Threads, AwaitSuspend(t), cont[th[t].op][th[t].lvl + 1] # "done"
  PROVE  TaskInv'
<1> SUFFICES ASSUME NEW o, NEW b, NEW n, o = th[t].op, b = th[t].base, n = th[t].lvl
             PROVE  TaskInv'
  OBVIOUS
<1>1. /\ TaskTypeOK /\ OneRunner /\ NoLostParent /\ StacksOK /\ FramesOK
      /\ fr \in [Ops -> [Levels -> FrameType]]
      /\ cont \in [Ops -> [Levels -> ContType]]
      /\ th \in [Threads -> ThreadType]
  BY DEF TaskInv, TaskTypeOK
<1>2. th[t].at = "suspend" /\ th[t].at # "idle"
  BY SMTT(30) DEF AwaitSuspend, Resumed
<1>3. /\ fr' = [fr EXCEPT ![o][n] = "susp"]
      /\ cont' = [cont EXCEPT ![o][n + 1] = "parent"]
      /\ th' = [th EXCEPT ![t] = Below(th[t])]
      /\ owner' = owner
  BY SMTT(30) DEF AwaitSuspend, Resumed
<1>4. /\ o \in Ops /\ o # NoOp /\ b \in Levels /\ n \in Levels /\ 1 <= b /\ b <= n
      /\ n \in 1..Depth /\ b \in 1..Depth /\ fr[o][n] = "run"
      /\ n > 1 => n - 1 \in Levels /\ fr[o][n - 1] # "none"
  BY <1>2, Busy, SMTT(30) DEF Levels
<1>5. StackOK(t) /\ FrameOK(o, n) /\ (n < Depth => FrameOK(o, n + 1))
  BY <1>1, <1>4 DEF StacksOK, FramesOK, Levels
<1>6. /\ n < Depth /\ n + 1 \in Levels /\ fr[o][n + 1] # "none" /\ cont[o][n + 1] # "parent" /\ fr[o][n + 1] # "done"
  BY <1>2, <1>4, <1>5, SMTT(30) DEF StackOK, FrameOK, Levels, Resumed
<1>7. /\ fr' \in [Ops -> [Levels -> FrameType]]
      /\ \A p \in Ops, k \in Levels : fr'[p][k] = IF p = o /\ k = n THEN "susp" ELSE fr[p][k]
  BY <1>1, <1>3, <1>4, <1>6, SMTT(30) DEF Levels, FrameType
<1>8. /\ cont' \in [Ops -> [Levels -> ContType]]
      /\ \A p \in Ops, k \in Levels : cont'[p][k] = IF p = o /\ k = n + 1 THEN "parent" ELSE cont[p][k]
  BY <1>1, <1>3, <1>4, <1>6, SMTT(30) DEF Levels, ContType
<1>9. /\ th'[t].op = IF n > b THEN o ELSE NoOp
      /\ th'[t].base = IF n > b THEN b ELSE 0
      /\ th'[t].lvl = IF n > b THEN n - 1 ELSE 0
      /\ th'[t].at = IF n > b THEN "await" ELSE "idle"
  BY <1>1, <1>3, <1>4, <1>6 DEF Runs, Below, Idle
<1>10. \A u \in Threads : u # t => th'[u] = th[u]
  BY <1>1, <1>3
<1>11. /\ \A u \in Threads, p \in Ops, k \in Levels :
            OnStack(u, p, k)' <=> OnStack(u, p, k) /\ ~(p = o /\ k = n)
      /\ th' \in [Threads -> ThreadType]
  BY <1>2, <1>3, BelowStack, Zenon
<1>12. TaskTypeOK'
  BY <1>1, <1>3, <1>7, <1>8, <1>11, SMTT(30) DEF TaskTypeOK
<1>13. OneRunner'
  BY <1>1, <1>4, <1>6, <1>7, <1>11, SMTT(30) DEF OneRunner
<1>14. NoLostParent'
  BY <1>1, <1>4, <1>6, <1>7, <1>8, SMTT(30) DEF NoLostParent, Levels, FrameType
<1>15. ASSUME NEW u \in Threads, u # t
       PROVE  StackOK(u)'
  <2>1. \A p \in Ops, k \in Levels :
           p # o \/ k \notin {n - 1, n, n + 1} =>
              fr'[p][k] = fr[p][k] /\ cont'[p][k] = cont[p][k]
    BY <1>7, <1>8
  <2>2. n > 1 => /\ cont'[o][n - 1] = cont[o][n - 1]
                 /\ fr[o][n - 1] # "none" /\ fr'[o][n - 1] # "none"
                 /\ fr[o][n - 1] = "run" => fr'[o][n] # "none" /\ cont'[o][n] # "parent"
    <3>1. n > 1 => n # n - 1 /\ n + 1 # n - 1 /\ n # n + 1
      BY <1>4
    <3>2. cont[o][n] = "parent" => fr[o][n - 1] = "susp"
      BY <1>5 DEF FrameOK
    <3> QED BY <1>4, <1>6, <1>7, <1>8, <3>1, <3>2, SMTT(30)
  <2>3. th'[u] = th[u]
    BY <1>10, <1>15
  <2> QED BY <1>2, <1>15, <2>1, <2>2, <2>3, OthersKept, SMTT(30)
<1>16. StackOK(t)'
  <2>1. \A k \in Levels : b < k /\ k <= n => cont[o][k] = "null"
    BY <1>4, <1>5 DEF StackOK
  <2>2. CASE n > b
    <3>1. 1 <= b /\ b <= n - 1 /\ n - 1 < Depth /\ (n - 1) + 1 = n
      BY <1>4, <2>2
    <3>2. fr'[o][n] # "none" /\ cont'[o][n] # "parent"
      BY <1>4, <1>6, <1>7, <1>8, <2>1, <2>2, SMTT(30)
    <3>3. ASSUME NEW k \in Levels, b < k, k <= n - 1
          PROVE  cont'[o][k] = "null"
      <4>1. k \in 1..Depth
        BY DEF Levels
      <4> QED BY <1>4, <1>6, <1>8, <2>1, <3>3, <4>1, SMTT(30)
    <3> QED BY <1>4, <1>9, <2>2, <3>1, <3>2, <3>3, SMTT(30) DEF StackOK
  <2>3. CASE ~(n > b)
    BY <1>9, <2>3, SMTT(30) DEF StackOK
  <2> QED BY <2>2, <2>3
<1>17. FramesOK'
  <2> SUFFICES ASSUME NEW p \in Ops, NEW k \in Levels
               PROVE  FrameOK(p, k)'
    BY DEF FramesOK
  <2>1. /\ FrameOK(p, k) /\ k \in 1..Depth
        /\ k < Depth => k + 1 \in Levels
        /\ k > 1 => k - 1 \in Levels
    BY <1>1 DEF FramesOK, Levels
  <2>2. fr'[p][k] \in {"none", "done"} /\ k < Depth => fr'[p][k + 1] = "none"
    BY <1>4, <1>6, <1>7, <2>1, SMTT(30) DEF FrameOK
  <2>3. /\ (fr'[p][k] = "none" => cont'[p][k] = "null")
        /\ (fr'[p][k] = "done" <=> cont'[p][k] = "done")
    BY <1>4, <1>6, <1>7, <1>8, <2>1, SMTT(30) DEF FrameOK
  <2>4. fr'[p][k] = "run" => \E u \in Threads : OnStack(u, p, k)'
    BY <1>4, <1>6, <1>7, <1>11, <2>1, SMTT(30) DEF FrameOK
  <2>5. cont'[p][k] = "parent" => k > 1 /\ fr'[p][k - 1] = "susp"
    <3>1. k > 1 => (k = n + 1 <=> k - 1 = n) /\ (k = n <=> k - 1 = n - 1) /\ k # k - 1
      BY <1>4, <2>1
    <3> QED BY <1>4, <1>6, <1>7, <1>8, <2>1, <3>1, SMTT(30) DEF FrameOK
  <2>6. owner'[p] = NoThread /\ k = 1 => fr'[p][k] = "none"
    <3>1. k = 1 => k # n + 1 /\ (k = n => fr[p][k] = "run" \/ p # o)
      BY <1>4, <2>1
    <3>2. owner[p] = NoThread /\ k = 1 => fr[p][k] = "none"
      BY <2>1 DEF FrameOK
    <3> QED BY <1>3, <1>4, <1>6, <1>7, <2>1, <3>1, <3>2, SMTT(30)
  <2> QED BY <2>2, <2>3, <2>4, <2>5, <2>6 DEF FrameOK
<1> QED BY <1>12, <1>13, <1>14, <1>15, <1>16, <1>17 DEF TaskInv, StacksOK

\* A frame starts a child on its own stack (initial_suspend() never suspends).
LEMMA CallPreserves ==
  ASSUME TaskInv, NEW t \in Threads, Call(t)
  PROVE  TaskInv'
<1> SUFFICES ASSUME NEW o, NEW b, NEW n, o = th[t].op, b = th[t].base, n = th[t].lvl
             PROVE  TaskInv'
  OBVIOUS
<1>1. /\ TaskTypeOK /\ OneRunner /\ NoLostParent /\ StacksOK /\ FramesOK
      /\ fr \in [Ops -> [Levels -> FrameType]]
      /\ cont \in [Ops -> [Levels -> ContType]]
      /\ th \in [Threads -> ThreadType]
  BY DEF TaskInv, TaskTypeOK
<1>2. th[t].at = "run" /\ th[t].at # "idle"
  BY DEF Call
<1>3. /\ fr' = [fr EXCEPT ![o][n + 1] = "run"]
      /\ cont' = cont
      /\ th' = [th EXCEPT ![t] = Runs(o, b, n + 1, "run")]
      /\ owner' = owner
  BY DEF Call
<1>4. /\ o \in Ops /\ o # NoOp /\ b \in Levels /\ n \in Levels /\ 1 <= b /\ b <= n
      /\ n \in 1..Depth /\ b \in 1..Depth /\ fr[o][n] = "run"
      /\ n > 1 => n - 1 \in Levels /\ fr[o][n - 1] # "none"
  BY <1>2, Busy, SMTT(30) DEF Levels
<1>5. StackOK(t) /\ FrameOK(o, n) /\ (n < Depth => FrameOK(o, n + 1))
  BY <1>1, <1>4 DEF StacksOK, FramesOK, Levels
<1>6. /\ n < Depth /\ n + 1 \in Levels /\ fr[o][n + 1] = "none" /\ cont[o][n + 1] = "null"
      /\ n + 1 < Depth => fr[o][n + 1 + 1] = "none"
  <2>1. n < Depth /\ n + 1 \in Levels /\ fr[o][n + 1] = "none"
    BY <1>2, <1>4, <1>5, SMTT(30) DEF Call, StackOK, Levels
  <2> QED BY <1>4, <1>5, <2>1, SMTT(30) DEF FrameOK
<1>7. /\ fr' \in [Ops -> [Levels -> FrameType]]
      /\ \A p \in Ops, k \in Levels : fr'[p][k] = IF p = o /\ k = n + 1 THEN "run" ELSE fr[p][k]
  BY <1>1, <1>3, <1>4, <1>6, SMTT(30) DEF Levels, FrameType
<1>8. /\ cont' \in [Ops -> [Levels -> ContType]]
      /\ \A p \in Ops, k \in Levels : cont'[p][k] = cont[p][k]
  BY <1>1, <1>3, <1>4, <1>6 DEF Levels, ContType
<1>9. /\ th'[t].op = o
      /\ th'[t].base = b
      /\ th'[t].lvl = n + 1
      /\ th'[t].at = "run"
  BY <1>1, <1>3, <1>4, <1>6, SMTT(30) DEF Runs, Below, Idle
<1>10. \A u \in Threads : u # t => th'[u] = th[u]
  BY <1>1, <1>3
<1>11. /\ \A u \in Threads, p \in Ops, k \in Levels :
            OnStack(u, p, k)' <=> OnStack(u, p, k) \/ (u = t /\ p = o /\ k = n + 1)
      /\ th' \in [Threads -> ThreadType]
  <2>1. th[t].lvl < Depth
    BY <1>6
  <2>2. th' = [th EXCEPT ![t] = Runs(th[t].op, th[t].base, th[t].lvl + 1, "run")]
    BY <1>3
  <2> QED BY <1>2, <2>1, <2>2, CallStack, Zenon
<1>12. TaskTypeOK'
  BY <1>1, <1>3, <1>7, <1>8, <1>11 DEF TaskTypeOK
<1>13. OneRunner'
  BY <1>1, <1>4, <1>6, <1>7, <1>11, SMTT(30) DEF OneRunner
<1>14. NoLostParent'
  <2> SUFFICES ASSUME NEW p \in Ops, NEW k \in 1..Depth - 1,
                      fr'[p][k] = "susp", fr'[p][k + 1] # "none"
               PROVE  cont'[p][k + 1] = "parent" /\ fr'[p][k + 1] \in {"run", "susp"}
    BY DEF NoLostParent
  <2>1. k \in Levels /\ k + 1 \in Levels
    BY DEF Levels
  <2>2. fr[p][k] = "susp" /\ fr[p][k + 1] # "none" =>
          cont[p][k + 1] = "parent" /\ fr[p][k + 1] \in {"run", "susp"}
    BY <1>1 DEF NoLostParent
  <2>3. fr[p][k + 1] \in FrameType
    BY <1>1, <2>1
  <2>4. (k + 1 = n <=> k = n - 1) /\ (k + 1 = n + 1 <=> k = n) /\ k + 1 # k
    BY <1>4
  <2> QED BY <1>4, <1>6, <1>7, <1>8, <2>1, <2>2, <2>3, <2>4, SMTT(30) DEF FrameType
<1>15. ASSUME NEW u \in Threads, u # t
       PROVE  StackOK(u)'
  <2>1. \A p \in Ops, k \in Levels :
           p # o \/ k \notin {n - 1, n, n + 1} =>
              fr'[p][k] = fr[p][k] /\ cont'[p][k] = cont[p][k]
    BY <1>7, <1>8
  <2>2. n > 1 => /\ cont'[o][n - 1] = cont[o][n - 1]
                 /\ fr[o][n - 1] # "none" /\ fr'[o][n - 1] # "none"
                 /\ fr[o][n - 1] = "run" => fr'[o][n] # "none" /\ cont'[o][n] # "parent"
    <3>1. n > 1 => n # n - 1 /\ n + 1 # n - 1 /\ n # n + 1
      BY <1>4
    <3>2. cont[o][n] = "parent" => fr[o][n - 1] = "susp"
      BY <1>5, SMTT(30) DEF FrameOK
    <3> QED BY <1>4, <1>6, <1>7, <1>8, <3>1, <3>2, SMTT(30)
  <2>3. th'[u] = th[u]
    BY <1>10, <1>15
  <2> QED BY <1>2, <1>15, <2>1, <2>2, <2>3, OthersKept, SMTT(30)
<1>16. StackOK(t)'
  <2>1. \A k \in Levels : b < k /\ k <= n => cont[o][k] = "null"
    BY <1>4, <1>5, SMTT(30) DEF StackOK
  <2>2. /\ 1 <= b /\ b <= n + 1
        /\ (n + 1 < Depth => fr'[o][n + 1 + 1] = "none")
    <3>1. n + 1 < Depth => n + 1 + 1 \in Levels
      BY <1>4, <1>6, SMTT(30) DEF Levels
    <3>2. n + 1 + 1 # n + 1 /\ n + 1 # n
      BY <1>4, <1>6, SMTT(30)
    <3> QED BY <1>4, <1>6, <1>7, <1>8, <3>1, <3>2, SMTT(30)
  <2>3. ASSUME NEW k \in Levels, b < k, k <= n + 1
        PROVE  cont'[o][k] = "null"
    <3>1. k \in 1..Depth
      BY DEF Levels
    <3> QED BY <1>4, <1>6, <1>8, <2>1, <2>3, <3>1, SMTT(30)
  <2> QED BY <1>4, <1>9, <2>2, <2>3, SMTT(30) DEF StackOK
<1>17. FramesOK'
  <2> SUFFICES ASSUME NEW p \in Ops, NEW k \in Levels
               PROVE  FrameOK(p, k)'
    BY DEF FramesOK
  <2>1. /\ FrameOK(p, k) /\ k \in 1..Depth
        /\ k < Depth => k + 1 \in Levels
        /\ k > 1 => k - 1 \in Levels
    BY <1>1 DEF FramesOK, Levels
  <2>2. fr'[p][k] \in {"none", "done"} /\ k < Depth => fr'[p][k + 1] = "none"
    BY <1>4, <1>6, <1>7, <2>1, SMTT(30) DEF FrameOK
  <2>3. /\ (fr'[p][k] = "none" => cont'[p][k] = "null")
        /\ (fr'[p][k] = "done" <=> cont'[p][k] = "done")
    BY <1>4, <1>6, <1>7, <1>8, <2>1, SMTT(30) DEF FrameOK
  <2>4. fr'[p][k] = "run" => \E u \in Threads : OnStack(u, p, k)'
    <3>1. OnStack(t, o, n + 1)'
      BY <1>4, <1>6, <1>11, SMTT(30)
    <3> QED BY <1>4, <1>6, <1>7, <1>11, <2>1, <3>1, SMTT(30) DEF FrameOK
  <2>5. cont'[p][k] = "parent" => k > 1 /\ fr'[p][k - 1] = "susp"
    <3>1. k > 1 => (k = n + 1 <=> k - 1 = n) /\ (k = n <=> k - 1 = n - 1) /\ k # k - 1
      BY <1>4, <2>1
    <3> QED BY <1>4, <1>6, <1>7, <1>8, <2>1, <3>1, SMTT(30) DEF FrameOK
  <2>6. owner'[p] = NoThread /\ k = 1 => fr'[p][k] = "none"
    <3>1. k = 1 => k # n + 1 /\ (k = n => fr[p][k] = "run" \/ p # o)
      BY <1>4, <2>1, SMTT(30)
    <3>2. owner[p] = NoThread /\ k = 1 => fr[p][k] = "none"
      BY <2>1 DEF FrameOK
    <3> QED BY <1>3, <1>4, <1>6, <1>7, <2>1, <3>1, <3>2, SMTT(30)
  <2> QED BY <2>2, <2>3, <2>4, <2>5, <2>6, SMTT(30) DEF FrameOK
<1> QED BY <1>12, <1>13, <1>14, <1>15, <1>16, <1>17 DEF TaskInv, StacksOK

\* A frame suspends for I/O, a socket or space: its thread goes back to the
\* frame that started it, or leaves the operation.
LEMMA SuspendPreserves ==
  ASSUME TaskInv, NEW t \in Threads, Suspend(t)
  PROVE  TaskInv'
<1> SUFFICES ASSUME NEW o, NEW b, NEW n, o = th[t].op, b = th[t].base, n = th[t].lvl
             PROVE  TaskInv'
  OBVIOUS
<1>1. /\ TaskTypeOK /\ OneRunner /\ NoLostParent /\ StacksOK /\ FramesOK
      /\ fr \in [Ops -> [Levels -> FrameType]]
      /\ cont \in [Ops -> [Levels -> ContType]]
      /\ th \in [Threads -> ThreadType]
  BY DEF TaskInv, TaskTypeOK
<1>2. th[t].at = "run" /\ th[t].at # "idle"
  BY DEF Suspend
<1>3. /\ fr' = [fr EXCEPT ![o][n] = "susp"]
      /\ cont' = cont
      /\ th' = [th EXCEPT ![t] = Below(th[t])]
      /\ owner' = owner
  BY DEF Suspend
<1>4. /\ o \in Ops /\ o # NoOp /\ b \in Levels /\ n \in Levels /\ 1 <= b /\ b <= n
      /\ n \in 1..Depth /\ b \in 1..Depth /\ fr[o][n] = "run"
      /\ n > 1 => n - 1 \in Levels /\ fr[o][n - 1] # "none"
  BY <1>2, Busy DEF Levels
<1>5. StackOK(t) /\ FrameOK(o, n) /\ (n < Depth => FrameOK(o, n + 1))
  BY <1>1, <1>4 DEF StacksOK, FramesOK, Levels
<1>6. /\ n < Depth => fr[o][n + 1] = "none"
  BY <1>2, <1>4, <1>5, SMTT(30) DEF StackOK, FrameOK, Levels
<1>7. /\ fr' \in [Ops -> [Levels -> FrameType]]
      /\ \A p \in Ops, k \in Levels : fr'[p][k] = IF p = o /\ k = n THEN "susp" ELSE fr[p][k]
  BY <1>1, <1>3, <1>4, <1>6 DEF Levels, FrameType
<1>8. /\ cont' \in [Ops -> [Levels -> ContType]]
      /\ \A p \in Ops, k \in Levels : cont'[p][k] = cont[p][k]
  BY <1>1, <1>3, <1>4, <1>6 DEF Levels, ContType
<1>9. /\ th'[t].op = IF n > b THEN o ELSE NoOp
      /\ th'[t].base = IF n > b THEN b ELSE 0
      /\ th'[t].lvl = IF n > b THEN n - 1 ELSE 0
      /\ th'[t].at = IF n > b THEN "await" ELSE "idle"
  BY <1>1, <1>3, <1>4, <1>6 DEF Runs, Below, Idle
<1>10. \A u \in Threads : u # t => th'[u] = th[u]
  BY <1>1, <1>3
<1>11. /\ \A u \in Threads, p \in Ops, k \in Levels :
            OnStack(u, p, k)' <=> OnStack(u, p, k) /\ ~(p = o /\ k = n)
      /\ th' \in [Threads -> ThreadType]
  BY <1>2, <1>3, BelowStack, Zenon
<1>12. TaskTypeOK'
  BY <1>1, <1>3, <1>7, <1>8, <1>11 DEF TaskTypeOK
<1>13. OneRunner'
  BY <1>1, <1>4, <1>6, <1>7, <1>11 DEF OneRunner
<1>14. NoLostParent'
  BY <1>1, <1>4, <1>6, <1>7, <1>8, SMTT(30) DEF NoLostParent, Levels, FrameType
<1>15. ASSUME NEW u \in Threads, u # t
       PROVE  StackOK(u)'
  <2>1. \A p \in Ops, k \in Levels :
           p # o \/ k \notin {n - 1, n, n + 1} =>
              fr'[p][k] = fr[p][k] /\ cont'[p][k] = cont[p][k]
    BY <1>7, <1>8
  <2>2. n > 1 => /\ cont'[o][n - 1] = cont[o][n - 1]
                 /\ fr[o][n - 1] # "none" /\ fr'[o][n - 1] # "none"
                 /\ fr[o][n - 1] = "run" => fr'[o][n] # "none" /\ cont'[o][n] # "parent"
    <3>1. n > 1 => n # n - 1 /\ n + 1 # n - 1 /\ n # n + 1
      BY <1>4
    <3>2. cont[o][n] = "parent" => fr[o][n - 1] = "susp"
      BY <1>5 DEF FrameOK
    <3> QED BY <1>4, <1>6, <1>7, <1>8, <3>1, <3>2, SMTT(30)
  <2>3. th'[u] = th[u]
    BY <1>10, <1>15
  <2> QED BY <1>2, <1>15, <2>1, <2>2, <2>3, OthersKept
<1>16. StackOK(t)'
  <2>1. \A k \in Levels : b < k /\ k <= n => cont[o][k] = "null"
    BY <1>4, <1>5 DEF StackOK
  <2>2. CASE n > b
    <3>1. 1 <= b /\ b <= n - 1 /\ n - 1 < Depth /\ (n - 1) + 1 = n
      BY <1>4, <2>2
    <3>2. fr'[o][n] # "none" /\ cont'[o][n] # "parent"
      BY <1>4, <1>6, <1>7, <1>8, <2>1, <2>2, SMTT(30)
    <3>3. ASSUME NEW k \in Levels, b < k, k <= n - 1
          PROVE  cont'[o][k] = "null"
      <4>1. k \in 1..Depth
        BY DEF Levels
      <4> QED BY <1>4, <1>6, <1>8, <2>1, <3>3, <4>1, SMTT(30)
    <3> QED BY <1>4, <1>9, <2>2, <3>1, <3>2, <3>3, SMTT(30) DEF StackOK
  <2>3. CASE ~(n > b)
    BY <1>9, <2>3, SMTT(30) DEF StackOK
  <2> QED BY <2>2, <2>3
<1>17. FramesOK'
  <2> SUFFICES ASSUME NEW p \in Ops, NEW k \in Levels
               PROVE  FrameOK(p, k)'
    BY DEF FramesOK
  <2>1. /\ FrameOK(p, k) /\ k \in 1..Depth
        /\ k < Depth => k + 1 \in Levels
        /\ k > 1 => k - 1 \in Levels
    BY <1>1 DEF FramesOK, Levels
  <2>2. fr'[p][k] \in {"none", "done"} /\ k < Depth => fr'[p][k + 1] = "none"
    BY <1>4, <1>6, <1>7, <2>1, SMTT(30) DEF FrameOK
  <2>3. /\ (fr'[p][k] = "none" => cont'[p][k] = "null")
        /\ (fr'[p][k] = "done" <=> cont'[p][k] = "done")
    BY <1>4, <1>6, <1>7, <1>8, <2>1, SMTT(30) DEF FrameOK
  <2>4. fr'[p][k] = "run" => \E u \in Threads : OnStack(u, p, k)'
    BY <1>4, <1>6, <1>7, <1>11, <2>1, SMTT(30) DEF FrameOK
  <2>5. cont'[p][k] = "parent" => k > 1 /\ fr'[p][k - 1] = "susp"
    <3>1. k > 1 => (k = n + 1 <=> k - 1 = n) /\ (k = n <=> k - 1 = n - 1) /\ k # k - 1
      BY <1>4, <2>1
    <3> QED BY <1>4, <1>6, <1>7, <1>8, <2>1, <3>1, SMTT(30) DEF FrameOK
  <2>6. owner'[p] = NoThread /\ k = 1 => fr'[p][k] = "none"
    <3>1. k = 1 => k # n + 1 /\ (k = n => fr[p][k] = "run" \/ p # o)
      BY <1>4, <2>1
    <3>2. owner[p] = NoThread /\ k = 1 => fr[p][k] = "none"
      BY <2>1 DEF FrameOK
    <3> QED BY <1>3, <1>4, <1>6, <1>7, <2>1, <3>1, <3>2, SMTT(30)
  <2> QED BY <2>2, <2>3, <2>4, <2>5, <2>6 DEF FrameOK
<1> QED BY <1>12, <1>13, <1>14, <1>15, <1>16, <1>17 DEF TaskInv, StacksOK

\* The invariant holds before any coroutine is called.
LEMMA InitInv == TaskInit => TaskInv
BY SMTT(30) DEF TaskInit, TaskInv, TaskTypeOK, OneRunner, NoLostParent, StacksOK, StackOK, FramesOK, FrameOK,
       OnStack, Idle, Levels, FrameType, ContType, ThreadType

\* A thread calls a coroutine it will drive with run_sync().
LEMMA StartPreserves ==
  ASSUME TaskInv, NEW t \in Threads, NEW o \in Ops, Start(t, o)
  PROVE  TaskInv'
<1> USE DEF Start, TaskInv, StacksOK, StackOK, FramesOK, FrameOK, OnStack, Runs, Levels
<1>1. TaskTypeOK'
  BY SMTT(30) DEF TaskTypeOK, FrameType, ThreadType
<1>2. OneRunner'
  BY SMTT(30) DEF OneRunner, TaskTypeOK, FrameType, ThreadType
<1>3. NoLostParent'
  BY SMTT(30) DEF NoLostParent, TaskTypeOK, FrameType
<1>4. StacksOK'
  BY SMTT(30) DEF OneRunner, TaskTypeOK, FrameType, ThreadType
<1>5. FramesOK'
  BY SMTT(30) DEF TaskTypeOK, FrameType, ThreadType
<1> QED BY <1>1, <1>2, <1>3, <1>4, <1>5, Zenon

\* A thread that polls resumes the last frame of an operation.
LEMMA ResumePreserves ==
  ASSUME TaskInv, NEW t \in Threads, NEW o \in Ops, NEW l \in Levels, Resume(t, o, l)
  PROVE  TaskInv'
<1> USE DEF Resume, Leaf, TaskInv, StacksOK, StackOK, FramesOK, FrameOK, OnStack, Runs, Levels
<1>1. TaskTypeOK'
  BY SMTT(30) DEF TaskTypeOK, FrameType, ThreadType
<1>2. OneRunner'
  BY SMTT(30) DEF OneRunner, TaskTypeOK, FrameType, ThreadType
<1>3. NoLostParent'
  BY SMTT(30) DEF NoLostParent, TaskTypeOK, FrameType
<1>4. StacksOK'
  BY SMTT(30) DEF OneRunner, TaskTypeOK, FrameType, ThreadType
<1>5. FramesOK'
  BY SMTT(30) DEF TaskTypeOK, FrameType, ThreadType
<1> QED BY <1>1, <1>2, <1>3, <1>4, <1>5, Zenon

\* run_sync() sees completed_tag() and destroys the frame.
LEMMA RunSyncPreserves ==
  ASSUME TaskInv, NEW t \in Threads, NEW o \in Ops, RunSync(t, o)
  PROVE  TaskInv'
<1> USE DEF RunSync, TaskInv, StacksOK, StackOK, FramesOK, FrameOK, OnStack, Levels
<1>1. TaskTypeOK'
  BY SMTT(30) DEF TaskTypeOK, FrameType, ContType, ThreadType
<1>2. OneRunner'
  BY SMTT(30) DEF OneRunner, TaskTypeOK, FrameType, ThreadType
<1>3. NoLostParent'
  BY SMTT(30) DEF NoLostParent, TaskTypeOK, FrameType
<1>4. StacksOK'
  BY SMTT(30) DEF OneRunner, TaskTypeOK, FrameType, ThreadType
<1>5. FramesOK'
  BY SMTT(30) DEF TaskTypeOK, FrameType, ThreadType
<1> QED BY <1>1, <1>2, <1>3, <1>4, <1>5, Zenon

\* The inductive invariant holds of every behaviour of CoroTask.
THEOREM TaskInvariant == TaskSpec => []TaskInv
<1>1. TaskInv /\ [TaskNext]_taskVars => TaskInv'
  <2> SUFFICES ASSUME TaskInv, [TaskNext]_taskVars PROVE TaskInv'
    OBVIOUS
  <2>1. CASE UNCHANGED taskVars
    BY <2>1, SMTT(30) DEF taskVars, TaskInv, TaskTypeOK, OneRunner, NoLostParent, StacksOK, StackOK,
                FramesOK, FrameOK, OnStack
  <2>2. ASSUME NEW t \in Threads, Return(t) PROVE TaskInv'
    BY <2>2, ReturnToParent, ReturnAlone, Zenon DEF Return
  <2>3. ASSUME NEW t \in Threads, AwaitReady(t) PROVE TaskInv'
    BY <2>3, ResumedPreserves, AwaitReadyPreserves, Zenon DEF AwaitReady
  <2>4. ASSUME NEW t \in Threads, AwaitSuspend(t) PROVE TaskInv'
    BY <2>4, ResumedPreserves, AwaitSuspendPreserves DEF AwaitSuspend
  <2> QED BY <2>1, <2>2, <2>3, <2>4, CallPreserves, SuspendPreserves, StartPreserves,
             ResumePreserves, RunSyncPreserves DEF TaskNext
<1> QED BY <1>1, InitInv, PTL DEF TaskSpec

\* However many operations, threads and levels: whichever threads start, finish
\* and resume the frames, no frame is entered twice or used after its end, and no
\* parent that suspends is forgotten by its child (CoroTask's two exchanges).
THEOREM FramesSafe == TaskSpec => []FrameSafety
<1>1. TaskInv => FrameSafety
  BY DEF TaskInv, FrameSafety
<1> QED BY <1>1, TaskInvariant, PTL
===============================================================================
