------------------------------- MODULE Cache -------------------------------
(***************************************************************************)
(* What the memcache server promises its clients about one key: every      *)
(* command takes effect at one moment.  A lookup answers from the item of  *)
(* one moment, unless that has expired; an update works on the item the    *)
(* key holds at that moment, whatever the command read before; and only an *)
(* expired item goes without a command.  A command during which the store  *)
(* fails changes nothing.                                                  *)
(***************************************************************************)
EXTENDS MemcacheValues

VARIABLES item,     \* the key's item, as a set of at most one [val, exp]
          call,     \* per client: its command
          now,
          errs      \* how many store operations have failed

NoCall == [at |-> "none"]
Asked(kind, exp, val) ==
    [at |-> "asked", kind |-> kind, exp |-> exp, val |-> val, saw |-> {}]
Answered(res) == [at |-> "answered", res |-> res]

Init == /\ \A i, j \in item : i = j /\ i.val \in Value /\ i.exp \in Nat
        /\ call = [c \in Clients |-> NoCall]
        /\ now \in Nat
        /\ errs = 0

Tick == now' = now + 1 /\ UNCHANGED <<item, call, errs>>

Ask(c) ==
    /\ call[c].at = "none" /\ call'[c].at = "asked"
    /\ \E q \in Requests :
          call' = [call EXCEPT ![c] =
                      Asked(q.kind, resolve_expiry(q.exptime, now), Block(c, q.n))]
    /\ UNCHANGED <<item, now, errs>>

Looks(c) ==
    /\ call[c].at \in {"asked", "judged"}
    /\ call[c].kind \notin {"set", "add", "replace", "delete"}

\* The command looks at the key and finds an item; it may look again.
Look(c) ==
    /\ Looks(c) /\ item # {}
    /\ call' = [call EXCEPT ![c].at = "looked", ![c].saw = item]
    /\ UNCHANGED <<item, now, errs>>

\* What it saw has not expired, or the command does not mind.
Judge(c) ==
    /\ call[c].at = "looked"
    /\ \E i \in call[c].saw :
          call[c].kind \in {"append", "prepend"} \/ ~is_expired(i.exp, now)
    /\ call' = [call EXCEPT ![c].at = "judged"]
    /\ UNCHANGED <<item, now, errs>>

Ends(c, res) == call' = [call EXCEPT ![c] = Answered(res)]

\* The command finds nothing, when it looks or when it takes effect.
Miss(c) ==
    /\ Looks(c) /\ item = {}
    /\ Ends(c, Reply(Absent(call[c].kind)))
    /\ UNCHANGED <<item, now, errs>>

\* The command answers from what it saw.
Read(c) ==
    LET q == call[c]
    IN  /\ q.at = "looked"
        /\ \E i \in q.saw :
              \/ /\ q.kind \in {"get", "incr", "decr"} /\ is_expired(i.exp, now)
                 /\ Ends(c, Reply(Absent(q.kind)))
              \/ q.kind = "get" /\ ~is_expired(i.exp, now) /\ Ends(c, Hit(i.val))
              \/ /\ q.kind \in {"append", "prepend"} /\ Blocks(i.val) >= MaxLen
                 /\ Ends(c, Reply("TOO_LARGE"))
              \/ /\ q.kind \in {"incr", "decr"} /\ ~is_expired(i.exp, now) /\ i.val.n = -1
                 /\ Ends(c, Reply("CLIENT_ERROR"))
        /\ UNCHANGED <<item, now, errs>>

\* The command takes effect.
Store(c) ==
    LET q == call[c]
    IN  /\ q.at = "asked" /\ q.kind \in {"set", "add", "replace"}
        /\ IF \/ q.kind = "set"
              \/ q.kind = "add" /\ item = {}
              \/ q.kind = "replace" /\ item # {}
           THEN item' = {[val |-> q.val, exp |-> q.exp]} /\ Ends(c, Reply("STORED"))
           ELSE Ends(c, Reply("NOT_STORED")) /\ UNCHANGED item
        /\ UNCHANGED <<now, errs>>

Delete(c) ==
    /\ call[c].at = "asked" /\ call[c].kind = "delete"
    /\ Ends(c, Reply(IF item = {} THEN "NOT_FOUND" ELSE "DELETED"))
    /\ item' = {}
    /\ UNCHANGED <<now, errs>>

\* append, prepend, incr and decr change the item the key holds, and incr and
\* decr one with the expiry time they judged.
Update(c) ==
    LET q == call[c]
    IN  /\ q.at = "judged"
        /\ \E i \in item :
              \/ /\ q.kind \in {"append", "prepend"}
                 /\ Blocks(i.val) < MaxLen
                 /\ item' = {[val |-> Joined(q.kind, i.val, c), exp |-> q.exp]}
                 /\ Ends(c, Reply("STORED"))
              \/ /\ q.kind \in {"incr", "decr"}
                 /\ i.val.n >= 0 /\ \E j \in q.saw : j.exp = i.exp
                 /\ item' = {[val |-> Counted(q.kind, i.val), exp |-> i.exp]}
                 /\ Ends(c, Hit(Counted(q.kind, i.val)))
        /\ UNCHANGED <<now, errs>>

\* A store operation of the command failed.
Fail(c) ==
    /\ call[c].at \in {"asked", "judged"}
    /\ errs' = errs + 1
    /\ \E res \in {Absent(call[c].kind), "SERVER_ERROR"} : Ends(c, Reply(res))
    /\ UNCHANGED <<item, now>>

Answer(c) ==
    /\ call[c].at = "answered"
    /\ call' = [call EXCEPT ![c] = NoCall]
    /\ UNCHANGED <<item, now, errs>>

\* An expired item is dropped by whoever comes across it.
Purge ==
    /\ \E i \in item : is_expired(i.exp, now)
    /\ item' = {}
    /\ UNCHANGED <<call, now, errs>>

Next == \/ Tick \/ Purge
        \/ \E c \in Clients : \/ Ask(c) \/ Look(c) \/ Miss(c) \/ Judge(c) \/ Read(c)
                              \/ Store(c) \/ Delete(c) \/ Update(c)
                              \/ Fail(c) \/ Answer(c)

Spec == Init /\ [][Next]_<<item, call, now, errs>>
=============================================================================
