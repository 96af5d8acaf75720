------------------------------ MODULE Memcache ------------------------------
(***************************************************************************)
(* The memcache command handlers (src/src/net/memcache.cc) over the        *)
(* store's interface, for one key: which store operations a command makes, *)
(* with which condition, and what it answers.  Handlers of different       *)
(* connections interleave between their store operations.  Connections,    *)
(* sockets and the threads the handlers run on are module Server's.        *)
(***************************************************************************)
EXTENDS MemcacheValues

CONSTANTS AnyVersion,                    \* kAnyVersion
          MaxVer, MaxReqs, MaxErrs,      \* bounds
          FirstTime, LastTime            \* bounds: the clock

VARIABLES kv,       \* the store's record of the key: at most one [val, exp, ver]
          ver,      \* versions given so far
          cmd,      \* per client: the command its connection handles
          now,      \* std::time()
          errs,     \* store operations that failed
          reqs      \* commands received

cmdVars == <<kv, ver, cmd, now, errs, reqs>>

NoCmd == [at |-> "none"]

\* The store may hold a value, an expiring one or not, from before.
CmdInit ==
    /\ \/ kv = {}
       \/ \E e \in {0, FirstTime + 1} :
             kv = {[val |-> [n |-> 0, s |-> <<>>], exp |-> e, ver |-> 0]}
    /\ ver = 0
    /\ cmd = [c \in Clients |-> NoCmd]
    /\ now = FirstTime
    /\ errs = 0
    /\ reqs = 0

Goes(c, at) == cmd' = [cmd EXCEPT ![c].at = at]
Replies(c, res) == cmd' = [cmd EXCEPT ![c] = [at |-> "reply", res |-> res]]

\* serve_connection() dispatches a command; handle_store() resolves its expiry
\* time once.
Receive(c) ==
    /\ cmd[c].at = "none" /\ reqs < MaxReqs
    /\ \E q \in Requests :
          cmd' = [cmd EXCEPT ![c] =
            [at   |-> CASE q.kind \in {"set", "add", "replace"} -> "put"
                        [] q.kind = "delete" -> "del"
                        [] OTHER -> "get",
             kind |-> q.kind, exp |-> resolve_expiry(q.exptime, now),
             val |-> Block(c, q.n), read |-> {}]]
    /\ reqs' = reqs + 1
    /\ UNCHANGED <<kv, ver, now, errs>>

\* The store fails an operation, which then changes nothing.
Fails == errs < MaxErrs /\ errs' = errs + 1 /\ UNCHANGED <<kv, ver>>

\* The condition a put or del puts on the key: uDepot::put() and del().
put_rc(mode, if_version) ==
    CASE kv = {} /\ (mode = "replace" \/ if_version # AnyVersion) -> "ENOENT"
      [] kv # {} /\ mode = "create" -> "EEXIST"
      [] \E r \in kv : if_version \notin {AnyVersion, r.ver} -> "ESTALE"
      [] OTHER -> "ok"

del_rc(if_version) ==
    CASE kv = {} -> "ENOENT"
      [] \E r \in kv : if_version \notin {AnyVersion, r.ver} -> "ESTALE"
      [] OTHER -> "ok"

Puts(val, exp) == kv' = {[val |-> val, exp |-> exp, ver |-> ver + 1]} /\ ver' = ver + 1

\* handle_store(): set, add and replace.
StoreCommand(c) ==
    LET q == cmd[c]
        rc == put_rc(CASE q.kind = "set" -> "upsert" [] q.kind = "add" -> "create"
                       [] OTHER -> "replace", AnyVersion)
    IN  /\ q.at = "put" /\ q.read = {}
        /\ \/ /\ rc = "ok" /\ Puts(q.val, q.exp) /\ Replies(c, Reply("STORED"))
              /\ UNCHANGED errs
           \/ rc # "ok" /\ Replies(c, Reply("NOT_STORED")) /\ UNCHANGED <<kv, ver, errs>>
           \/ Fails /\ Replies(c, Reply("NOT_STORED"))
        /\ UNCHANGED <<now, reqs>>

\* store.get() of handle_get(), handle_arithmetic() and append or prepend.
Get(c) ==
    LET q == cmd[c]
    IN  /\ q.at = "get"
        /\ \/ kv = {} /\ Replies(c, Reply(Absent(q.kind))) /\ UNCHANGED <<kv, ver, errs>>
           \/ /\ kv # {}
              /\ cmd' = [cmd EXCEPT ![c].at = "check", ![c].read = kv]
              /\ UNCHANGED <<kv, ver, errs>>
           \/ Fails /\ Replies(c, Reply(Absent(q.kind)))
        /\ UNCHANGED <<now, reqs>>

\* What the handler does with the record it read.  append and prepend do not
\* look at its expiry.
Check(c) ==
    LET q == cmd[c]
        joins == q.kind \in {"append", "prepend"}
    IN  /\ q.at = "check"
        /\ \E r \in q.read :
              \/ joins /\ Blocks(r.val) + 1 > MaxLen /\ Replies(c, Reply("TOO_LARGE"))
              \/ joins /\ Blocks(r.val) + 1 <= MaxLen /\ Goes(c, "put")
              \/ ~joins /\ is_expired(r.exp, now) /\ Goes(c, "drop")
              \/ /\ ~joins /\ ~is_expired(r.exp, now)
                 /\ CASE q.kind = "get" -> Replies(c, Hit(r.val))
                      [] r.val.n = -1   -> Replies(c, Reply("CLIENT_ERROR"))
                      [] OTHER          -> Goes(c, "put")
        /\ UNCHANGED <<kv, ver, now, errs, reqs>>

\* Mutant: the expired value is deleted whatever the key holds by now.
Drop_AnyVersion(c) ==
    LET q == cmd[c]
    IN  /\ q.at = "drop"
        /\ Replies(c, Reply(Absent(q.kind)))
        /\ kv' = {}
        /\ UNCHANGED <<ver, now, errs, reqs>>

\* An expired value is deleted by whoever reads it, if it is still there.
Drop(c) ==
    LET q == cmd[c]
    IN  /\ q.at = "drop"
        /\ Replies(c, Reply(Absent(q.kind)))
        /\ \/ (\E r \in q.read : del_rc(r.ver) = "ok") /\ kv' = {}
           \/ UNCHANGED kv                  \* -ESTALE, -ENOENT or an error: ignored
        /\ UNCHANGED <<ver, now, errs, reqs>>

\* The put of append, prepend, incr and decr: only over the version read.
Replace(c) ==
    LET q == cmd[c]
        joins == q.kind \in {"append", "prepend"}
    IN  /\ q.at = "put"
        /\ \E r \in q.read :
             LET rc  == put_rc("replace", r.ver)
                 new == IF joins THEN Joined(q.kind, r.val, c) ELSE Counted(q.kind, r.val)
             IN  \/ /\ rc = "ok"
                    /\ Puts(new, IF joins THEN q.exp ELSE r.exp)
                    /\ Replies(c, IF joins THEN Reply("STORED") ELSE Hit(new))
                    /\ UNCHANGED errs
                 \/ rc = "ESTALE" /\ Goes(c, "get") /\ UNCHANGED <<kv, ver, errs>>
                 \/ /\ rc = "ENOENT" /\ Replies(c, Reply(Absent(q.kind)))
                    /\ UNCHANGED <<kv, ver, errs>>
                 \/ /\ Fails
                    /\ Replies(c, Reply(IF joins THEN "NOT_STORED" ELSE "SERVER_ERROR"))
        /\ UNCHANGED <<now, reqs>>

\* handle_delete().
DeleteCommand(c) ==
    /\ cmd[c].at = "del"
    /\ \/ /\ del_rc(AnyVersion) = "ok" /\ kv' = {} /\ Replies(c, Reply("DELETED"))
          /\ UNCHANGED <<ver, errs>>
       \/ /\ del_rc(AnyVersion) # "ok" /\ Replies(c, Reply("NOT_FOUND"))
          /\ UNCHANGED <<kv, ver, errs>>
       \/ Fails /\ Replies(c, Reply("NOT_FOUND"))
    /\ UNCHANGED <<now, reqs>>

\* The answer is sent, or the client is gone or wants none.
Done(c) ==
    /\ cmd[c].at = "reply"
    /\ cmd' = [cmd EXCEPT ![c] = NoCmd]
    /\ UNCHANGED <<kv, ver, now, errs, reqs>>

\* The collector moves the record, which changes its version.
GcMove ==
    /\ ver < MaxVer
    /\ \E r \in kv : kv' = {[r EXCEPT !.ver = ver + 1]}
    /\ ver' = ver + 1
    /\ UNCHANGED <<cmd, now, errs, reqs>>

Clock == now < LastTime /\ now' = now + 1 /\ UNCHANGED <<kv, ver, cmd, errs, reqs>>

CmdStep(c) == Receive(c) \/ StoreCommand(c) \/ Get(c) \/ Check(c) \/ Drop(c) \/ Replace(c)
                \/ DeleteCommand(c) \/ Done(c)

CmdNext == (\E c \in Clients : CmdStep(c)) \/ GcMove \/ Clock

CmdSpec == CmdInit /\ [][CmdNext]_cmdVars
-----------------------------------------------------------------------------
(* Properties.                                                             *)

\* The call a command stands for: answered once its answer is decided, which a
\* lookup that drops an expired value has before it does; a retry goes on from
\* what it saw last.
CallOf(q) ==
    LET asked == [at |-> "asked", kind |-> q.kind, exp |-> q.exp, val |-> q.val,
                  saw |-> {[val |-> r.val, exp |-> r.exp] : r \in q.read}]
    IN  CASE q.at = "none"  -> q
          [] q.at = "reply" -> [at |-> "answered", res |-> q.res]
          [] q.at = "drop"  -> [at |-> "answered", res |-> Reply(Absent(q.kind))]
          [] q.at = "check" -> [asked EXCEPT !.at = "looked"]
          [] OTHER          -> IF q.read = {} THEN asked
                                          ELSE [asked EXCEPT !.at = "judged"]

C == INSTANCE Cache WITH item <- {[val |-> r.val, exp |-> r.exp] : r \in kv},
                         call <- [c \in Clients |-> CallOf(cmd[c])]

\* The handlers implement Cache: whatever the interleaving of their store
\* operations, no append, incr or decr is lost or applied to a value it did not
\* replace, no add or replace passes its condition twice, and no lookup that
\* comes across an expired value takes away a newer one.
ImplementsCache == C!Spec
=============================================================================
