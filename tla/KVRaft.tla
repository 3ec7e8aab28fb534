------------------------------- MODULE KVRaft -------------------------------
(***************************************************************************)
(* The replicated key/value service of mit/src/kvraft: Clerks that retry   *)
(* an operation server after server until one answers, RPC handlers that   *)
(* wait for their operation to come out of Raft, and on every server the   *)
(* goroutine getApply that applies what comes out and drops duplicates.    *)
(*                                                                         *)
(* Raft is what the service sees of it: Start puts an operation at some    *)
(* index of a leader's log, where another leader may have put another one; *)
(* of those, one is chosen per index, in index order; every server is      *)
(* handed the chosen operations in that order, from index 1 again after a  *)
(* restart.  That raft.go keeps these promises is what Raft.tla is about.  *)
(*                                                                         *)
(* There is one key: the duplicate table does not depend on it.  The value *)
(* that an operation writes is its own name <<Id, ReqId>>, and the value   *)
(* of the key is the sequence of what was written since the last Put.      *)
(***************************************************************************)
EXTENDS Integers, Sequences, FiniteSets, Functions

OpType == {"Get", "Put", "Append"}

CONSTANTS
    Server,       \* the servers
    Clerks,       \* the Clerks, by their random id
    Script,       \* bound: Script[c][n] is what the n-th operation of c may be
    MaxCalls,     \* bound: calls of all Clerks that reach a server
    MaxIndex,     \* bound: length of the Raft log
    MaxRestarts   \* bound: restarts of all servers together

ASSUME KVAssumption ==
    /\ Server # {}
    /\ Script \in [Clerks -> Seq(SUBSET OpType)]
    /\ {MaxCalls, MaxIndex, MaxRestarts} \subseteq Nat

VARIABLES
    log,        \* the operations that Raft has chosen, by index
    proposed,   \* every <<index, operation>> that a leader was given
    kv,         \* kv[i]: the struct RaftKV of server i
    restarts,   \* how many restarts there were
    calls,      \* how many calls reached a server
    clerk,      \* clerk[c]: the struct Clerk and the locals of its method
    handlers,   \* the RPC handlers that are in AppendLog or have to answer
    acked       \* history: the operations that returned to their caller

vars == <<log, proposed, kv, restarts, calls, clerk, handlers, acked>>

Op == [type : OpType, id : Clerks, reqId : Nat]

NoOp == [type |-> "none"]

(* StartKVServer.  ack is -1 for a Clerk that the map does not have, and   *)
(* result[k] is NoOp both for a channel that is empty and for one that is  *)
(* not there yet: getApply and AppendLog each make it when it is missing.  *)
InitKV ==
    [db |-> <<>>,
     ack |-> [c \in Clerks |-> -1],
     result |-> [k \in 1 .. MaxIndex |-> NoOp],
     prevIndex |-> 0]

(* MakeClerk *)
InitClerk ==
    [reqId |-> 0, op |-> NoOp, call |-> 0, value |-> <<>>, since |-> 0]

-----------------------------------------------------------------------------
(* Raft, as the service sees it. *)

(* Start on a leader: the next index of its log, all of which it was given *)
(* by some call of Start and which has what it handed to the service.      *)
StartIndex(i) ==
    {k \in kv[i].prevIndex + 1 .. MaxIndex :
        k = 1 \/ \E p \in proposed : p[1] = k - 1}

(* Raft commits more entries, each among those proposed for its index. *)
Decide ==
    \E n \in Len(log) .. MaxIndex :
        \E new \in [Len(log) + 1 .. n -> {p[2] : p \in proposed}] :
            /\ \A k \in DOMAIN new : <<k, new[k]>> \in proposed
            /\ log' = [k \in 1 .. n |-> IF k \in DOMAIN log THEN log[k] ELSE new[k]]

Choose ==
    /\ Decide
    /\ UNCHANGED <<proposed, kv, restarts, calls, clerk, handlers, acked>>

-----------------------------------------------------------------------------
(* Clerk *)

(* The writes that Raft has chosen. *)
Writes == {op \in Range(log) : op.type # "Get"}

(* Get and PutAppend up to the first Call. *)
Invoke(c, type) ==
    /\ clerk[c].op = NoOp
    /\ clerk[c].reqId < Len(Script[c])
    /\ type \in Script[c][clerk[c].reqId + 1]
    /\ clerk' = [clerk EXCEPT
            ![c].op = [type |-> type, id |-> c, reqId |-> clerk[c].reqId],
            ![c].reqId = @ + 1,
            ![c].value = <<>>,
            ![c].since = Cardinality(Writes)]
    /\ UNCHANGED <<log, proposed, kv, restarts, calls, handlers, acked>>

(* The Call failed, or its answer is WrongLeader: on to the next server.   *)
(* A handler that the Call has reached is left behind.                     *)
NextServer(ck) == [ck EXCEPT !.call = 0]

CallFails(c) ==
    /\ clerk[c].call # 0
    /\ clerk' = [clerk EXCEPT ![c] = NextServer(@)]
    /\ UNCHANGED <<log, proposed, kv, restarts, calls, handlers, acked>>

(* What handler h answers reaches the Clerk if that still waits for it. *)
Awaited(h) == clerk[h.entry.id].call = h.call

(* The Clerk's method returns value. *)
Return(h, value) ==
    IF Awaited(h)
    THEN /\ clerk' = [clerk EXCEPT ![h.entry.id].op = NoOp,
                                   ![h.entry.id].call = 0,
                                   ![h.entry.id].value = value]
         /\ acked' = acked \cup {h.entry}
    ELSE UNCHANGED <<clerk, acked>>

-----------------------------------------------------------------------------
(* RPC handlers *)

(* The number that tells a new Call of Clerk c from those whose handlers   *)
(* are still there.                                                        *)
FreshCall(c) ==
    LET taken == {h.call : h \in {g \in handlers : g.entry.id = c}}
    IN  {n \in 1 .. MaxCalls : n \notin taken /\ 1 .. n - 1 \subseteq taken}

(* A Call reaches server i, where a goroutine of its own is to run the     *)
(* handler.  The Clerk's loop goes over the servers again and again, and a *)
(* Call that reaches none changes nothing: the next one may be any.        *)
Call(c, i) ==
    /\ clerk[c].op # NoOp /\ clerk[c].call = 0
    /\ calls < MaxCalls
    /\ calls' = calls + 1
    /\ \E n \in FreshCall(c) :
        /\ handlers' = handlers \cup
            {[entry |-> clerk[c].op, server |-> i, index |-> 0,
              call |-> n, committed |-> FALSE]}
        /\ clerk' = [clerk EXCEPT ![c].call = n]
    /\ UNCHANGED <<log, proposed, kv, restarts, acked>>

(* The handler waits for what will come out at index k. *)
Wait(h, k) ==
    /\ h.index = 0
    /\ handlers' = (handlers \ {h}) \cup {[h EXCEPT !.index = k]}
    /\ UNCHANGED <<kv, restarts, calls, clerk, acked>>

(* AppendLog on a server that takes itself for the leader, up to the       *)
(* select.  The Clerk may have given up the Call before its handler gets   *)
(* here, and be at a later operation.                                      *)
AppendLog(h) ==
    \E k \in StartIndex(h.server) :
        /\ Wait(h, k)
        /\ proposed' = proposed \cup {<<k, h.entry>>}
        /\ UNCHANGED log

(* Mutant: whatever was chosen at the index counts as committed. *)
isCommittedAny(op, entry) == TRUE

isCommitted(op, entry) == op = entry

(* The select receives what getApply put into the channel of the index. *)
Receive(h) ==
    LET op == kv[h.server].result[h.index]
    IN  /\ h.index # 0 /\ ~h.committed
        /\ op # NoOp
        /\ kv' = [kv EXCEPT ![h.server].result[h.index] = NoOp]
        /\ IF isCommitted(op, h.entry)
           THEN /\ handlers' = (handlers \ {h}) \cup {[h EXCEPT !.committed = TRUE]}
                /\ UNCHANGED clerk
           ELSE /\ handlers' = handlers \ {h}
                /\ clerk' = IF Awaited(h)
                            THEN [clerk EXCEPT ![h.entry.id] = NextServer(@)]
                            ELSE clerk
        /\ UNCHANGED <<log, proposed, restarts, calls, acked>>

(* Start finds that this is not the leader, or the select times out. *)
AppendFails(h) ==
    /\ ~h.committed
    /\ handlers' = handlers \ {h}
    /\ clerk' = IF Awaited(h)
                THEN [clerk EXCEPT ![h.entry.id] = NextServer(@)] ELSE clerk
    /\ UNCHANGED <<log, proposed, kv, restarts, calls, acked>>

(* Mutant: a read does not wait for its turn in the log. *)
GetAtOnce(h) ==
    /\ h.entry.type = "Get"
    /\ Return(h, kv[h.server].db)
    /\ kv' = [kv EXCEPT ![h.server].ack[h.entry.id] = h.entry.reqId]
    /\ handlers' = handlers \ {h}
    /\ UNCHANGED <<log, proposed, restarts, calls>>

(* Get, once AppendLog has returned true: the value is read now, and ack   *)
(* is set to this request whatever it is by now.                           *)
Get(h) ==
    /\ h.committed /\ h.entry.type = "Get"
    /\ Return(h, kv[h.server].db)
    /\ kv' = [kv EXCEPT ![h.server].ack[h.entry.id] = h.entry.reqId]
    /\ handlers' = handlers \ {h}
    /\ UNCHANGED <<log, proposed, restarts, calls>>

(* PutAppend, once AppendLog has returned true. *)
PutAppend(h) ==
    /\ h.committed /\ h.entry.type # "Get"
    /\ Return(h, <<>>)
    /\ handlers' = handlers \ {h}
    /\ UNCHANGED <<log, proposed, kv, restarts, calls>>

-----------------------------------------------------------------------------
(* getApply *)

(* Mutant: only the latest request itself is a duplicate. *)
checkDupLatest(s, op) == s.ack[op.id] = op.reqId

checkDup(s, op) == s.ack[op.id] >= op.reqId

written(db, op) ==
    CASE op.type = "Put" -> <<<<op.id, op.reqId>>>>
      [] op.type = "Append" -> Append(db, <<op.id, op.reqId>>)
      [] op.type = "Get" -> db

getApply(i) ==
    LET s == kv[i]
        index == s.prevIndex + 1
        op == log[index]
        dup == checkDup(s, op)
    IN  /\ index <= Len(log)
        /\ kv' = [kv EXCEPT ![i] =
                [db |-> IF dup THEN s.db ELSE written(s.db, op),
                 ack |-> IF dup THEN s.ack ELSE [s.ack EXCEPT ![op.id] = op.reqId],
                 result |-> [s.result EXCEPT ![index] = op],
                 prevIndex |-> index]]
        /\ UNCHANGED <<log, proposed, restarts, calls, clerk, handlers, acked>>

(* Mutant: the value survives although Raft hands out the log again. *)
StartKVServerKeepsDb(i) ==
    /\ restarts < MaxRestarts
    /\ restarts' = restarts + 1
    /\ kv' = [kv EXCEPT ![i] = [InitKV EXCEPT !.db = kv[i].db]]
    /\ handlers' = {h \in handlers : h.server # i}
    /\ UNCHANGED <<proposed, calls, clerk, acked>>

(* Kill and StartKVServer: the handlers are gone. *)
StartKVServer(i) ==
    /\ restarts < MaxRestarts
    /\ restarts' = restarts + 1
    /\ kv' = [kv EXCEPT ![i] = InitKV]
    /\ handlers' = {h \in handlers : h.server # i}
    /\ UNCHANGED <<proposed, calls, clerk, acked>>

(* Raft starts over with the server, and may have committed a last time. *)
Restart(i) == StartKVServer(i) /\ Decide

-----------------------------------------------------------------------------
Init ==
    /\ log = <<>>
    /\ proposed = {}
    /\ kv = [i \in Server |-> InitKV]
    /\ restarts = 0
    /\ calls = 0
    /\ clerk = [c \in Clerks |-> InitClerk]
    /\ handlers = {}
    /\ acked = {}

Next ==
    \/ Choose
    \/ \E c \in Clerks :
        \/ \E type \in OpType : Invoke(c, type)
        \/ CallFails(c)
        \/ \E i \in Server : Call(c, i)
    \/ \E h \in handlers :
        \/ AppendLog(h)
        \/ Receive(h)
        \/ AppendFails(h)
        \/ Get(h)
        \/ PutAppend(h)
    \/ \E i \in Server :
        \/ getApply(i)
        \/ Restart(i)

Spec == Init /\ [][Next]_vars

-----------------------------------------------------------------------------
(* Properties. *)

Name == Clerks \X Nat

RaftKV ==
    [db : Seq(Name), ack : [Clerks -> Nat \cup {-1}],
     result : [1 .. MaxIndex -> Op \cup {NoOp}], prevIndex : 0 .. MaxIndex]

Clerk ==
    [reqId : Nat, op : Op \cup {NoOp}, call : 0 .. MaxCalls,
     value : Seq(Name), since : Nat]

Handler ==
    [entry : Op, server : Server, index : 0 .. MaxIndex, call : 1 .. MaxCalls,
     committed : BOOLEAN]

(* Types; no server has been handed more than Raft has chosen, and the     *)
(* channel of an index is empty or has what was chosen there.              *)
TypeOK ==
    /\ log \in Seq(Op)
    /\ proposed \subseteq (1 .. MaxIndex) \X Op
    /\ kv \in [Server -> RaftKV]
    /\ \A i \in Server :
        /\ kv[i].prevIndex <= Len(log)
        /\ \A k \in 1 .. MaxIndex : kv[i].result[k] # NoOp =>
            k <= kv[i].prevIndex /\ kv[i].result[k] = log[k]
    /\ restarts \in 0 .. MaxRestarts
    /\ calls \in 0 .. MaxCalls
    /\ clerk \in [Clerks -> Clerk]
    /\ handlers \subseteq Handler
    /\ acked \subseteq Op

(* test_test.go, checkClntAppends: neither "duplicate element" nor "wrong  *)
(* order for element".  However often a Clerk repeats its calls, on every  *)
(* server what it wrote stands in the value once, in the order of its      *)
(* operations.                                                             *)
OnceInOrder ==
    \A i \in Server : \A m, n \in DOMAIN kv[i].db :
        (m < n /\ kv[i].db[m][1] = kv[i].db[n][1])
        => kv[i].db[m][2] < kv[i].db[n][2]

(* The log has a Put after index k, among its first n entries. *)
Overwritten(k, n) == \E l \in k + 1 .. n : log[l].type = "Put"

Holds(value, op) == \E n \in DOMAIN value : value[n] = <<op.id, op.reqId>>

(* test_test.go, checkClntAppends: no "missing element".  A Put or Append  *)
(* that has returned is in the log, and in the value of every server that  *)
(* has applied the log that far, up to the next Put; a restart does not    *)
(* lose it.                                                                *)
AckedApplied ==
    \A op \in acked : op.type # "Get" =>
        \E k \in DOMAIN log :
            /\ log[k] = op
            /\ \A i \in Server : kv[i].prevIndex >= k =>
                Holds(kv[i].db, op) \/ Overwritten(k, kv[i].prevIndex)

(* Servers that have applied equally much have the same value, and the     *)
(* same duplicate table for every Clerk that only writes, whatever they    *)
(* did as leaders in the meantime.  (Get sets its Clerk's ack back on the  *)
(* server that answers it.)                                                *)
ReplicasAgree ==
    \A i, j \in Server : kv[i].prevIndex = kv[j].prevIndex =>
        /\ kv[i].db = kv[j].db
        /\ \A c \in Clerks : "Get" \notin UNION Range(Script[c]) => kv[i].ack[c] = kv[j].ack[c]

=============================================================================
