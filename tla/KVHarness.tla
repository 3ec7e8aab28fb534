------------------------------ MODULE KVHarness ------------------------------
(***************************************************************************)
(* The harness of the kvraft tests (kvraft/config.go) on the network of    *)
(* LabRpc: it shuts servers down, starts them again with a copy of their   *)
(* persister, partitions the network and connects clients, while calls are *)
(* under way.                                                              *)
(*                                                                         *)
(* A function of config.go holds cfg.mu but changes the network one call   *)
(* at a time, so it is the sequence of the calls that it makes.            *)
(***************************************************************************)
EXTENDS LabRpc, SequencesExt

CONSTANTS
    n,          \* cfg.n: the servers are 0 .. n - 1
    MaxOps      \* how many functions of the harness are called

ASSUME HarnessAssumption == n \in Nat \ {0} /\ Server = 0 .. n - 1 /\ MaxOps \in Nat

VARIABLES
    endnames,   \* endnames[i]: the life whose ends server i uses
    kvservers,  \* kvservers[i]: the running life, or NoServer
    saved,      \* saved[i]: the persister of a life, or a copy of its content
    todo,       \* what the function that is running still has to do
    ops,
    parts       \* the two groups, while the last function was partition

config == <<endnames, kvservers, saved, ops, parts>>
vars == <<rpcVars, config, todo>>

NoParts == <<>>

(* The content of cfg.saved[i]. *)
Content(i) == IF saved[i].life = NoServer THEN saved[i].data
              ELSE persister[i][saved[i].life]

All == [i \in 1 .. n |-> i - 1]

-----------------------------------------------------------------------------
(* The functions of config.go as the calls that they make. *)

endname(i, j) == <<i, endnames[i], j>>
EnableOp(e, yes) == [op |-> "Enable", end |-> e, yes |-> yes]
ServerOp(op, i) == [op |-> op, server |-> i]

(* Outgoing and then incoming ends. *)
Links(i, js, yes) ==
    [k \in DOMAIN js |-> EnableOp(endname(i, js[k]), yes)] \o
    [k \in DOMAIN js |-> EnableOp(endname(js[k], i), yes)]

connectUnlocked(i, to) == Links(i, to, TRUE)
disconnectUnlocked(i, from) == Links(i, from, FALSE)

ConnectAllOps == FlattenSeq([k \in 1 .. n |-> connectUnlocked(All[k], All)])

(* Without connecting the servers of a group to each other. *)
partitionOpsCut(p1, p2) ==
    LET part(p, q) == FlattenSeq([k \in DOMAIN p |-> disconnectUnlocked(p[k], q)])
    IN  part(p1, p2) \o part(p2, p1)

partitionOps(p1, p2) ==
    LET part(p, q) == FlattenSeq([k \in DOMAIN p |-> disconnectUnlocked(p[k], q) \o
                                               connectUnlocked(p[k], p)])
    IN  part(p1, p2) \o part(p2, p1)

(* The leader comes last in the smaller group. *)
make_partition(leader) ==
    LET rest == SelectSeq(All, LAMBDA i : i # leader)
        half == n \div 2 + 1
    IN  <<SubSeq(rest, 1, half), Append(SubSeq(rest, half + 1, n - 1), leader)>>

(* The copy is made while the server still answers. *)
ShutdownOpsCopyFirst(i) ==
    disconnectUnlocked(i, All) \o
    <<ServerOp("Copy", i), ServerOp("DeleteServer", i), ServerOp("Kill", i)>>

ShutdownOps(i) ==
    disconnectUnlocked(i, All) \o
    <<ServerOp("DeleteServer", i), ServerOp("Copy", i), ServerOp("Kill", i)>>

StartOps(i) ==
    <<ServerOp("MakeEnds", i), ServerOp("StartKVServer", i), ServerOp("AddServer", i)>>

(* The ends of client k, one for each server. *)
makeClient(k) == {k} \X {1} \X Server

clientOps(k, to, yes) == [j \in DOMAIN to |-> EnableOp(<<k, 1, to[j]>>, yes)]

-----------------------------------------------------------------------------
(* The test calls a function of the harness. *)

Begin(newTodo, newParts) ==
    /\ todo = <<>> /\ ops < MaxOps
    /\ todo' = newTodo
    /\ ops' = ops + 1
    /\ parts' = newParts
    /\ UNCHANGED <<rpcVars, endnames, kvservers, saved>>

ShutdownServer(i) == kvservers[i] # NoServer /\ Begin(ShutdownOps(i), NoParts)

(* "If restart servers, first call ShutdownServer". *)
StartServer(i) ==
    /\ kvservers[i] = NoServer
    /\ endnames[i] < MaxLife
    /\ Begin(StartOps(i), NoParts)

ConnectAll == Begin(ConnectAllOps, NoParts)

(* Leader asks the servers in turn and finds none that has been shut down. *)
partition(leader) ==
    LET p == make_partition(leader)
    IN  /\ \A j \in 0 .. leader : kvservers[j] # NoServer
        /\ Begin(partitionOps(p[1], p[2]), p)

ConnectClient(k, to) == Begin(clientOps(k, to, TRUE), parts)
DisconnectClient(k, from) == Begin(clientOps(k, from, FALSE), parts)

-----------------------------------------------------------------------------
(* One step of the function that is running. *)

Doing(op) == todo # <<>> /\ Head(todo).op = op /\ todo' = Tail(todo)
Target == Head(todo).server

DoEnable ==
    /\ Doing("Enable")
    /\ Enable(Head(todo).end, Head(todo).yes)
    /\ UNCHANGED <<ends, servers, killed, call, persister, config>>

DoDeleteServer ==
    /\ Doing("DeleteServer")
    /\ DeleteServer(Target)
    /\ UNCHANGED <<ends, enabled, killed, call, persister, config>>

(* "a fresh persister, in case old instance continues to update" it. *)
DoCopy ==
    /\ Doing("Copy")
    /\ saved' = [saved EXCEPT ![Target] = [life |-> NoServer, data |-> Content(Target)]]
    /\ UNCHANGED <<rpcVars, endnames, kvservers, ops, parts>>

DoKill ==
    /\ Doing("Kill")
    /\ killed' = killed \cup {<<Target, kvservers[Target]>>}
    /\ kvservers' = [kvservers EXCEPT ![Target] = NoServer]
    /\ UNCHANGED <<network, call, persister, endnames, saved, ops, parts>>

(* A fresh set of ends, which are not enabled. *)
DoMakeEnds ==
    /\ Doing("MakeEnds")
    /\ endnames' = [endnames EXCEPT ![Target] = @ + 1]
    /\ MakeEnd({<<Target, endnames[Target] + 1, j>> : j \in Server})
    /\ UNCHANGED <<enabled, servers, killed, call, persister, kvservers, saved, ops, parts>>

(* saved[i].Copy() is the persister that StartKVServer gets. *)
DoStartKVServer ==
    LET life == endnames[Target]
    IN  /\ Doing("StartKVServer")
        /\ persister' = [persister EXCEPT ![Target][life] = Content(Target)]
        /\ saved' = [saved EXCEPT ![Target] = [life |-> life, data |-> {}]]
        /\ kvservers' = [kvservers EXCEPT ![Target] = life]
        /\ UNCHANGED <<network, killed, call, endnames, ops, parts>>

DoAddServer ==
    /\ Doing("AddServer")
    /\ AddServer(Target, kvservers[Target])
    /\ UNCHANGED <<ends, enabled, killed, call, persister, config>>

-----------------------------------------------------------------------------
(* make_config has started and connected every server, and makeClient has  *)
(* made the ends of every client and enabled them.                         *)
Init ==
    /\ ends = (Server \X {1} \X Server) \cup UNION {makeClient(k) : k \in Client}
    /\ enabled = ends
    /\ servers = [s \in Server |-> 1]
    /\ killed = {}
    /\ call = [c \in Call |-> NewCall]
    /\ persister = [s \in Server |-> [l \in Life |-> {}]]
    /\ endnames = [i \in Server |-> 1]
    /\ kvservers = [i \in Server |-> 1]
    /\ saved = [i \in Server |-> [life |-> 1, data |-> {}]]
    /\ todo = <<>> /\ ops = 0 /\ parts = NoParts

HarnessStep ==
    \/ DoEnable \/ DoDeleteServer \/ DoCopy \/ DoKill
    \/ DoMakeEnds \/ DoStartKVServer \/ DoAddServer

TestStep ==
    \/ \E i \in Server : ShutdownServer(i) \/ StartServer(i) \/ partition(i)
    \/ ConnectAll
    \/ \E k \in Client : ConnectClient(k, All) \/ DisconnectClient(k, All)

Net(A) == A /\ UNCHANGED <<config, todo>>

Next ==
    \/ HarnessStep
    \/ TestStep
    \/ \E c \in Call :
        \/ \E e \in ends : Net(Send(c, e))
        \/ Net(ProcessReq(c))
        \/ Net(dispatch(c))

HandlerReturns(c) == dispatch(c) /\ <<To(c), call[c].server>> \notin killed

(***************************************************************************)
(* The goroutines of a call run, and a handler returns unless its server   *)
(* has been killed; the test may stop at any time.                         *)
(***************************************************************************)
Fairness ==
    \A c \in Call : WF_call(ProcessReq(c)) /\ WF_call(HandlerReturns(c))

Spec == Init /\ [][Next]_vars /\ Fairness

-----------------------------------------------------------------------------
(* Properties. *)

(* labrpc.go, ProcessReq, and config.go, ShutdownServer: no client gets "a *)
(* positive reply to an Append, but the server persisted the update into   *)
(* the old Persister": what a positive reply stands for is in the          *)
(* persister that the next life of the server starts from.                 *)
AckedIsSaved ==
    \A c \in Call : call[c].pc \in {"late", "reply", "true"} => c \in Content(To(c))

(* config.go, make_partition and partition: "Sets up 2 partitions with     *)
(* connectivity between servers in each partition", the leader "in         *)
(* minority": when the function is done servers reach each other exactly   *)
(* within a group, whatever was connected before.                          *)
Isolated ==
    parts # NoParts /\ todo = <<>> =>
        LET p1 == ToSet(parts[1])
            p2 == ToSet(parts[2])
        IN  /\ p1 \cup p2 = Server /\ p1 \cap p2 = {}
            /\ Cardinality(p1) > Cardinality(p2)
            /\ \A i, j \in Server :
                endname(i, j) \in enabled <=> ({i, j} \subseteq p1 \/ {i, j} \subseteq p2)

(* labrpc.go: "Call() is guaranteed to return (perhaps after a delay)      *)
(* *except* if the handler function on the server side does not return";   *)
(* and also then if the server has been deleted.                           *)
CallReturns ==
    \A c \in Call : call[c].pc = "sent" ~> call[c].pc \in {"true", "false"}

=============================================================================
