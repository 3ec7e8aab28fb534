----------------------------- MODULE KVOverLog ------------------------------
(***************************************************************************)
(* The key/value service on top of ReplicatedLog: whatever that contract   *)
(* allows, Raft may do here.  KVRaft has its own, simpler idea of Raft;    *)
(* KVRaftProofs shows that it leaves nothing out that can happen here, so  *)
(* that the service relies on no more than the contract.                   *)
(***************************************************************************)
EXTENDS KVRaft

VARIABLES
    open,      \* what of the proposals Raft has not lost
    position   \* position[i]: how far Raft has committed on server i

overVars == <<vars, open, position>>

(* The entries of log l, as ReplicatedLog has them. *)
Decided(l) == {<<k, l[k]>> : k \in DOMAIN l}

RaftLog == INSTANCE ReplicatedLog WITH
    Node <- Server,
    proposed <- open,
    decided <- Decided(log),
    position <- position

(* A step of Raft that the service does not see. *)
RaftStep ==
    /\ \E i \in Server : RaftLog!Deliver(i)
    /\ log' \in Seq(Op)
    /\ UNCHANGED <<proposed, kv, restarts, calls, clerk, handlers, acked>>

(* AppendLog, with a Start that does what the contract says. *)
StartStep(h) ==
    \E k \in 1 .. MaxIndex :
        /\ RaftLog!Propose(h.server, k, h.entry)
        /\ log' = log
        /\ proposed' = proposed \cup {<<k, h.entry>>}
        /\ Wait(h, k)

RestartStep(i) ==
    /\ RaftLog!Restart(i)
    /\ log' \in Seq(Op)
    /\ StartKVServer(i)

(* Steps of the service that Raft does not see. *)
ServiceStep ==
    /\ \/ \E c \in Clerks :
            \/ \E type \in OpType : Invoke(c, type)
            \/ CallFails(c)
            \/ \E i \in Server : Call(c, i)
       \/ \E h \in handlers : Receive(h) \/ AppendFails(h) \/ Get(h) \/ PutAppend(h)
       \/ \E i \in Server : kv[i].prevIndex < position[i] /\ getApply(i)
    /\ UNCHANGED <<open, position>>

OverInit == Init /\ RaftLog!Init

OverNext ==
    \/ RaftStep
    \/ \E h \in handlers : StartStep(h)
    \/ \E i \in Server : RestartStep(i)
    \/ ServiceStep

OverSpec == OverInit /\ [][OverNext]_overVars

=============================================================================
