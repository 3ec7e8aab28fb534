------------------------------- MODULE LabRpc -------------------------------
(***************************************************************************)
(* The simulated network of mit/src/labrpc: ClientEnd.Call, the goroutine  *)
(* ProcessReq of each call with the goroutine that dispatches it to the    *)
(* server, and the operations that change the network meanwhile.           *)
(*                                                                         *)
(* A ClientEnd is named by its owner, the life of the owner that made it,  *)
(* and the server it is connected to.  A *Server is named by the life of   *)
(* the server that it belongs to.  The handler is external: it writes the  *)
(* call down in the persister of its life, and that is all that is kept.   *)
(***************************************************************************)
EXTENDS Integers, Sequences, FiniteSets

CONSTANTS
    Server,          \* servers, by name
    Client,          \* owners of other ends
    Call,            \* the calls that are made, each once
    MaxLife,         \* how often a server is started
    unreliable,      \* Reliable(false)
    longReordering

Life == 1 .. MaxLife
NoServer == 0

ASSUME LabRpcAssumption ==
    /\ MaxLife \in Nat \ {0}
    /\ {unreliable, longReordering} \subseteq BOOLEAN

VARIABLES
    ends,        \* the ends that have been made
    enabled,     \* enabled ends
    servers,     \* servers[s]: the life that is registered, or NoServer
    killed,      \* lives whose handlers may never return
    call,        \* call[c]: a Call, its ProcessReq and its dispatch goroutine
    persister    \* persister[s][l]: what the handlers of a life have written

network == <<ends, enabled, servers>>
rpcVars == <<network, killed, call, persister>>

End == (Server \cup Client) \X Life \X Server
NoEnd == <<"none">>

To(c) == call[c].end[3]

NewCall == [pc |-> "new", end |-> NoEnd, server |-> NoServer, dispatch |-> "none"]

-----------------------------------------------------------------------------
(* Call and ProcessReq.  pc is where ProcessReq is, dispatch where the     *)
(* goroutine is that calls the handler.                                    *)

Send(c, e) ==
    /\ call[c].pc = "new"
    /\ e \in ends
    /\ call' = [call EXCEPT ![c] = [@ EXCEPT !.pc = "sent", !.end = e]]
    /\ UNCHANGED <<network, killed, persister>>

ReadEndnameInfo(c) ==
    LET s == To(c)
        there == call[c].end \in enabled /\ servers[s] # NoServer
    IN  /\ call[c].pc = "sent"
        /\ call' = [call EXCEPT ![c].pc = IF there THEN "delay" ELSE "fail",
                                ![c].server = servers[s]]
        /\ UNCHANGED <<network, killed, persister>>

(* The request is lost; or the handler is called in a goroutine. *)
DropRequest(c) ==
    /\ call[c].pc = "delay" /\ unreliable
    /\ call' = [call EXCEPT ![c].pc = "fail"]
    /\ UNCHANGED <<network, killed, persister>>

StartDispatch(c) ==
    /\ call[c].pc = "delay"
    /\ call' = [call EXCEPT ![c].pc = "wait", ![c].dispatch = "handler"]
    /\ UNCHANGED <<network, killed, persister>>

(* Service.dispatch: the method of the service runs to its end. *)
ServiceDispatch(c) ==
    persister' = [persister EXCEPT ![To(c)][call[c].server] = @ \cup {c}]

(* Server.dispatch: the handler of that life is called, even if the server *)
(* has been deleted meanwhile, and what it returns is offered to ech.      *)
dispatch(c) ==
    /\ call[c].dispatch = "handler"
    /\ call' = [call EXCEPT ![c].dispatch = "ech"]
    /\ ServiceDispatch(c)
    /\ UNCHANGED <<network, killed>>

(* Without the comparison with the server that the request went to. *)
IsServerDeadDeleted(c) == call[c].end \notin enabled \/ servers[To(c)] = NoServer

IsServerDead(c) == call[c].end \notin enabled \/ servers[To(c)] # call[c].server

(* The select of the loop: the answer, or after 100 ms a look at the server. *)
ReceiveEch(c) ==
    /\ call[c].pc = "wait" /\ call[c].dispatch = "ech"
    /\ call' = [call EXCEPT ![c].pc = "replied", ![c].dispatch = "done"]
    /\ UNCHANGED <<network, killed, persister>>

PollDead(c) ==
    /\ call[c].pc = "wait" /\ IsServerDead(c)
    /\ call' = [call EXCEPT ![c].pc = "fail"]
    /\ UNCHANGED <<network, killed, persister>>

(* Without the last look at the server. *)
FinalCheckNone(c) ==
    /\ call[c].pc = "replied"
    /\ \E pc \in {"reply"} \cup (IF unreliable THEN {"fail"} ELSE {})
                         \cup (IF longReordering THEN {"late"} ELSE {}) :
        call' = [call EXCEPT ![c].pc = pc]
    /\ UNCHANGED <<network, killed, persister>>

(* "do not reply if DeleteServer() has been called"; else the reply is     *)
(* lost, sent at once or sent late.                                        *)
FinalCheck(c) ==
    /\ call[c].pc = "replied"
    /\ \E pc \in IF IsServerDead(c) THEN {"fail"}
                 ELSE {"reply"} \cup (IF unreliable THEN {"fail"} ELSE {})
                                \cup (IF longReordering THEN {"late"} ELSE {}) :
        call' = [call EXCEPT ![c].pc = pc]
    /\ UNCHANGED <<network, killed, persister>>

EndDelay(c) ==
    /\ call[c].pc = "late"
    /\ call' = [call EXCEPT ![c].pc = "reply"]
    /\ UNCHANGED <<network, killed, persister>>

(* Call returns what comes over replyCh. *)
Return(c) ==
    /\ call[c].pc \in {"fail", "reply"}
    /\ call' = [call EXCEPT ![c].pc = IF @ = "reply" THEN "true" ELSE "false"]
    /\ UNCHANGED <<network, killed, persister>>

ProcessReq(c) ==
    \/ ReadEndnameInfo(c)
    \/ DropRequest(c)
    \/ StartDispatch(c)
    \/ ReceiveEch(c)
    \/ PollDead(c)
    \/ FinalCheck(c)
    \/ EndDelay(c)
    \/ Return(c)

-----------------------------------------------------------------------------
(* The operations of Network, each in one critical section of rn.mu. *)

MakeEnd(es) == ends' = ends \cup es

Enable(e, yes) ==
    enabled' = IF yes THEN enabled \cup {e} ELSE enabled \ {e}

AddServer(s, l) == servers' = [servers EXCEPT ![s] = l]

DeleteServer(s) == servers' = [servers EXCEPT ![s] = NoServer]

=============================================================================
