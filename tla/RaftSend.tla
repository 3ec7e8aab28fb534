------------------------------ MODULE RaftSend ------------------------------
(***************************************************************************)
(* Raft with what happens to a request between bcastAppend and the network *)
(* of labrpc.  The Entries of a request are a slice of rf.log, and no copy *)
(* is made until Call encodes it, in a goroutine that may run much later.  *)
(* appendLog cuts the log and appends to it in place, so the slice may by  *)
(* then hold what a new leader has put there.                              *)
(***************************************************************************)
EXTENDS Raft

(* What request m holds if it still shares its array with the log: cutting *)
(* the log leaves the array as it is, appending overwrites it.             *)
reread(m) ==
    LET log == rf[m.from].log
    IN  [m EXCEPT !.entries = [k \in DOMAIN @ |->
            IF m.prevLogIndex + k \in DOMAIN log
            THEN log[m.prevLogIndex + k] ELSE @[k]]]

(* A request that its sender's process has not encoded yet. *)
LateEncode ==
    \E m \in Deliverable(MsgApp) :
        /\ m.inc = incarnation[m.from]
        /\ reread(m) # m
        /\ messages' = (messages (-) SetToBag({m})) (+) SetToBag({reread(m)})
        /\ UNCHANGED <<rf, persister, incarnation, leaders, chosen>>

SendNext == Next \/ LateEncode

SendSpec == Init /\ [][SendNext]_vars

=============================================================================
