--------------------------- MODULE RaftRefinement ---------------------------
(***************************************************************************)
(* Raft implements ReplicatedLog: what the peers have ever committed is    *)
(* the log that is decided, a peer's commitIndex is how much of it         *)
(* stateMachine has been told to hand to the service, and what is in a log *)
(* or on the way to one is what may still be decided.                      *)
(***************************************************************************)
EXTENDS Raft

(* The entries that follow index prev somewhere. *)
EntriesAfter(prev, entries) == {<<prev + k, entries[k]>> : k \in DOMAIN entries}

Proposed ==
    chosen
    \cup UNION {EntriesAfter(0, rf[i].log) : i \in Server}
    \cup UNION {EntriesAfter(m.prevLogIndex, m.entries) :
                    m \in {n \in BagToSet(messages) : n.type = MsgApp}}

Abstract == INSTANCE ReplicatedLog WITH
    Node <- Server,
    proposed <- Proposed,
    decided <- chosen,
    position <- [i \in Server |-> rf[i].commitIndex]

(* doc.go, State Machine Safety, and more: only what Start was given is    *)
(* ever committed, at the index that Start returned; a step of a peer      *)
(* either leaves the decided log alone or extends it without a gap and     *)
(* without a second entry for an index, and commitTo takes the commit      *)
(* index of one peer forward to a decided entry; only a restart takes it   *)
(* back, to 0.                                                             *)
ImplementsLog == Abstract!Spec

=============================================================================
