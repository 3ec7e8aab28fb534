--------------------------- MODULE KVLinearizable ---------------------------
(***************************************************************************)
(* KVRaft implements KVStore: a write takes effect when Raft first chooses *)
(* it; the later places that it has in the log, where the Clerk repeated   *)
(* it, are without effect.                                                 *)
(***************************************************************************)
EXTENDS KVRaft

(* The writes of the log, each where it stands first. *)
performed ==
    LET effect(k) == IF log[k].type = "Get" \/ \E l \in 1 .. k - 1 : log[l] = log[k]
                     THEN NoOp ELSE log[k]
    IN  SelectSeq([k \in DOMAIN log |-> effect(k)], LAMBDA op : op # NoOp)

Store == INSTANCE KVStore WITH
    None <- NoOp,
    history <- performed,
    pending <- [c \in Clerks |-> clerk[c].op],
    since <- [c \in Clerks |-> clerk[c].since],
    value <- [c \in Clerks |-> clerk[c].value]

(* test_test.go, GenericTest: a Get sees all that was answered before it,  *)
(* each write once and in order.  More precisely the service is one store  *)
(* to all its Clerks together, whatever calls they repeat, whichever       *)
(* servers answer, and however far those lag behind.                       *)
Linearizable == Store!Spec

=============================================================================
