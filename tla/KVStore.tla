------------------------------ MODULE KVStore -------------------------------
(***************************************************************************)
(* What the Clerks of the key/value service may rely on: one store, on     *)
(* which every operation takes effect once, at one instant between its     *)
(* call and its return.  There is one key; its value is the sequence of    *)
(* the names of what was written since the last Put.                       *)
(***************************************************************************)
EXTENDS Integers, Sequences, Functions

CONSTANTS
    Clerks,
    None       \* no operation is pending

VARIABLES
    history,   \* the Puts and Appends that have taken effect, in that order
    pending,   \* pending[c]: the operation that Clerk c waits for, or None
    since,     \* since[c]: how long history was when c called
    value      \* value[c]: what the last operation of c returned

store == <<history, pending, since, value>>

name(op) == <<op.id, op.reqId>>

(* What stands in the store after the writes h: those since the last Put. *)
Contents(h) ==
    LET overwritten(k) == \E l \in k + 1 .. Len(h) : h[l].type = "Put"
        indices == SelectSeq([k \in DOMAIN h |-> k], LAMBDA k : ~overwritten(k))
    IN  [m \in DOMAIN indices |-> name(h[indices[m]])]

Init ==
    /\ history = <<>>
    /\ pending = [c \in Clerks |-> None]
    /\ since = [c \in Clerks |-> 0]
    /\ value = [c \in Clerks |-> <<>>]

Call(c) ==
    /\ pending[c] = None /\ pending'[c] # None
    /\ pending'[c] \notin Range(history)
    /\ pending' = [pending EXCEPT ![c] = pending'[c]]
    /\ since' = [since EXCEPT ![c] = Len(history)]
    /\ value' = [value EXCEPT ![c] = <<>>]
    /\ UNCHANGED history

(* Writes take effect, one after another, while their Clerks wait, and     *)
(* never again.                                                            *)
Perform ==
    /\ Len(history) < Len(history')
    /\ SubSeq(history', 1, Len(history)) = history
    /\ \A n \in Len(history) + 1 .. Len(history') :
        /\ history'[n].type # "Get"
        /\ history'[n] \in Range(pending) \ Range(history)
        /\ \A m \in 1 .. n - 1 : history'[m] # history'[n]
    /\ UNCHANGED <<pending, since, value>>

ReturnWrite(c) ==
    /\ pending[c] # None /\ pending[c].type # "Get"
    /\ pending[c] \in Range(history)
    /\ pending' = [pending EXCEPT ![c] = None]
    /\ UNCHANGED <<history, since, value>>

(* A read returns what the store held at some instant since its call. *)
ReturnRead(c) ==
    /\ pending[c] # None /\ pending[c].type = "Get"
    /\ pending' = [pending EXCEPT ![c] = None]
    /\ \E n \in since[c] .. Len(history) :
        value' = [value EXCEPT ![c] = Contents(SubSeq(history, 1, n))]
    /\ UNCHANGED <<history, since>>

Next ==
    \/ Perform
    \/ \E c \in Clerks : Call(c) \/ ReturnWrite(c) \/ ReturnRead(c)

Spec == Init /\ [][Next]_store

=============================================================================
