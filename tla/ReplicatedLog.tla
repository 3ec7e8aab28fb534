--------------------------- MODULE ReplicatedLog ----------------------------
(***************************************************************************)
(* What Raft promises to the service above it, without servers that lead,  *)
(* terms or messages: one log, of which more and more entries are decided, *)
(* all of them proposed, and none is ever replaced; and nodes that are     *)
(* handed its entries in order, from the first one again after a restart.  *)
(***************************************************************************)
EXTENDS Integers

CONSTANT Node

VARIABLES
    proposed,  \* every <<index, entry>> that may still be decided, or is
    decided,   \* every <<index, entry>> that has been decided
    position   \* position[n]: the index of the last entry handed to node n

(* The indices start at 1 and have no gap; there is one entry for each. *)
IsLog(d) ==
    /\ \A e \in d : e[1] = 1 \/ \E f \in d : f[1] = e[1] - 1
    /\ \A e, f \in d : e[1] = f[1] => e = f

Init ==
    /\ proposed = {}
    /\ decided = {}
    /\ position = [n \in Node |-> 0]

(* Entry e is given to node n, which puts it at index k, after what it was *)
(* handed and right after another proposal.  Any proposal may get lost.    *)
Propose(n, k, e) ==
    /\ k > position[n]
    /\ k = 1 \/ \E p \in proposed : p[1] = k - 1
    /\ proposed' \subseteq proposed \cup {<<k, e>>}
    /\ UNCHANGED <<decided, position>>

(* Proposals may be decided in every other step, and get lost. *)
Decide ==
    /\ proposed' \subseteq proposed
    /\ decided \subseteq decided' /\ decided' \subseteq decided \cup proposed
    /\ IsLog(decided')

(* Node n is handed the next entries, if any. *)
Deliver(n) ==
    /\ Decide
    /\ \E p \in {position[n]} \cup {e[1] : e \in decided'} :
        /\ p >= position[n]
        /\ position' = [position EXCEPT ![n] = p]

(* Node n loses its memory: it will be handed the log again. *)
Restart(n) ==
    /\ Decide
    /\ position' = [position EXCEPT ![n] = 0]

Next ==
    \/ \E n \in Node : Deliver(n)
    \/ \E n \in Node : Restart(n)
    \/ \E p \in proposed' : \E n \in Node : Propose(n, p[1], p[2])

Spec == Init /\ [][Next]_<<proposed, decided, position>>

=============================================================================
