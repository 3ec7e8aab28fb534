-------------------------- MODULE MCRaftScenarios ---------------------------
(***************************************************************************)
(* Instances of Raft with three servers whose test harness decides who     *)
(* stands for election and who is connected to whom, term by term, so that *)
(* TLC reaches long schedules.  Every behaviour of an instance is a        *)
(* behaviour of Raft: a message between two servers that are not connected *)
(* is one that the network loses, an election that is left out is one that *)
(* never becomes due.                                                      *)
(***************************************************************************)
EXTENDS RaftRefinement

CONSTANTS s1, s2, s3

(* candidates[t] stand for election in term t, links[t] are connected then *)
Follows(candidates, links) ==
    /\ \A i \in Server :
        rf[i].state # StateFollower => i \in candidates[rf[i].currentTerm]
    /\ \A m \in BagToSet(messages) :
        m.term > 1 => {m.from, m.to} \in links[m.term]

(* s1 leads terms 2, 3 and 5 with the votes of s2 and s3; in term 4 it is  *)
(* s3 that leads, and overwrites what s1 alone has logged.  Nothing is     *)
(* committed, s2 never gets an entry, and only s1 restarts.                *)
Overwritten ==
    /\ Follows([t \in 2 .. 5 |-> IF t = 4 THEN {s3} ELSE {s1}],
               [t \in 2 .. 5 |-> CASE t = 3 -> {{s1, s2}, {s1, s3}}
                                   [] t = 4 -> {{s2, s3}, {s1, s3}}
                                   [] OTHER -> {{s1, s2}}])
    /\ chosen = {}
    /\ rf[s2].log = <<>> /\ Len(rf[s3].log) <= 1
    /\ incarnation[s2] = 0 /\ incarnation[s3] = 0

=============================================================================
