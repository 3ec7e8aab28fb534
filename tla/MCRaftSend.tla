----------------------------- MODULE MCRaftSend -----------------------------
(* An instance of RaftSend with five servers and a given course of         *)
(* elections and partitions.                                               *)
EXTENDS MCRaftScenarios, RaftSend

CONSTANTS s4, s5

(* s1 leads term 2 with the votes of s2 and s3, s3 leads term 3 with the   *)
(* votes of s4 and s5.  Nothing is committed, s4 and s5 get no entries.    *)
Deposed ==
    /\ Follows([t \in 2 .. 3 |-> IF t = 2 THEN {s1} ELSE {s3}],
               [t \in 2 .. 3 |-> IF t = 2 THEN {{s1, s2}, {s1, s3}}
                                 ELSE {{s3, s4}, {s3, s5}, {s1, s3}}])
    /\ chosen = {}
    /\ rf[s4].log = <<>> /\ rf[s5].log = <<>>

=============================================================================
