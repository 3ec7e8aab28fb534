------------------------------- MODULE MCRaft -------------------------------
(***************************************************************************)
(* Raft with three servers, under a test harness that follows one of four  *)
(* courses, each of them chosen for what takes many steps to go wrong.     *)
(***************************************************************************)
EXTENDS MCRaftScenarios

VARIABLE course

Terms == {rf[i].currentTerm : i \in Server}
Lengths == {Len(rf[i].log) : i \in Server}
AllLinks == {{i, j} : i, j \in Server}

(* Elections among all, without commands: two terms when a server is       *)
(* restarted, three when none is.                                          *)
Elections == Terms \subseteq 1 .. (3 - Restarts) /\ Lengths = {0}

(* One command.  s1 stands in term 2; once there is an entry, a server is  *)
(* restarted, and from then on s2 may stand in term 3.                     *)
Restarted ==
    /\ Terms \subseteq 1 .. (2 + Restarts) /\ Lengths \subseteq 0 .. 1
    /\ Restarts > 0 => Lengths # {0}
    /\ Follows([t \in 2 .. 3 |-> IF t = 2 THEN {s1} ELSE {s2}],
               [t \in 2 .. 3 |-> AllLinks])

(* Two commands.  In term 2 the harness has cut off s3, which then stands  *)
(* in term 3, with all connected.                                          *)
Partitioned ==
    /\ Terms \subseteq 1 .. 3 /\ Restarts = 0
    /\ Follows([t \in 2 .. 3 |-> IF t = 2 THEN {s1, s3} ELSE {s3}],
               [t \in 2 .. 3 |-> IF t = 2 THEN {{s1, s2}} ELSE AllLinks])

(* s1 and s3 are connected to s2 only, one message at a time, and lead in  *)
(* turn; s2 has one entry at most.  In term 4 s1 may give an entry of term *)
(* 2 to a majority, with one of term 4 behind it, and in term 5 s3 may     *)
(* overwrite it.                                                           *)
Alternating ==
    /\ BagCardinality(messages) <= 1 /\ Restarts = 0
    /\ Len(rf[s2].log) <= 1
    /\ Follows([t \in 2 .. 5 |-> CASE t = 2 -> {s1, s3} [] t = 4 -> {s1} [] OTHER -> {s3}],
               [t \in 2 .. 5 |-> {{s1, s2}, {s2, s3}}])

OnCourse ==
    \/ course = "elections" /\ Elections
    \/ course = "restarted" /\ Restarted
    \/ course = "partitioned" /\ Partitioned
    \/ course = "alternating" /\ Alternating

MCInit == Init /\ course \in {"elections", "restarted", "partitioned", "alternating"}

MCNext == Next /\ UNCHANGED course /\ OnCourse'

MCSpec == MCInit /\ [][MCNext]_<<vars, course>>

=============================================================================
