------------------------------ MODULE MCKVRaft ------------------------------
(* Instances of KVRaft for TLC. *)
EXTENDS KVLinearizable, TLC

CONSTANTS c1, c2

(* No operator of KVRaft orders the servers. *)
ServerSymmetry == Permutations(Server)

(* At most two RPC handlers at a time. *)
FewHandlers == Cardinality(handlers) <= 2

(* One Clerk writes twice, the other one reads. *)
WriterAndReader ==
    [c \in Clerks |-> IF c = c1 THEN <<{"Append"}, {"Put", "Append"}>> ELSE <<{"Get"}>>]

(* A Clerk that reads, then appends. *)
ReadAndAppend == [c \in Clerks |-> <<{"Get"}, {"Append"}>>]

=============================================================================
