--------------------------- MODULE MCEtcdRaftNode ---------------------------
(***************************************************************************)
(* EtcdRaftNode for TLC.                                                   *)
(***************************************************************************)
EXTENDS EtcdRaftNode

AllLogs == [1 .. MaxIndex -> Kind]

(* A log that is long enough for two snapshots of the node's own in one    *)
(* life, and short ones with a Put at the end and with a removal.          *)
SomeLogs == {<<Put, Other, Put, Put>>, <<Other, Put>>, <<Put, RemoveSelf>>}

=============================================================================
