--------------------------- MODULE MCSnapshotBuffer ---------------------------
(* SnapshotBuffer for TLC: the sets are given in the configuration.          *)
EXTENDS SnapshotBuffer
=============================================================================
