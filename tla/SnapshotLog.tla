----------------------------- MODULE SnapshotLog -----------------------------
(***************************************************************************)
(* What the snapshot buffer of a game session promises: the most recent    *)
(* Size snapshots in the order they were taken, and no others.             *)
(***************************************************************************)
EXTENDS Naturals, Sequences

CONSTANTS Snapshots, Size

VARIABLE kept

Init == kept = <<>>

Record(s) ==
  kept' = IF Len(kept) < Size THEN Append(kept, s) ELSE Append(Tail(kept), s)

Forget == kept' = <<>>

Next == Forget \/ \E s \in Snapshots : Record(s)

Spec == Init /\ [][Next]_kept
=============================================================================
