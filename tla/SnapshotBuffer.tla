---------------------------- MODULE SnapshotBuffer ----------------------------
(***************************************************************************)
(* The circular buffer of state snapshots (services/gameplay/snapshot.go). *)
(* The game loop pushes one after every successful client action; readers  *)
(* compute the index of the oldest or the newest entry from head and count,*)
(* each with arithmetic of its own.  Every method holds the buffer's mutex,*)
(* so a method is one step.                                                *)
(*                                                                         *)
(* Abstracted: of a snapshot, all but the two sequence numbers, the action *)
(* and the actor (time, serialised state and view hashes).                 *)
(***************************************************************************)
EXTENDS Integers, Sequences

CONSTANTS
  Size,           \* SnapshotBufferSize (100)
  Counted,        \* the actions whose handler calls IncrementSequence
  Uncounted,      \* those whose handler does not
  Nil,            \* an unused entry; also "not found"
  MaxSequence     \* bound: the sequence numbers the players reach

ASSUME SizeIsPositive == Size \in Nat \ {0}
ASSUME ActionsDiffer == Counted \cap Uncounted = {}
ASSUME MaxSequenceIsNat == MaxSequence \in Nat

VARIABLES
  buffer, head, count,  \* CircularBuffer
  seq                   \* PlayerNSequenceNumber of the game state

bufferVars == <<buffer, head, count, seq>>

Actors == {1, 2}
Actions == Counted \cup Uncounted
Snapshots == [seq : [Actors -> 0..MaxSequence], action : Actions, actor : Actors]

ASSUME NilIsNoSnapshot == Nil \notin Snapshots

BufferTypeOK ==
  /\ buffer \in [0..Size - 1 -> Snapshots \cup {Nil}]
  /\ head \in 0..Size - 1
  /\ count \in 0..Size
  /\ seq \in [Actors -> 0..MaxSequence]

BufferInit ==
  /\ buffer = [i \in 0..Size - 1 |-> Nil]
  /\ head = 0
  /\ count = 0
  /\ seq = [p \in Actors |-> 0]

\* Deviation: count is not capped at the size.
PushCountingOn(s) ==
  /\ buffer' = [buffer EXCEPT ![head] = s]
  /\ head' = (head + 1) % Size
  /\ count' = count + 1

Push(s) ==
  /\ buffer' = [buffer EXCEPT ![head] = s]
  /\ head' = (head + 1) % Size
  /\ count' = IF count < Size THEN count + 1 ELSE count

\* The end of handleClientAction: the handler has counted its action, or not.
TakeSnapshot(p, a) ==
  /\ a \in Counted => seq[p] < MaxSequence
  /\ seq' = IF a \in Counted THEN [seq EXCEPT ![p] = @ + 1] ELSE seq
  /\ Push([seq |-> seq', action |-> a, actor |-> p])

Clear ==
  /\ buffer' = [i \in 0..Size - 1 |-> Nil]
  /\ head' = 0
  /\ count' = 0
  /\ UNCHANGED seq

BufferNext == Clear \/ \E p \in Actors, a \in Actions : TakeSnapshot(p, a)

BufferSpec == BufferInit /\ [][BufferNext]_bufferVars

----------------------------------------------------------------------------
(* The readers.                                                            *)

\* Deviation: the entry that is overwritten next is the oldest (of a full buffer).
StartAtHead == head

\* The index of the oldest entry.
Start == IF head - count < 0 THEN head - count + Size ELSE head - count

GetAll == [i \in 1..count |-> buffer[(Start + i - 1) % Size]]

\* Deviation: the newest first.
GetLatestNewestFirst(n) ==
  LET taken == IF n > count THEN count ELSE n
      Back(i) == IF head - 1 - i < 0 THEN head - 1 - i + Size ELSE head - 1 - i
  IN [k \in 1..taken |-> buffer[Back(k - 1)]]

\* From the newest backwards; result[n-1-i] is the i-th.
GetLatest(n) ==
  LET taken == IF n > count THEN count ELSE n
      Back(i) == IF head - 1 - i < 0 THEN head - 1 - i + Size ELSE head - 1 - i
  IN [k \in 1..taken |-> buffer[Back(taken - k)]]

\* Deviation: the scan starts at the newest entry.
GetBySequenceLatest(p, n) ==
  LET Idx(i) == (head - count + i + Size) % Size
      Hits == {i \in 0..count - 1 : buffer[Idx(i)].seq[p] = n}
  IN IF Hits = {} THEN Nil
     ELSE buffer[Idx(CHOOSE i \in Hits : \A j \in Hits : i >= j)]

\* The first hit of a scan from the oldest entry.
GetBySequence(p, n) ==
  LET Idx(i) == (head - count + i + Size) % Size
      Hits == {i \in 0..count - 1 : buffer[Idx(i)].seq[p] = n}
  IN IF Hits = {} THEN Nil
     ELSE buffer[Idx(CHOOSE i \in Hits : \A j \in Hits : i <= j)]

----------------------------------------------------------------------------
(* Properties.                                                             *)

\* What GetAll returns is the log of the last Size snapshots: wrapping, filling
\* up and Clear included, and Clear starts from an empty log.
Log == INSTANCE SnapshotLog WITH kept <- GetAll
RefinesLog == Log!Spec

\* The entries GetAll reaches are snapshots, and no player's sequence number
\* ever falls from one to the next or exceeds that of the game.
InOrder ==
  /\ \A i \in 1..count : GetAll[i] \in Snapshots
  /\ \A i, j \in 1..count, p \in Actors :
       i <= j => GetAll[i].seq[p] <= GetAll[j].seq[p] /\ GetAll[j].seq[p] <= seq[p]

BufferInv == BufferTypeOK /\ InOrder

\* GetLatest counts its indices backwards from head and agrees with GetAll,
\* which counts forwards from the oldest entry, however many are asked for.
LatestAreTheTail ==
  \A n \in 0..Size + 1 :
    GetLatest(n) = SubSeq(GetAll, IF n > count THEN 1 ELSE count - n + 1, count)

\* Uncounted actions share the sequence number of the action before them: the
\* snapshot found for a number is the first one taken with it, so the state when
\* the player reached that number, unless that one has been overwritten.
FirstOfItsNumber ==
  \A p \in Actors, n \in 0..MaxSequence :
    LET s == GetBySequence(p, n) IN
    IF s = Nil THEN \A i \in 1..count : GetAll[i].seq[p] # n
    ELSE \E i \in 1..count :
           /\ GetAll[i] = s /\ s.seq[p] = n
           /\ \A j \in 1..i - 1 : GetAll[j].seq[p] < n
=============================================================================
