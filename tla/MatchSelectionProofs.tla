------------------------- MODULE MatchSelectionProofs -------------------------
(***************************************************************************)
(* Proofs about the choice of pairs, for any users, ratings, waits and     *)
(* lengths of the queue.                                                   *)
(***************************************************************************)
EXTENDS MatchSelection, FiniteSetTheorems, TLAPS

USE RatingsAreInts, RangesGrow, FullWaitIsEnough

NobodyPassedOver ==
  \A a \in 1..at - 1, b \in 1..Len(order) : a < b /\ Overlap(a, b) => Served(a, b)

LEMMA FunctionIsSequence ==
  ASSUME NEW S, NEW n \in Nat, NEW s \in [1..n -> S]
  PROVE  s \in Seq(S) /\ Len(s) = n
<1>1. s \in Seq(S)
  OBVIOUS
<1>2. Len([i \in 1..n |-> s[i]]) = n /\ [i \in 1..n |-> s[i]] = s
  OBVIOUS
<1> QED
  BY <1>1, <1>2

\* The renumbering of the waits yields waits.
LEMMA WaitsStayWaits ==
  ASSUME NEW w \in Nat
  PROVE  Aged(w) \in Nat
<1> DEFINE S == {row[u].wait : u \in Queued} \cap 0..w - 1
<1>1. IsFiniteSet(S)
  <2>1. IsFiniteSet(0..w - 1)
    BY FS_Interval
  <2> QED
    BY <2>1, FS_Subset
<1>2. Cardinality(S) \in Nat
  BY <1>1, FS_CardinalityType
<1> HIDE DEF S
<1>3. Aged(w) = IF w + 1 <= FullWait + Cardinality(S) THEN w + 1
                ELSE FullWait + Cardinality(S)
  BY DEF Aged, S
<1> QED
  BY <1>2, <1>3

\* Whatever happens to the queue during a tick, the rows that were read stay.
LEMMA QueueStep ==
  ASSUME SelectionInv, UNCHANGED tick, row' \in [Users -> Rows],
         meanwhile' \in 0..MaxMeanwhile
  PROVE  SelectionInv'
BY DEF SelectionInv, TypeOK, QueueIsOrdered, PairsAreLegal, Served, Overlap,
   Before, Lowest, Highest, Mmr, Wait, tick

LEMMA QueueSteps ==
  ASSUME SelectionInv, NEW u \in Users, Join(u) \/ Requeue(u) \/ Leave(u) \/ TimePasses
  PROVE  SelectionInv'
<1> USE DEF SelectionInv, TypeOK
<1>m. meanwhile' \in 0..MaxMeanwhile
  BY DEF Join, Requeue, Leave, TimePasses, Meanwhile, Allowed
<1>1. CASE Join(u)
  BY <1>1, <1>m, QueueStep DEF Join, Rows, Row
<1>2. CASE Requeue(u)
  BY <1>2, <1>m, QueueStep DEF Requeue, Rows, Row
<1>3. CASE Leave(u)
  BY <1>3, <1>m, QueueStep DEF Leave, Rows
<1>4. CASE TimePasses
  <2>1. ASSUME NEW v \in Users, row[v] # NoRow
        PROVE  [row[v] EXCEPT !.wait = Aged(row[v].wait)] \in Row
    <3>1. row[v] \in Row
      BY <2>1 DEF Rows
    <3> QED
      BY <3>1, WaitsStayWaits DEF Row
  <2>2. row' \in [Users -> Rows]
    BY <1>4, <2>1 DEF TimePasses, Rows
  <2> QED
    BY <1>4, <2>2, <1>m, QueueStep DEF TimePasses
<1> QED
  BY <1>1, <1>2, <1>3, <1>4

\* The queue is read in the order of joined_at, each row once.
LEMMA ReadStep ==
  ASSUME SelectionInv, Read
  PROVE  SelectionInv'
<1> USE DEF SelectionInv, TypeOK
<1>1. matches = {} /\ matches' = {} /\ at' = 1 /\ seen' = row
  BY DEF Read, PairsAreLegal
<1>2. Cardinality(Queued) \in Nat
  BY UsersAreFinite, FS_Subset, FS_CardinalityType DEF Queued
<1>3. PICK s \in [1..Cardinality(Queued) -> Queued] :
        /\ \A i, j \in DOMAIN s : i # j => s[i] # s[j]
        /\ Ordered(s)
        /\ order' = s
  BY DEF Read
<1>4. s \in Seq(Users) /\ Len(s) = Cardinality(Queued)
  <2>1. s \in [1..Cardinality(Queued) -> Users]
    BY <1>3 DEF Queued
  <2> QED
    BY <1>2, <2>1, FunctionIsSequence
<1>5. TypeOK'
  BY <1>1, <1>3, <1>4 DEF Read
<1>6. QueueIsOrdered'
  BY <1>1, <1>3, <1>4 DEF QueueIsOrdered, Ordered, Wait, Queued
<1>7. PairsAreLegal'
  BY <1>1 DEF PairsAreLegal
<1> QED
  BY <1>1, <1>5, <1>6, <1>7

\* A round without a pair: the player is in an earlier pair, or everybody it
\* overlaps is.
LEMMA SkipStep ==
  ASSUME SelectionInv, Skip
  PROVE  SelectionInv'
<1> USE DEF SelectionInv
<1>1. /\ at \in 1..Len(order) /\ at' = at + 1 /\ Len(order) \in Nat
      /\ UNCHANGED <<row, seen, order, matches, meanwhile>>
  BY DEF Skip, TypeOK
<1>2. TypeOK'
  BY <1>1 DEF TypeOK
<1>3. QueueIsOrdered' /\ PairsAreLegal'
  BY <1>1 DEF QueueIsOrdered, PairsAreLegal, Overlap, Lowest, Highest, Mmr, Wait
<1>4. ASSUME NEW b \in 1..Len(order), at < b, Overlap(at, b)
      PROVE  Served(at, b)
  <2>1. CASE at \in Matched
    BY <1>1, <2>1 DEF Matched, PairsAreLegal, Served
  <2>2. CASE Candidates(at) = {}
    <3>1. b \in Matched
      BY <1>1, <1>4, <2>2 DEF Candidates
    <3> QED
      BY <1>1, <1>4, <3>1 DEF Matched, PairsAreLegal, Served
  <2> QED
    BY <2>1, <2>2 DEF Skip
<1>5. \A a \in 1..at, b \in 1..Len(order) : a < b /\ Overlap(a, b) => Served(a, b)
  BY <1>1, <1>4
<1>6. NobodyPassedOver'
  BY <1>1, <1>5 DEF NobodyPassedOver, Served, Overlap, Before, Lowest, Highest, Mmr, Wait
<1> QED
  BY <1>2, <1>3, <1>6 DEF NobodyPassedOver

\* A round with a pair: the partner is the earliest of those left.
LEMMA PairStep ==
  ASSUME SelectionInv, Pair
  PROVE  SelectionInv'
<1> USE DEF SelectionInv
<1>1. PICK j \in Best(at) : matches' = matches \cup {<<at, j>>}
  BY DEF Pair
<1>2. /\ at \in 1..Len(order) /\ at' = at + 1 /\ Len(order) \in Nat
      /\ at \notin Matched
      /\ UNCHANGED <<row, seen, order, meanwhile>>
  BY DEF Pair, TypeOK
<1>3. j \in at + 1..Len(order) /\ j \notin Matched /\ Overlap(at, j)
  BY <1>1 DEF Best, Candidates
<1>4. TypeOK'
  BY <1>1, <1>2, <1>3 DEF TypeOK
<1>5. QueueIsOrdered'
  BY <1>2 DEF QueueIsOrdered, Wait
<1>6. PairsAreLegal'
  <2>1. \A i, k \in 1..Len(order) : Overlap(i, k)' = Overlap(i, k)
    BY <1>2 DEF Overlap, Lowest, Highest, Mmr, Wait
  <2>2. ASSUME NEW m \in matches'
        PROVE  m[1] \in 1..at' - 1 /\ m[2] \in m[1] + 1..Len(order') /\ Overlap(m[1], m[2])'
    BY <1>1, <1>2, <1>3, <2>1 DEF PairsAreLegal
  <2>3. ASSUME NEW m \in matches', NEW n \in matches', m # n
        PROVE  {m[1], m[2]} \cap {n[1], n[2]} = {}
    BY <1>1, <1>2, <1>3, <2>3 DEF PairsAreLegal, Matched
  <2> QED
    BY <2>2, <2>3 DEF PairsAreLegal
<1>7. ASSUME NEW a, a = at, NEW b \in 1..Len(order), a < b, Overlap(a, b)
      PROVE  Served(a, b)'
  <2>1. CASE b \in Matched
    <3>1. PICK m \in matches : m[1] = b \/ m[2] = b
      BY <2>1 DEF Matched
    <3>2. m[1] \in 1..at - 1 /\ m \in matches'
      BY <1>1, <3>1 DEF PairsAreLegal
    <3> QED
      BY <1>2, <1>7, <3>1, <3>2 DEF Served
  <2>2. CASE b \notin Matched
    <3>1. b \in Candidates(at)
      BY <1>2, <1>7, <2>2 DEF Candidates
    <3>2. Before(j, b) \/ Wait(j) = Wait(b)
      BY <1>1, <3>1 DEF Best
    <3>3. ~Before(b, j)
      <4>1. Wait(b) \in Nat /\ Wait(j) \in Nat
        BY <1>2, <1>3 DEF TypeOK, QueueIsOrdered, Wait, Rows, Row
      <4> QED
        BY <3>2, <4>1 DEF Before
    <3>4. ~Before(b, j)'
      BY <1>2, <3>3 DEF Before, Wait
    <3>5. <<at, j>> \in matches' /\ <<at, j>>[1] = a /\ <<at, j>>[2] = j
      BY <1>1, <1>7
    <3> QED
      BY <3>4, <3>5 DEF Served
  <2> QED
    BY <2>1, <2>2
<1>8. ASSUME NEW a \in 1..at - 1, NEW b \in 1..Len(order), a < b, Overlap(a, b)
      PROVE  Served(a, b)'
  BY <1>1, <1>2, <1>8 DEF Served, Before, Wait
<1>9. NobodyPassedOver'
  BY <1>2, <1>7, <1>8 DEF NobodyPassedOver, Overlap, Lowest, Highest, Mmr, Wait
<1> QED
  BY <1>4, <1>5, <1>6, <1>9 DEF NobodyPassedOver

LEMMA FinishStep ==
  ASSUME SelectionInv, Finish
  PROVE  SelectionInv'
<1> USE DEF SelectionInv, TypeOK
<1>1. at' = 0 /\ matches' = {} /\ order' = <<>> /\ meanwhile' = 0
  BY DEF Finish
<1>2. TypeOK'
  BY <1>1 DEF Finish, Rows
<1> QED
  BY <1>1, <1>2 DEF QueueIsOrdered, PairsAreLegal

\* SelectionInv: every tick pairs what may be paired and passes nobody over.
THEOREM SelectionInvariant == Spec => []SelectionInv
<1>1. Init => SelectionInv
  BY DEF Init, SelectionInv, TypeOK, Rows, QueueIsOrdered, PairsAreLegal
<1>2. ASSUME SelectionInv, [Next]_vars
      PROVE  SelectionInv'
  <2>1. CASE \E u \in Users : Join(u) \/ Requeue(u) \/ Leave(u)
    BY <1>2, <2>1, QueueSteps
  <2>2. CASE TimePasses
    <3>1. PICK u \in Users : TRUE
      BY <2>2 DEF TimePasses, Queued
    <3> QED
      BY <1>2, <2>2, <3>1, QueueSteps
  <2>3. CASE Tick
    BY <1>2, <2>3, ReadStep, SkipStep, PairStep, FinishStep DEF Tick
  <2>4. CASE UNCHANGED vars
    BY <1>2, <2>4, QueueStep DEF SelectionInv, TypeOK, vars
  <2> QED
    BY <1>2, <2>1, <2>2, <2>3, <2>4 DEF Next
<1> QED
  BY <1>1, <1>2, PTL DEF Spec

\* PairsAreStable: no two players who could have been paired would both rather
\* have had each other.
THEOREM PairingIsStable == Spec => []PairsAreStable
<1>1. SelectionInv => PairsAreStable
  <2> SUFFICES ASSUME SelectionInv, at = Len(order) + 1,
                      NEW a \in 1..Len(order), NEW b \in 1..Len(order),
                      a < b, Overlap(a, b)
               PROVE  ~(Prefers(a, b) /\ Prefers(b, a))
    <3>1. ASSUME NEW i \in 1..Len(order), NEW j \in 1..Len(order)
          PROVE  Overlap(i, j) = Overlap(j, i)
      BY DEF Overlap
    <3>2. Len(order) \in Nat /\ \A i, j \in 1..Len(order) : i # j => i < j \/ j < i
      BY DEF SelectionInv, TypeOK
    <3> QED
      BY <3>1, <3>2 DEF PairsAreStable
  <2> USE DEF SelectionInv
  <2>1. Len(order) \in Nat
    BY DEF TypeOK
  <2>2. \A i \in 1..Len(order) : Wait(i) \in Nat
    BY <2>1 DEF TypeOK, QueueIsOrdered, Wait, Rows, Row
  <2>3. PICK m \in matches : \/ m[1] = a /\ ~Before(b, m[2])
                             \/ m[2] = a
                             \/ m[2] = b /\ m[1] < a
    BY <2>1 DEF Served
  <2>4. m[1] \in 1..Len(order) /\ m[2] \in 1..Len(order) /\ m[1] < m[2]
    BY <2>1 DEF PairsAreLegal
  <2>5. CASE m[1] = a /\ ~Before(b, m[2])
    BY <2>5 DEF Prefers
  <2>6. CASE m[2] = a
    <3>1. Wait(m[1]) >= Wait(a) /\ Wait(a) >= Wait(b)
      BY <2>1, <2>4, <2>6 DEF QueueIsOrdered
    <3> QED
      BY <2>2, <2>4, <2>6, <3>1 DEF Prefers, Before
  <2>7. CASE m[2] = b /\ m[1] < a
    <3>1. Wait(m[1]) >= Wait(a)
      BY <2>1, <2>4, <2>7 DEF QueueIsOrdered
    <3> QED
      BY <2>2, <2>4, <2>7, <3>1 DEF Prefers, Before
  <2> QED
    BY <2>3, <2>5, <2>6, <2>7
<1> QED
  BY <1>1, SelectionInvariant, PTL

\* A range never shrinks while its player waits, and is the largest from FullWait on.
LEMMA RangesWiden ==
  ASSUME NEW w \in Nat
  PROVE  /\ Size(w) \in Nat /\ Initial <= Size(w)
         /\ w >= FullWait => Size(w) = Top
<1>1. w \div Interval \in Nat /\ FullWait \div Interval \in Nat
  BY Z3
<1>2. (w \div Interval) * Rate \in Nat /\ (FullWait \div Interval) * Rate \in Nat
  BY <1>1
<1>3. ASSUME w >= FullWait
      PROVE  (FullWait \div Interval) * Rate <= (w \div Interval) * Rate
  <2>1. FullWait \div Interval <= w \div Interval
    BY <1>3, Z3
  <2> QED
    BY <1>1, <2>1
<1> QED
  BY <1>2, <1>3 DEF Size

\* StrangersAreLeft: whoever a tick leaves in the queue differs too much.
THEOREM OnlyStrangersAreLeft == Spec => []StrangersAreLeft
<1>1. SelectionInv => StrangersAreLeft
  <2> SUFFICES ASSUME SelectionInv, at = Len(order) + 1,
                      NEW i \in (1..Len(order)) \ Matched,
                      NEW j \in (1..Len(order)) \ Matched, i # j
               PROVE  /\ Gap(i, j) > 2 * Initial
                      /\ Wait(i) >= FullWait => Gap(i, j) > Top + Initial
                      /\ Wait(i) >= FullWait /\ Wait(j) >= FullWait => Gap(i, j) > 2 * Top
    BY DEF StrangersAreLeft
  <2> USE DEF SelectionInv
  <2>1. Len(order) \in Nat
    BY DEF TypeOK
  <2>2. Wait(i) \in Nat /\ Wait(j) \in Nat /\ Mmr(i) \in Int /\ Mmr(j) \in Int
    BY <2>1 DEF TypeOK, QueueIsOrdered, Wait, Mmr, Rows, Row
  <2>3. \A m \in matches : m[1] # i /\ m[1] # j /\ m[2] # i /\ m[2] # j
    BY DEF Matched
  <2>4. ~Overlap(i, j)
    <3>1. CASE i < j
      BY <2>1, <2>3, <3>1 DEF Served
    <3>2. CASE j < i
      <4>1. ~Overlap(j, i)
        BY <2>1, <2>3, <3>2 DEF Served
      <4> QED
        BY <4>1 DEF Overlap
    <3> QED
      BY <2>1, <3>1, <3>2
  <2>5. /\ Size(Wait(i)) \in Nat /\ Initial <= Size(Wait(i))
        /\ Size(Wait(j)) \in Nat /\ Initial <= Size(Wait(j))
        /\ Wait(i) >= FullWait => Size(Wait(i)) = Top
        /\ Wait(j) >= FullWait => Size(Wait(j)) = Top
    BY <2>2, RangesWiden
  <2>6. Gap(i, j) > Size(Wait(i)) + Size(Wait(j))
    BY <2>2, <2>4, <2>5 DEF Overlap, Lowest, Highest, Gap
  <2>7. Gap(i, j) \in Int
    BY <2>2 DEF Gap
  <2> QED
    BY <2>5, <2>6, <2>7
<1> QED
  BY <1>1, SelectionInvariant, PTL
=============================================================================
