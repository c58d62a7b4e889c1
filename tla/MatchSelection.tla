---------------------------- MODULE MatchSelection ----------------------------
(***************************************************************************)
(* How the matchmaker chooses its pairs (services/matchmaking):            *)
(* computeMatches of main.go, called by findMatches on the queue it has    *)
(* read, and calculateMMRRange of handlers.go, over a queue that players   *)
(* join and leave while the choice is made and in which time passes.       *)
(*                                                                         *)
(* A round of computeMatches' outer loop is one step.  The sort by the     *)
(* lower ends of the ranges, the binary search and the sweep find the      *)
(* candidates of a player and settle ties; they are the definitions of     *)
(* Candidates and Best.                                                    *)
(*                                                                         *)
(* Abstracted: what the pairs become (Matchmaking has the sessions, the    *)
(* failures and the crashes), bans, and waits beyond FullWait, of which    *)
(* only the order is kept.                                                 *)
(***************************************************************************)
EXTENDS Integers, Sequences, FiniteSets

CONSTANTS
  Users,
  Ratings,     \* [Users -> sets of ratings the user may have when joining]
  NoRow,
  Initial,     \* initialMMRRange
  Rate,        \* rangeExpansionRate
  Interval,    \* expansionInterval
  Top,         \* maxMMRRange
  FullWait,    \* bound: a wait after which a range is as large as it gets
  MaxMeanwhile \* bound: changes of the queue between a read and its pairs

ASSUME UsersAreFinite == IsFiniteSet(Users)
ASSUME RatingsAreInts == Ratings \in [Users -> SUBSET Int]
ASSUME RangesGrow ==
  /\ Initial \in Nat /\ Rate \in Nat /\ Interval \in Nat \ {0}
  /\ Top \in Nat /\ Initial <= Top
ASSUME FullWaitIsEnough ==
  FullWait \in Nat /\ MaxMeanwhile \in Nat /\ Initial + (FullWait \div Interval) * Rate >= Top
ASSUME NoRowIsNoRow == NoRow \notin [mmr : Int, wait : Nat]

VARIABLES
  row,       \* matchmaking_queue: the rating at the join, and the time since joined_at
  seen,      \* the rows that findMatches has read,
  order,     \* and the order they came in
  at,        \* i of the outer loop, from 1; 0 between two ticks
  matches,   \* pairs of positions in that order
  meanwhile  \* changes of the queue since it was read

tick == <<seen, order, at, matches>>
vars == <<row, tick, meanwhile>>

Row == [mmr : Int, wait : Nat]
Rows == Row \cup {NoRow}
Queued == {u \in Users : row[u] # NoRow}

TypeOK ==
  /\ row \in [Users -> Rows] /\ seen \in [Users -> Rows]
  /\ order \in Seq(Users)
  /\ at \in 0..Len(order) + 1
  /\ matches \in SUBSET (Nat \X Nat)
  /\ meanwhile \in 0..MaxMeanwhile

Init ==
  /\ row = [u \in Users |-> NoRow]
  /\ seen = [u \in Users |-> NoRow]
  /\ order = <<>> /\ at = 0 /\ matches = {} /\ meanwhile = 0

----------------------------------------------------------------------------
(* The queue.                                                              *)

Meanwhile == meanwhile' = IF at = 0 THEN 0 ELSE meanwhile + 1
Allowed == at = 0 \/ meanwhile < MaxMeanwhile

\* By the player, or because its match was rejected or has expired.
Join(u) ==
  /\ Allowed
  /\ row[u] = NoRow
  /\ \E m \in Ratings[u] : row' = [row EXCEPT ![u] = [mmr |-> m, wait |-> 0]]
  /\ Meanwhile
  /\ UNCHANGED tick

\* A player who is put back and has joined again by then has waited for nothing.
Requeue(u) ==
  /\ Allowed
  /\ row[u] # NoRow
  /\ row[u].wait # 0
  /\ row' = [row EXCEPT ![u].wait = 0]
  /\ Meanwhile
  /\ UNCHANGED tick

Leave(u) ==
  /\ Allowed
  /\ row[u] # NoRow
  /\ row' = [row EXCEPT ![u] = NoRow]
  /\ Meanwhile
  /\ UNCHANGED tick

\* Beyond FullWait the waits are renumbered, in their order.
Aged(w) ==
  LET shorter == Cardinality({row[u].wait : u \in Queued} \cap 0..w - 1)
  IN IF w + 1 <= FullWait + shorter THEN w + 1 ELSE FullWait + shorter

TimePasses ==
  /\ Allowed
  /\ Queued # {}
  /\ row' = [u \in Users |->
       IF row[u] = NoRow THEN NoRow ELSE [row[u] EXCEPT !.wait = Aged(row[u].wait)]]
  /\ row' # row
  /\ Meanwhile
  /\ UNCHANGED tick

----------------------------------------------------------------------------
(* Ranges, of the players that were read.                                  *)

\* Deviation: a range that has grown to the top starts over.
SizeStartingOver(wait) ==
  LET size == Initial + (wait \div Interval) * Rate
  IN IF size < Top THEN size ELSE Initial

\* calculateMMRRange
Size(wait) ==
  LET size == Initial + (wait \div Interval) * Rate
  IN IF size > Top THEN Top ELSE size

Wait(i) == seen[order[i]].wait
Mmr(i) == seen[order[i]].mmr
Lowest(i) == Mmr(i) - Size(Wait(i))
Highest(i) == Mmr(i) + Size(Wait(i))

Overlap(i, j) == Lowest(i) <= Highest(j) /\ Lowest(j) <= Highest(i)
Before(i, j) == Wait(i) > Wait(j)    \* JoinedAt.Before

----------------------------------------------------------------------------
(* findMatches.                                                            *)

\* Deviation: only the player whose round it is gets marked.
MatchedFirst == {m[1] : m \in matches}

Matched == {m[1] : m \in matches} \cup {m[2] : m \in matches}

Candidates(i) == {j \in i + 1..Len(order) : j \notin Matched /\ Overlap(i, j)}

\* Deviation: the candidate that joined last.
BestIsLast(i) == {j \in Candidates(i) : \A k \in Candidates(i) : k <= j}

\* The first to join; of several who joined in the same second, the one that the
\* sweep meets first.  sort.Slice is not stable.
Best(i) ==
  {j \in Candidates(i) : \A k \in Candidates(i) :
     Before(j, k) \/ (Wait(j) = Wait(k) /\ Lowest(j) <= Lowest(k))}

\* Deviation: the queue is not read in the order of joined_at.
OrderedByMmr(s) ==
  \A i, j \in DOMAIN s : i < j => row[s[i]].mmr <= row[s[j]].mmr

\* GetActiveQueue: ORDER BY joined_at, which has whole seconds.
Ordered(s) ==
  \A i, j \in DOMAIN s : i < j => row[s[i]].wait >= row[s[j]].wait

Read ==
  /\ at = 0
  /\ \E s \in UNION {[1..n -> Queued] : n \in {Cardinality(Queued)}} :
       /\ \A i, j \in DOMAIN s : i # j => s[i] # s[j]
       /\ Ordered(s)
       /\ order' = s
  /\ seen' = row
  /\ at' = 1
  /\ UNCHANGED <<row, matches, meanwhile>>

\* A round of the loop: already matched, nobody overlaps, or a pair.
Skip ==
  /\ at \in 1..Len(order)
  /\ at \in Matched \/ Candidates(at) = {}
  /\ at' = at + 1
  /\ UNCHANGED <<row, seen, order, matches, meanwhile>>

Pair ==
  /\ at \in 1..Len(order)
  /\ at \notin Matched
  /\ \E j \in Best(at) : matches' = matches \cup {<<at, j>>}
  /\ at' = at + 1
  /\ UNCHANGED <<row, seen, order, meanwhile>>

\* createGameSession of every pair deletes the rows its players have by then.
Finish ==
  /\ at = Len(order) + 1
  /\ row' = [u \in Users |-> IF \E i \in Matched : order[i] = u THEN NoRow ELSE row[u]]
  /\ seen' = [u \in Users |-> NoRow]
  /\ order' = <<>> /\ at' = 0 /\ matches' = {} /\ meanwhile' = 0

Tick == Read \/ Skip \/ Pair \/ Finish

Next == (\E u \in Users : Join(u) \/ Requeue(u) \/ Leave(u)) \/ TimePasses \/ Tick

Spec == Init /\ [][Next]_vars

\* Time passes, whenever the bound lets it, and the ticker of the matchmaker runs;
\* nobody has to join or leave.
Fairness == SF_vars(TimePasses) /\ WF_vars(Tick)

FairSpec == Spec /\ Fairness
----------------------------------------------------------------------------
(* Properties.                                                             *)

\* The players that have been considered, and everybody their range overlaps:
\* either a got a partner who is at least as early as b, or a was taken by an
\* earlier player, or b was.
Served(a, b) ==
  \E m \in matches : \/ m[1] = a /\ ~Before(b, m[2])
                     \/ m[2] = a
                     \/ m[2] = b /\ m[1] < a

\* The rows are in the order in which they were inserted, one for each user.
QueueIsOrdered ==
  at > 0 => \A i, j \in 1..Len(order) :
    /\ seen[order[i]] # NoRow
    /\ i < j => order[i] # order[j] /\ Wait(i) >= Wait(j)

PairsAreLegal ==
  /\ \A m \in matches :
       m[1] \in 1..at - 1 /\ m[2] \in m[1] + 1..Len(order) /\ Overlap(m[1], m[2])
  /\ \A m, n \in matches : m # n => {m[1], m[2]} \cap {n[1], n[2]} = {}

\* What the loop has achieved before a round: legal pairs of which each player is
\* in at most one (so the result is one of Matchmaking's Pairings), and nobody who
\* was considered is passed over.
SelectionInv ==
  /\ TypeOK
  /\ QueueIsOrdered
  /\ PairsAreLegal
  /\ \A a \in 1..at - 1, b \in 1..Len(order) : a < b /\ Overlap(a, b) => Served(a, b)

\* i would rather play against j than be left or play against its partner.
Prefers(i, j) ==
  \A m \in matches : (m[1] = i => Before(j, m[2])) /\ (m[2] = i => Before(j, m[1]))

\* The pairs of a tick are stable: no two players whose ranges overlap would both
\* rather have each other, an earlier opponent being preferred ("FIFO fairness").
PairsAreStable ==
  at = Len(order) + 1 =>
    \A i, j \in 1..Len(order) : i # j /\ Overlap(i, j) => ~(Prefers(i, j) /\ Prefers(j, i))

Gap(i, j) == IF Mmr(i) > Mmr(j) THEN Mmr(i) - Mmr(j) ELSE Mmr(j) - Mmr(i)

\* Whom a tick leaves in the queue: two players that are left differ by more than
\* both their initial ranges, and by more than both their largest ranges once both
\* have waited long enough.
StrangersAreLeft ==
  at = Len(order) + 1 =>
    \A i, j \in (1..Len(order)) \ Matched : i # j =>
      /\ Gap(i, j) > 2 * Initial
      /\ Wait(i) >= FullWait => Gap(i, j) > Top + Initial
      /\ Wait(i) >= FullWait /\ Wait(j) >= FullWait => Gap(i, j) > 2 * Top

\* Somebody whom a player with the largest range reaches in any case.
InReach(u) ==
  \E v \in Users \ {u} :
    /\ seen[u] # NoRow /\ seen[v] # NoRow
    /\ seen[u].mmr - seen[v].mmr \in -(Top + Initial)..Top + Initial

\* Nobody waits for ever while players within reach keep coming, however many join
\* and leave: later ones do not overtake.  Only who is put back again and again may.
NobodyStarves ==
  \A u \in Users :
    []<>(row[u] = NoRow) \/ []<>(row[u] # NoRow /\ row[u].wait = 0) \/ <>[](~InReach(u))
=============================================================================
