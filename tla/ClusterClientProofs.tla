------------------------ MODULE ClusterClientProofs ------------------------
(***************************************************************************)
(* The client's loop goes round the nodes: it asks each once before it     *)
(* asks any again, whatever answers and hints it gets, for every length of *)
(* the attempts, of the pause and of the deadline. What a round has asked  *)
(* so far is `visited', but `visited' may also hold the target, after it   *)
(* has said that it is busy. The invariant therefore counts the others.    *)
(***************************************************************************)
EXTENDS ClusterClient, TLAPS

\* What a step takes the variables from and to.
TypeOK ==
  /\ target \in Nodes
  /\ visited \in SUBSET Nodes
  /\ elapsed \in 0..Deadline
  /\ phase \in {"trying", "settled", "gave_up"}
  /\ leader \in Nodes \cup {NoLeader}
  /\ since \in [Nodes -> Nat]

\* The nodes this round has moved on from.
Passed == visited \ {target}

\* How many nodes are in a set of them.
Count(S) ==
  (IF 0 \in S THEN 1 ELSE 0) + (IF 1 \in S THEN 1 ELSE 0) + (IF 2 \in S THEN 1 ELSE 0)

\* A node passed in this round was asked since, and one not passed yet was asked in
\* the round before, after which at most two others came.
RoundsFair ==
  \A n \in Nodes :
    since[n] <= IF n \in Passed THEN Count(Passed) - 1 ELSE Count(Passed) + 2

\* While a leader is looked for it is the first round, which has not passed it and
\* has spent a whole attempt and a pause on each node it has passed, at most.
LeaderAhead ==
  leader # NoLeader /\ phase # "settled" =>
    /\ phase = "trying"
    /\ leader \notin visited
    /\ target \notin visited
    /\ elapsed <= Count(visited) * (Attempt + Wait)

ClientInv == TypeOK /\ RoundsFair /\ LeaderAhead

-----------------------------------------------------------------------------
(* The way round.                                                          *)

\* Steps to nodes not visited yet lead to the others.
LEMMA StepsLead ==
  ASSUME NEW from \in Nodes
  PROVE  /\ \A s \in 1..2 : (from + s) % 3 \in Nodes \ {from}
         /\ \A n \in Nodes \ {from} : \E s \in 1..2 : (from + s) % 3 = n
<1>1. CASE from = 0
  BY <1>1 DEF Nodes
<1>2. CASE from = 1
  BY <1>2 DEF Nodes
<1>3. CASE from = 2
  BY <1>3 DEF Nodes
<1> QED
  BY <1>1, <1>2, <1>3 DEF Nodes

\* The loop moves to a node that was not visited; only when all were does it begin
\* a round, and a hint never takes it back (Move).
LEMMA MoveLeads ==
  ASSUME NEW from \in Nodes, NEW seen \in SUBSET Nodes, from \in seen, NEW hint \in 0..3
  PROVE  LET move == Move(from, seen, hint) IN
         /\ move.to \in Nodes /\ move.to \notin move.seen
         /\ IF seen = Nodes THEN move.seen = {} ELSE move.seen = seen
<1>1. CASE hint \in 1..3 /\ hint - 1 \notin seen
  BY <1>1 DEF Move, Nodes
<1>2. CASE ~(hint \in 1..3 /\ hint - 1 \notin seen) /\ Unvisited(from, seen) # {}
  <2> DEFINE U == Unvisited(from, seen)
  <2>1. U \in SUBSET (1..2) /\ U # {}
    BY <1>2 DEF Unvisited
  <2>2. \E s \in U : \A t \in U : s <= t
    BY <2>1
  <2>3. PICK s : s = CHOOSE r \in U : \A t \in U : r <= t
    OBVIOUS
  <2>4. s \in U
    BY <2>2, <2>3
  <2>5. (from + s) % 3 \in Nodes /\ (from + s) % 3 \notin seen
    BY <2>4, StepsLead DEF Unvisited
  <2>6. Move(from, seen, hint) = [to |-> (from + s) % 3, seen |-> seen]
    BY <1>2, <2>3 DEF Move
  <2> QED
    BY <2>5, <2>6
<1>3. CASE ~(hint \in 1..3 /\ hint - 1 \notin seen) /\ Unvisited(from, seen) = {}
  <2>1. seen = Nodes
    <3>1. \A n \in Nodes \ {from} : n \in seen
      BY <1>3, StepsLead DEF Unvisited
    <3> QED
      BY <3>1
  <2>2. (from + 1) % 3 \in Nodes
    BY StepsLead
  <2>3. Move(from, seen, hint) = [to |-> (from + 1) % 3, seen |-> {}]
    BY <1>3 DEF Move
  <2> QED
    BY <2>1, <2>2, <2>3
<1> QED
  BY <1>1, <1>2, <1>3

\* Of three nodes no more than three are counted, and fewer if one is missing.
LEMMA CountBounds ==
  ASSUME NEW S \in SUBSET Nodes
  PROVE  /\ Count(S) \in 0..3
         /\ Count({}) = 0 /\ Count(Nodes) = 3
         /\ \A n \in Nodes \ S : Count(S \cup {n}) = Count(S) + 1 /\ Count(S) <= 2
  BY DEF Count, Nodes

-----------------------------------------------------------------------------
(* The invariant.                                                          *)

\* It holds before the first attempt.
LEMMA ClientInit == Init => ClientInv
<1> SUFFICES ASSUME Init PROVE ClientInv
  OBVIOUS
<1>1. 0 \in 0..Deadline /\ 0 <= 0 * (Attempt + Wait)
  BY TimeAssumption
<1>2. TypeOK
  BY <1>1 DEF Init, TypeOK, Nodes
<1>3. Passed = {} /\ Count({}) = 0
  BY DEF Init, Passed, Count
<1>4. RoundsFair
  BY <1>3 DEF Init, RoundsFair
<1>5. LeaderAhead
  <2>1. 0 * (Attempt + Wait) = 0
    BY TimeAssumption
  <2> QED
    BY <1>3, <2>1 DEF Init, LeaderAhead
<1> QED
  BY <1>2, <1>4, <1>5 DEF ClientInv

\* The clock does not pass the deadline.
LEMMA LaterBounds ==
  ASSUME TypeOK, NEW d \in 0..Attempt
  PROVE  Later(d) \in 0..Deadline /\ Later(d) <= elapsed + (Attempt + Wait)
<1>1. elapsed \in 0..Deadline /\ elapsed \in Nat /\ d \in Nat /\ d <= Attempt
  BY TimeAssumption DEF TypeOK
<1>2. elapsed + d + Wait \in Nat /\ elapsed + d + Wait <= elapsed + (Attempt + Wait)
  BY <1>1, TimeAssumption
<1> QED
  BY <1>1, <1>2, TimeAssumption DEF Later

\* An attempt that settles nothing.
LEMMA UnsettledKeeps ==
  ASSUME ClientInv, NEW d \in 0..Attempt, NEW hint \in 0..3, unsettled(d, hint)
  PROVE  ClientInv'
<1> DEFINE seen == visited \cup {target}
           move == Move(target, seen, hint)
<1>1. TypeOK /\ RoundsFair /\ LeaderAhead
  BY DEF ClientInv
<1>2. /\ phase = "trying" /\ phase' = "trying" /\ leader' = leader
      /\ leader # target \/ elapsed + Attempt > Deadline
      /\ target' = move.to /\ visited' = move.seen /\ elapsed' = Later(d)
      /\ since' = [n \in Nodes |-> IF n = target THEN 0 ELSE since[n] + 1]
  BY DEF unsettled, Attempting
<1>3. /\ target' \in Nodes /\ target' \notin visited'
      /\ IF seen = Nodes THEN visited' = {} ELSE visited' = seen
  <2>1. target \in Nodes /\ seen \in SUBSET Nodes /\ target \in seen
    BY <1>1 DEF TypeOK
  <2> HIDE DEF seen
  <2> QED
    BY <1>2, <2>1, MoveLeads
<1>4. TypeOK'
  <2>1. visited' \in SUBSET Nodes
    BY <1>1, <1>3 DEF TypeOK
  <2>2. elapsed' \in 0..Deadline
    BY <1>1, <1>2, LaterBounds
  <2>3. since' \in [Nodes -> Nat]
    BY <1>1, <1>2 DEF TypeOK
  <2> QED
    BY <1>1, <1>2, <1>3, <2>1, <2>2, <2>3 DEF TypeOK
<1>5. Passed' = visited'
  BY <1>3 DEF Passed
<1>6. target \in Nodes \ Passed /\ seen = Passed \cup {target} /\ Passed \in SUBSET Nodes
  BY <1>1 DEF Passed, TypeOK
<1>7. PICK c : c = Count(Passed)
  OBVIOUS
<1>8. c \in 0..2 /\ Count(seen) = c + 1
  BY <1>6, <1>7, CountBounds
<1>9. \A n \in Nodes : since[n] \in Nat /\ since[n] <= IF n \in Passed THEN c - 1 ELSE c + 2
  BY <1>1, <1>7 DEF RoundsFair, TypeOK
<1>10. \A n \in seen : since'[n] <= c
  <2> TAKE n \in seen
  <2>1. n \in Nodes
    BY <1>6
  <2>2. CASE n = target
    BY <1>2, <1>8, <2>1, <2>2
  <2>3. CASE n # target
    BY <1>2, <1>6, <1>8, <1>9, <2>1, <2>3
  <2> QED
    BY <2>2, <2>3
<1>11. \A n \in Nodes \ seen : since'[n] <= c + 3
  BY <1>2, <1>6, <1>8, <1>9
<1>12. RoundsFair'
  <2>1. CASE seen = Nodes
    <3>1. Count(Passed') = 0 /\ Passed' = {}
      BY <1>3, <1>5, <2>1, CountBounds, {} \in SUBSET Nodes
    <3>2. \A n \in Nodes : since'[n] <= 0 + 2
      BY SMTT(30), <1>2, <1>4, <1>8, <1>10, <2>1 DEF TypeOK
    <3> QED
      BY <3>1, <3>2 DEF RoundsFair
  <2>2. CASE seen # Nodes
    <3>1. Passed' = seen /\ Count(Passed') = c + 1
      BY <1>3, <1>5, <1>8, <2>2
    <3>2. \A n \in Nodes : since'[n] <= IF n \in seen THEN (c + 1) - 1 ELSE (c + 1) + 2
      BY <1>4, <1>8, <1>10, <1>11 DEF TypeOK
    <3> HIDE DEF seen
    <3> QED
      BY <3>1, <3>2 DEF RoundsFair
  <2> QED
    BY <2>1, <2>2
<1>13. LeaderAhead'
  <2> SUFFICES ASSUME leader # NoLeader
               PROVE  /\ leader \notin visited' /\ target' \notin visited'
                      /\ elapsed' <= Count(visited') * (Attempt + Wait)
    BY <1>2 DEF LeaderAhead
  <2>1. /\ leader \in Nodes /\ leader \notin visited /\ target \notin visited
        /\ elapsed <= Count(visited) * (Attempt + Wait)
    BY <1>1, <1>2 DEF LeaderAhead, TypeOK
  <2>2. Passed = visited /\ c = Count(visited)
    BY <1>7, <2>1 DEF Passed
  <2> DEFINE turn == Attempt + Wait
  <2>3. turn \in Nat /\ Attempt < turn /\ Attempt \in Nat /\ 3 * turn <= Deadline /\ Deadline \in Nat
    BY TimeAssumption, DeadlineAssumption
  <2>4. elapsed \in Nat /\ elapsed <= c * turn /\ elapsed' \in Nat
    BY <1>1, <1>4, <2>1, <2>2, TimeAssumption DEF TypeOK
  <2>5. elapsed' <= elapsed + turn
    BY <1>1, <1>2, LaterBounds
  <2> HIDE DEF turn
  <2>6. c * turn <= 2 * turn /\ (c + 1) * turn = c * turn + turn
    <3>1. CASE c = 0
      BY <2>3, <3>1
    <3>2. CASE c = 1
      BY <2>3, <3>2
    <3>3. CASE c = 2
      BY <2>3, <3>3
    <3> QED
      BY <1>8, <3>1, <3>2, <3>3
  <2>7. c * turn \in Nat
    BY <1>8, <2>3
  <2>8. elapsed + Attempt <= Deadline
    BY <2>3, <2>4, <2>6, <2>7
  <2>9. leader # target
    BY <1>1, <1>2, <2>3, <2>4, <2>8
  <2>10. leader \notin seen /\ seen # Nodes
    BY <2>1, <2>9
  <2>11. visited' = seen
    BY <1>3, <2>10
  <2>12. elapsed' <= (c + 1) * turn
    BY <2>3, <2>4, <2>5, <2>6, <2>7
  <2> HIDE DEF seen
  <2> QED
    BY <1>3, <1>8, <2>10, <2>11, <2>12 DEF turn
<1> QED
  BY <1>4, <1>12, <1>13 DEF ClientInv

\* A busy node is asked again.
LEMMA BusyKeeps ==
  ASSUME ClientInv, NEW d \in 0..Attempt, busy(d)
  PROVE  ClientInv'
<1>1. TypeOK /\ RoundsFair
  BY DEF ClientInv
<1>2. /\ leader = NoLeader /\ visited' = visited \cup {target} /\ elapsed' = Later(d)
      /\ UNCHANGED <<target, phase, leader, since>>
  BY DEF busy
<1>3. TypeOK'
  BY <1>1, <1>2, LaterBounds DEF TypeOK
<1>4. Passed' = Passed
  BY <1>2 DEF Passed
<1>5. RoundsFair'
  BY <1>1, <1>2, <1>4 DEF RoundsFair
<1>6. LeaderAhead'
  BY <1>2 DEF LeaderAhead
<1> QED
  BY <1>3, <1>5, <1>6 DEF ClientInv

\* The loop does not end without an answer while a leader is ahead.
LEMMA EndKeeps ==
  ASSUME ClientInv, give_up \/ (\E d \in 0..Attempt : settled(d))
  PROVE  ClientInv'
<1>1. TypeOK /\ RoundsFair /\ LeaderAhead
  BY DEF ClientInv
<1>2. /\ UNCHANGED <<target, visited, elapsed, leader, since>>
      /\ \/ phase' = "settled"
         \/ phase' = "gave_up" /\ phase = "trying" /\ elapsed >= Deadline
  BY DEF give_up, settled
<1>3. TypeOK'
  BY <1>1, <1>2 DEF TypeOK
<1>4. RoundsFair'
  BY <1>1, <1>2 DEF RoundsFair, Passed
<1>5. LeaderAhead'
  <2> SUFFICES ASSUME leader # NoLeader, phase = "trying", elapsed >= Deadline PROVE FALSE
    BY <1>2 DEF LeaderAhead
  <2>1. /\ leader \in Nodes \ visited /\ visited \in SUBSET Nodes
        /\ elapsed <= Count(visited) * (Attempt + Wait)
    BY <1>1 DEF LeaderAhead, TypeOK
  <2>2. PICK c : c = Count(visited)
    OBVIOUS
  <2>3. c \in 0..2
    <3>1. c \in 0..3 /\ \A n \in Nodes \ visited : c <= 2
      BY <2>1, <2>2, CountBounds
    <3> QED
      BY <2>1, <3>1
  <2> DEFINE turn == Attempt + Wait
  <2>4. turn \in Nat /\ 0 < turn /\ 3 * turn <= Deadline /\ Deadline \in Nat /\ elapsed \in Nat
    BY <1>1, TimeAssumption, DeadlineAssumption DEF TypeOK
  <2>5. elapsed <= c * turn
    BY <2>1, <2>2
  <2> HIDE DEF turn
  <2>6. c = 0 \/ c = 1 \/ c = 2
    BY <2>3
  <2> QED
    BY <2>4, <2>5, <2>6
<1> QED
  BY <1>3, <1>4, <1>5 DEF ClientInv

\* Every state of the loop satisfies the invariant.
THEOREM ClientInvariant == Spec => []ClientInv
<1>1. ASSUME ClientInv, [Next]_cvars PROVE ClientInv'
  <2>1. CASE UNCHANGED cvars
    BY <1>1, <2>1 DEF cvars, ClientInv, TypeOK, RoundsFair, LeaderAhead, Passed
  <2>2. CASE \E d \in 0..Attempt : settled(d)
    BY <1>1, <2>2, EndKeeps
  <2>3. CASE \E d \in 0..Attempt : busy(d)
    BY <1>1, <2>3, BusyKeeps
  <2>4. CASE \E d \in 0..Attempt : \E hint \in 0..3 : unsettled(d, hint)
    BY <1>1, <2>4, UnsettledKeeps
  <2>5. CASE give_up
    BY <1>1, <2>5, EndKeeps
  <2> QED
    BY <1>1, <2>1, <2>2, <2>3, <2>4, <2>5 DEF Next, Step, Finished
<1> QED
  BY ClientInit, <1>1, PTL DEF Spec

\* Whatever the answers and hints, stale or circular, no node waits for more than
\* four attempts at others (the visited array of run_cluster).
THEOREM NodesAreAsked == Spec => []NodesTakeTurns
<1>1. ClientInv => NodesTakeTurns
  <2> SUFFICES ASSUME ClientInv PROVE NodesTakeTurns
    OBVIOUS
  <2>1. TypeOK /\ RoundsFair
    BY DEF ClientInv
  <2>2. Passed \in SUBSET Nodes /\ target \in Nodes \ Passed
    BY <2>1 DEF TypeOK, Passed
  <2>3. Count(Passed) \in 0..2
    <3>1. Count(Passed) \in 0..3 /\ \A n \in Nodes \ Passed : Count(Passed) <= 2
      BY <2>2, CountBounds
    <3> QED
      BY <2>2, <3>1
  <2> QED
    BY <2>1, <2>3 DEF NodesTakeTurns, RoundsFair, TypeOK
<1> QED
  BY <1>1, ClientInvariant, PTL

\* A node that leads all the while is found before the deadline, if that leaves time
\* for an attempt at each node (run_cluster's deadline).
THEOREM LeaderIsFound == Spec => []FindsLeader
<1>1. ClientInv => FindsLeader
  BY DEF ClientInv, LeaderAhead, FindsLeader
<1> QED
  BY <1>1, ClientInvariant, PTL
=============================================================================
