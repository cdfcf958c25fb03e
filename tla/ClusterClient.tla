--------------------------- MODULE ClusterClient ---------------------------
(***************************************************************************)
(* The retry loop of the client over the three nodes (run_cluster in       *)
(* src/dkv_client.cpp): which node it asks next, what it makes of the      *)
(* answers and of their leader hints, and when it gives up.                *)
(*                                                                         *)
(* Nodes are the positions in `ports', 0 to 2, and hints are node ids, 1   *)
(* to 3 or 0 for none. Time is counted in waits of 75 ms.                  *)
(***************************************************************************)
EXTENDS Naturals, FiniteSets

CONSTANTS
  Wait,      \* the pause between attempts: 1
  Attempt,   \* the longest attempt: 13 waits are a second
  Deadline   \* when the loop ends: 107 waits are eight seconds

ASSUME TimeAssumption ==
  Wait \in Nat \ {0} /\ Attempt \in Nat /\ Deadline \in Nat

\* Each node can be asked once, however slow the others are (8 s against 1 s).
ASSUME DeadlineAssumption == 3 * (Attempt + Wait) <= Deadline

VARIABLES
  target, visited, elapsed,
  phase,   \* "trying", "settled" or "gave_up"
  leader,  \* the node that leads all the while, 3 when none does
  since    \* history: attempts at other nodes since each node's last one

cvars == <<target, visited, elapsed, phase, leader, since>>

Nodes == 0..2
NoLeader == 3

Init ==
  /\ target = 0
  /\ visited = {}
  /\ elapsed = 0
  /\ phase = "trying"
  /\ leader \in Nodes \cup {NoLeader}
  /\ since = [n \in Nodes |-> 0]

-----------------------------------------------------------------------------

\* The steps from the target to a node not visited yet.
Unvisited(from, seen) == {s \in 1..2 : (from + s) % 3 \notin seen}

\* Mutant: a hint is followed even to a node that was asked before.
MoveToHint(from, seen, hint) ==
  IF hint \in 1..3 THEN [to |-> hint - 1, seen |-> seen]
  ELSE IF Unvisited(from, seen) # {}
  THEN [to |-> (from + (CHOOSE s \in Unvisited(from, seen) :
                          \A t \in Unvisited(from, seen) : s <= t)) % 3,
        seen |-> seen]
  ELSE [to |-> (from + 1) % 3, seen |-> {}]

\* Where the loop goes after an answer that settles nothing: to the hinted node
\* unless it was visited, else to the next one that was not, else around again.
Move(from, seen, hint) ==
  IF hint \in 1..3 /\ hint - 1 \notin seen THEN [to |-> hint - 1, seen |-> seen]
  ELSE IF Unvisited(from, seen) # {}
  THEN [to |-> (from + (CHOOSE s \in Unvisited(from, seen) :
                          \A t \in Unvisited(from, seen) : s <= t)) % 3,
        seen |-> seen]
  ELSE [to |-> (from + 1) % 3, seen |-> {}]

\* Mutant: an attempt that is not answered at once lasts until the deadline.
LaterAtDeadline(d) == IF d = 0 THEN elapsed + Wait ELSE Deadline

\* Mutant: the loop does not pause.
LaterWithoutPause(d) == elapsed + d

\* The clock after an attempt of d waits and the pause that follows it.
Later(d) == IF elapsed + d + Wait < Deadline THEN elapsed + d + Wait ELSE Deadline

\* exchange at the target, and what it may have taken.
Attempting(d) ==
  /\ phase = "trying"
  /\ elapsed < Deadline
  /\ d \in 0..Attempt
  /\ elapsed + d <= Deadline

\* Committed, Found, NotFound or InvalidRequest. Only a leader gives such an
\* answer to a well-formed request, and only while it leads.
settled(d) ==
  /\ Attempting(d)
  /\ leader \in {target, NoLeader}
  /\ phase' = "settled"
  /\ UNCHANGED <<target, visited, elapsed, leader, since>>

\* No answer, or one without a result. The leader answers, unless what is left
\* until the deadline is shorter than an attempt.
unsettled(d, hint) ==
  /\ Attempting(d)
  /\ leader # target \/ elapsed + Attempt > Deadline
  /\ LET move == Move(target, visited \cup {target}, hint) IN
     /\ target' = move.to
     /\ visited' = move.seen
  /\ elapsed' = Later(d)
  /\ since' = [n \in Nodes |-> IF n = target THEN 0 ELSE since[n] + 1]
  /\ UNCHANGED <<phase, leader>>

\* Busy: the same node again. Only a node that leads, or believes it does, says so.
busy(d) ==
  /\ Attempting(d)
  /\ leader = NoLeader
  /\ visited' = visited \cup {target}
  /\ elapsed' = Later(d)
  /\ UNCHANGED <<target, phase, leader, since>>

give_up ==
  /\ phase = "trying"
  /\ elapsed >= Deadline
  /\ phase' = "gave_up"
  /\ UNCHANGED <<target, visited, elapsed, leader, since>>

Step ==
  \/ \E d \in 0..Attempt :
       \/ settled(d)
       \/ busy(d)
       \/ \E hint \in 0..3 : unsettled(d, hint)
  \/ give_up

Finished == phase # "trying" /\ UNCHANGED cvars

Next == Step \/ Finished

\* The loop is one thread and every exchange ends by its deadline.
Spec == Init /\ [][Next]_cvars /\ WF_cvars(Step)

-----------------------------------------------------------------------------
(* Properties.                                                             *)

\* Whatever the answers and hints, stale or circular, no node waits for more than
\* four attempts at others before it is asked again (the visited array of
\* run_cluster).
NodesTakeTurns == \A n \in Nodes : since[n] <= 4

\* A node that leads all the while and answers within a second is found before
\* the deadline, wherever it is and whatever the other nodes say.
FindsLeader == leader # NoLeader => phase # "gave_up"

\* The loop ends, also when nobody ever answers.
Terminates == <>(phase # "trying")
=============================================================================
