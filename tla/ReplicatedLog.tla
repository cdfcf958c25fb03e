--------------------------- MODULE ReplicatedLog ---------------------------
(***************************************************************************)
(* What the cluster promises: one history of committed entries that only   *)
(* ever grows, and replicas whose state machines have each been fed a      *)
(* prefix of it, start over after a crash, and never diverge.              *)
(***************************************************************************)
EXTENDS Naturals, Sequences

CONSTANT Replica

VARIABLES
  committed,  \* the history
  fed         \* what each replica's state machine has been given

vars == <<committed, fed>>

Extends(s, t) == Len(s) >= Len(t) /\ SubSeq(s, 1, Len(t)) = t

Init ==
  /\ committed = <<>>
  /\ fed = [i \in Replica |-> <<>>]

\* One replica decides new entries and applies them in the same step.
Commit(i) ==
  /\ Len(committed') > Len(committed)
  /\ Extends(committed', committed)
  /\ fed' = [fed EXCEPT ![i] = committed']

\* A replica catches up with part of what is committed.
Learn(i) ==
  /\ UNCHANGED committed
  /\ Len(fed'[i]) > Len(fed[i])
  /\ Extends(fed'[i], fed[i])
  /\ Extends(committed, fed'[i])
  /\ fed' = [fed EXCEPT ![i] = fed'[i]]

\* A replica restarts with an empty state machine.
Reset(i) ==
  /\ UNCHANGED committed
  /\ fed' = [fed EXCEPT ![i] = <<>>]

Next == \E i \in Replica : Commit(i) \/ Learn(i) \/ Reset(i)

Spec == Init /\ [][Next]_vars
=============================================================================
