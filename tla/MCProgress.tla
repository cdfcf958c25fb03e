----------------------------- MODULE MCProgress -----------------------------
(***************************************************************************)
(* A bounded instance of two servers that run and one that is down.        *)
(***************************************************************************)
EXTENDS RaftTimers, TLC

CONSTANTS n1, n2, n3, c1

MCServer == {n1, n2, n3}
Pair == {n1, n2}

Of(term, command) == [term |-> term, command |-> command]
Disk(term, vote, lg) == [term |-> term, vote |-> vote, log |-> lg]

Fresh == Disk(0, Nobody, <<>>)

\* n1 led term 1 and wrote c1 by itself; n2 led term 2 with the vote of n3.
Diverged ==
  (n1 :> Disk(1, n1, <<Of(1, NoOp), Of(1, c1)>>)) @@
  (n2 :> Disk(2, n2, <<Of(1, NoOp), Of(2, NoOp)>>)) @@
  (n3 :> Disk(2, n2, <<Of(1, NoOp)>>))

MCDisks == {[i \in MCServer |-> Fresh], Diverged}
MCEarly == {<<n1, 1>>, <<n2, 3>>}
=============================================================================
