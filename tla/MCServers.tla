----------------------------- MODULE MCServers -----------------------------
(***************************************************************************)
(* Bounded instances of the cluster of servers and their clients.          *)
(***************************************************************************)
EXTENDS RaftServer, RaftBudget

CONSTANTS k1, v1, v2, r1

mcvars == <<svars, plan, faults>>

Put(v, r) == [type |-> "Put", key |-> k1, value |-> v, request_id |-> r]

SameId == {Put(v1, r1), Put(v2, r1)}
FromConsole == {Put(v1, NoId)}

MCInit == SInit /\ StartBudget

MCStep ==
  \/ \E i \in Server : Client(i) \/ (Timer(i) /\ Settle(i))
  \/ \E m \in msgs : Delivers(m) /\ Receive(m.to, m) /\ Settle(m.to)
  \/ \E i \in Server : stopped[i] # "None" /\ Restart(i) /\ Settle(i)

MCFault ==
  \E i \in Server :
    Live(i) /\ \/ Restart(i) /\ Settle(i)
               \/ EventFails(i) /\ Settle(i)
               \/ \E c \in Command : write_proposal_fails(i, c)

MCNext ==
  \/ MCStep /\ NoFault
  \/ Fault /\ MCFault

MCSpec == MCInit /\ [][MCNext]_mcvars
=============================================================================
