------------------------------- MODULE MCRaft -------------------------------
(***************************************************************************)
(* Bounded instances of the cluster of nodes. Reads are left to MCServers.  *)
(***************************************************************************)
EXTENDS RaftBudget

mcvars == <<hvars, plan, faults>>

MCInit == HInit /\ StartBudget

MCStep ==
  \/ \E i \in Server : \/ on_election_timeout(i)
                       \/ election_term_exhausted(i)
                       \/ on_heartbeat_timeout(i)
                       \/ \E command \in Command : propose(i, command)
  \/ \E m \in msgs : Delivers(m) /\ Receive(m.to, m)
  \/ \E i \in Server : stopped[i] # "None" /\ Restart(i)

MCFault ==
  \E i \in Server : Live(i) /\ (Failure(i) \/ Restart(i))

MCNext ==
  /\ \/ MCStep /\ NoFault
     \/ Fault /\ MCFault
  /\ Record

MCSpec == MCInit /\ [][MCNext]_mcvars
=============================================================================
