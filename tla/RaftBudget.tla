----------------------------- MODULE RaftBudget -----------------------------
(***************************************************************************)
(* Bounds for finite instances of the cluster. The environment is given a   *)
(* budget, which an instance chooses at the start from a few plans.         *)
(***************************************************************************)
EXTENDS RaftHistory, FiniteSets

CONSTANTS
  n1, n2, n3,
  Plans  \* the budgets to explore, as a sequence

VARIABLES
  plan,   \* the budget in force
  faults  \* the crashes of running nodes and failed writes so far

MCServer == {n1, n2, n3}

\* Who may stand for election in which term, which links deliver anything, how many
\* distinct messages are sent, how many faults there are, and how often a node calls
\* read_barrier.
ReadPlan(campaigns, links, messages, max_faults, reads) ==
  [campaigns |-> campaigns, links |-> links, messages |-> messages,
   faults |-> max_faults, reads |-> reads]
Plan(campaigns, links, messages, max_faults) ==
  ReadPlan(campaigns, links, messages, max_faults, 0)

N1WithN2 == {<<n1, n2>>, <<n2, n1>>}
ThroughN2 == {<<n1, n2>>, <<n2, n1>>, <<n3, n2>>, <<n2, n3>>}

\* n1 is elected twice; n2 takes over from n1; the two ends of a line take turns.
Again == {<<n1, 1>>, <<n1, 2>>}
Handover == {<<n1, 1>>, <<n2, 2>>}
Figure8 == {<<n1, 1>>, <<n3, 1>>, <<n3, 2>>, <<n1, 3>>, <<n3, 4>>}

\* Leaders that crash and return, and followers whose writes fail while they
\* replace the entries of an earlier leader.
Recovering == <<Plan(Again, N1WithN2, 14, 2), Plan(Handover, ThroughN2, 12, 1)>>
Committing == <<Plan(Figure8, ThroughN2, 26, 0)>>
Acknowledging == <<Plan(Again, N1WithN2, 19, 1)>>
Retrying == <<Plan(Handover, N1WithN2, 16, 1)>>
Reading ==
  <<ReadPlan(Handover, ThroughN2, 16, 0, 1), ReadPlan(Handover, N1WithN2, 17, 0, 2)>>
Rejecting == <<Plan(Again, N1WithN2, 18, 1)>>

StartBudget == plan \in DOMAIN Plans /\ faults = 0

Delivers(m) == <<m.from, m.to>> \in Plans[plan].links

NoFault == UNCHANGED <<plan, faults>>
Fault == faults < Plans[plan].faults /\ faults' = faults + 1 /\ UNCHANGED plan

Budget ==
  /\ Cardinality(msgs) <= Plans[plan].messages
  /\ \A i \in Server :
       /\ election_term[i] # 0 => <<i, election_term[i]>> \in Plans[plan].campaigns
       /\ (next_read_id[i] + MaxReadId) % (MaxReadId + 1) <= Plans[plan].reads

\* No node has run into the end of the terms, indices or read ids.
NoLimit == \A i \in Server : stopped[i] \in {"None", "PersistenceError"}
=============================================================================
