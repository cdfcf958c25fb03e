---------------------------- MODULE RaftHistory ----------------------------
(***************************************************************************)
(* The cluster of RaftNode with two history variables, which no action     *)
(* reads: what has been committed so far, and how much of it was committed *)
(* when each read in progress was asked.                                   *)
(***************************************************************************)
EXTENDS RaftNode

VARIABLES
  chosen,      \* the longest committed prefix any node has had
  read_floor   \* per node, [id, floor] of every read in progress

hvars == <<vars, chosen, read_floor>>

HInit ==
  /\ Init
  /\ chosen = <<>>
  /\ read_floor = [i \in Server |-> {}]

\* Some node's commit index went past everything committed before.
Longer(i) == commit_index'[i] > Len(chosen)

\* What a step adds to the history.
Record ==
  /\ IF \E i \in Server : Longer(i)
       THEN \E i \in Server : Longer(i) /\ chosen' = SubSeq(log'[i], 1, commit_index'[i])
       ELSE UNCHANGED chosen
  /\ read_floor' = [i \in Server |->
       {[id |-> r.id,
         floor |-> IF \E f \in read_floor[i] : f.id = r.id
                     THEN (CHOOSE f \in read_floor[i] : f.id = r.id).floor
                     ELSE Len(chosen)] : r \in read_rounds'[i]}]

HNext == Next /\ Record

HSpec == HInit /\ [][HNext]_hvars

-----------------------------------------------------------------------------
(* Properties.                                                             *)

\* The cluster implements the abstract replicated log: committed entries are
\* never taken back or rewritten and every state machine is fed a prefix of one
\* history, through elections, lost messages, crashes and partial writes
\* (commit_index_ and apply_ready in raft_node.cpp).
Replicated == INSTANCE ReplicatedLog
  WITH Replica <- Server, committed <- chosen, fed <- applied

ReplicatedSpec == Replicated!Spec

\* Every committed entry is on the disks of two nodes at all times: a crash of
\* any one node, at any moment, loses nothing (the durable writes of
\* handle_append_entries and append_command precede the acknowledgments).
CommittedOnMajority ==
  \A k \in 1..Len(chosen) :
    \E i, j \in Server :
      /\ i # j
      /\ Len(log[i]) >= k /\ SubSeq(log[i], 1, k) = SubSeq(chosen, 1, k)
      /\ Len(log[j]) >= k /\ SubSeq(log[j], 1, k) = SubSeq(chosen, 1, k)

\* A leader of the highest term has every committed entry in its log
\* (candidate_log_is_up_to_date together with the current-term rule of
\* advance_commit_index).
LeaderCompleteness ==
  \A i \in Server :
    Active(i) /\ (\A j \in Server : current_term[j] <= leader_term[i]) =>
      Len(log[i]) >= Len(chosen) /\ SubSeq(log[i], 1, Len(chosen)) = chosen

\* A read that is handed to the caller sees everything that was committed
\* anywhere when it was asked (read_barrier, start_waiting_reads and the probe
\* comparison of on_append_reply). It is handed over when its round leaves
\* read_rounds while the leader object stays.
ReadsAreFresh ==
  [][\A i \in Server : \A f \in read_floor[i] :
       leader_term'[i] # 0 /\ (\A r \in read_rounds'[i] : r.id # f.id)
         => Len(applied'[i]) >= f.floor]_hvars
=============================================================================
