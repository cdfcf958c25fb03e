------------------------------ MODULE RaftNode ------------------------------
(***************************************************************************)
(* A cluster of three RaftNode objects (src/raft_node.cpp) exchanging      *)
(* messages, with the election (src/raft_election.cpp), the replication    *)
(* progress of a leader (src/raft_leader.cpp), voting (src/raft_vote.cpp), *)
(* appending (src/raft_append.cpp) and applying (src/raft_apply.cpp).      *)
(*                                                                         *)
(* A node handles one event at a time, so one handler call is one action.  *)
(* Inside a handler the durable writes come first and the volatile changes *)
(* and the messages follow; a crash or an I/O error part of the way through*)
(* is a `..._write_fails' action that leaves one of the possible durable   *)
(* images behind and stops the node.                                       *)
(*                                                                         *)
(* The network is the set of all messages ever sent. Receiving does not    *)
(* remove one, so a message may be lost (never received), delayed,         *)
(* reordered or received again. Timers may fire at any moment.             *)
(***************************************************************************)
EXTENDS RaftLog

VARIABLES
  \* Durable: PersistentMetadata and PersistentLog.
  current_term, voted_for, log,
  \* RaftNode: commit_index_, the entries given to state_, known_leader_,
  \* next_read_id_, and stopped_ with the error that stopped the node.
  commit_index, applied, known_leader, next_read_id, stopped,
  \* RaftElection: role_, election_term_, replied_, granted_votes_.
  role, election_term, replied, granted_votes,
  \* leader_: its term_ (0 when there is no object), its peers_, and the reads
  \* waiting for it (index 0 until the probe is sent).
  leader_term, peers, read_rounds,
  \* Every message ever sent.
  msgs

metadata == <<current_term, voted_for>>
node == <<commit_index, applied, known_leader, next_read_id, stopped>>
election == <<role, election_term, replied, granted_votes>>
leader == <<leader_term, peers, read_rounds>>
vars == <<metadata, log, node, election, leader, msgs>>

Errors == {"PersistenceError", "InconsistentState", "TermExhausted"}

PeerState ==
  [next_index : Nat, match_index : Nat, pending : AppendEntries \cup {NoRequest}]

\* What a node that leads nobody holds.
NoProgress == [next_index |-> 1, match_index |-> 0, pending |-> NoRequest]

Init ==
  /\ current_term = [i \in Server |-> 0]
  /\ voted_for = [i \in Server |-> Nobody]
  /\ log = [i \in Server |-> <<>>]
  /\ commit_index = [i \in Server |-> 0]
  /\ applied = [i \in Server |-> <<>>]
  /\ known_leader = [i \in Server |-> Nobody]
  /\ next_read_id = [i \in Server |-> 1]
  /\ stopped = [i \in Server |-> "None"]
  /\ role = [i \in Server |-> "Follower"]
  /\ election_term = [i \in Server |-> 0]
  /\ replied = [i \in Server |-> {}]
  /\ granted_votes = [i \in Server |-> 0]
  /\ leader_term = [i \in Server |-> 0]
  /\ peers = [i \in Server |-> [p \in Server |-> NoProgress]]
  /\ read_rounds = [i \in Server |-> {}]
  /\ msgs = {}

-----------------------------------------------------------------------------
(* Shared parts of the handlers.                                           *)

Live(i) == stopped[i] = "None"

\* RaftElection::role: the stored role is stale once the term or vote moved on.
Role(i) ==
  IF current_term[i] = election_term[i] /\ voted_for[i] = i
    THEN role[i] ELSE "Follower"

\* The condition refresh_role_from_metadata acts on.
StaleRole(i) == role[i] # "Follower" /\ Role(i) = "Follower"

\* RaftLeaderReplication::active. Its stopped_ flag is only set in steps that
\* also destroy the object.
Active(i) ==
  /\ leader_term[i] # 0
  /\ Role(i) = "Leader"
  /\ current_term[i] = leader_term[i]
  /\ voted_for[i] = i

\* PersistentMetadata::advance_term: a newer term starts without a vote, an
\* older or equal one changes nothing.
advance_term(i, term) ==
  /\ current_term' = [current_term EXCEPT ![i] = IF term > @ THEN term ELSE @]
  /\ voted_for' = [voted_for EXCEPT ![i] =
                     IF term > current_term[i] THEN Nobody ELSE @]

become_follower(i) ==
  /\ role' = [role EXCEPT ![i] = "Follower"]
  /\ election_term' = [election_term EXCEPT ![i] = 0]
  /\ replied' = [replied EXCEPT ![i] = {}]
  /\ granted_votes' = [granted_votes EXCEPT ![i] = 0]

\* Mutant: the leader object outlives its term.
drop_hint(i, hint) ==
  /\ read_rounds' = [read_rounds EXCEPT ![i] = {}]
  /\ known_leader' = [known_leader EXCEPT ![i] = hint]
  /\ UNCHANGED <<leader_term, peers>>

\* drop_leadership, and the leader hint the handler leaves behind.
drop_leadership(i, hint) ==
  /\ leader_term' = [leader_term EXCEPT ![i] = 0]
  /\ peers' = [peers EXCEPT ![i] = [p \in Server |-> NoProgress]]
  /\ read_rounds' = [read_rounds EXCEPT ![i] = {}]
  /\ known_leader' = [known_leader EXCEPT ![i] = hint]

stop(i, error) ==
  /\ stopped' = [stopped EXCEPT ![i] = error]
  /\ drop_leadership(i, Nobody)

\* The checks of make_request and queue_append that make the caller stop.
CanQueue(lg, commit, ps, S) ==
  /\ commit <= Len(lg)
  /\ \A p \in S : ps[p].pending = NoRequest =>
                    ps[p].next_index \in 1..(Len(lg) + 1)

\* queue_append for the peers in S: an outstanding request is sent again, the
\* others get a new one.
Queued(i, term, lg, commit, ps, S) ==
  [p \in Server |->
     IF p \in S /\ ps[p].pending = NoRequest
       THEN [ps[p] EXCEPT !.pending =
               make_request(i, p, term, lg, commit, ps[p].next_index)]
       ELSE ps[p]]

Requests(ps, S) == {ps[p].pending : p \in S}

\* apply_committed: the errors, and the state machine's input afterwards.
CanApply(lg, ap, commit) == commit <= Len(lg) /\ Len(ap) <= commit

apply_committed(lg, ap, commit) == ap \o SubSeq(lg, Len(ap) + 1, commit)

\* Mutant: any committed entry will do.
something_committed(lg, ap, commit, term) == commit # 0 /\ Len(ap) >= commit

current_term_committed(lg, ap, commit, term) ==
  commit # 0 /\ Len(ap) >= commit /\ has_entry(lg, commit, term)

\* The probes of those of the rounds that have been started.
Probes(i, term, rounds) ==
  {ReadProbe(i, p, term, r) : p \in Peers(i), r \in {q \in rounds : q.index # 0}}

\* start_waiting_reads: the rounds afterwards, and those of them that had no probe
\* before. Only these are sent.
StartedRounds(rounds, commit) ==
  {IF r.index = 0 THEN [r EXCEPT !.index = commit] ELSE r : r \in rounds}

NewlyStarted(rounds, commit) == StartedRounds(rounds, commit) \ rounds

-----------------------------------------------------------------------------
(* Timers.                                                                 *)

\* Mutant: the last term is not recognised.
CanCampaignForever(i) == Live(i) /\ Role(i) # "Leader"

\* start_election goes ahead.
CanCampaign(i) ==
  /\ Live(i)
  /\ Role(i) # "Leader"
  /\ current_term[i] < MaxTerm

\* on_election_timeout of a node that is not leader (for a leader it returns
\* no action): a new term, a vote for itself, and a request to both peers.
on_election_timeout(i) ==
  /\ CanCampaign(i)
  /\ LET term == current_term[i] + 1 IN
     /\ current_term' = [current_term EXCEPT ![i] = term]
     /\ voted_for' = [voted_for EXCEPT ![i] = i]
     /\ role' = [role EXCEPT ![i] = "Candidate"]
     /\ election_term' = [election_term EXCEPT ![i] = term]
     /\ replied' = [replied EXCEPT ![i] = {}]
     /\ granted_votes' = [granted_votes EXCEPT ![i] = 1]
     /\ drop_leadership(i, Nobody)
     /\ msgs' = msgs \cup
          {[kind |-> "RequestVote", from |-> i, to |-> p, term |-> term,
            last_log_index |-> last_index(log[i]),
            last_log_term |-> last_term(log[i])] : p \in Peers(i)}
  /\ UNCHANGED <<log, commit_index, applied, next_read_id, stopped>>

\* The same at the last representable term: ElectionStartError::TermExhausted.
election_term_exhausted(i) ==
  /\ Live(i)
  /\ Role(i) # "Leader"
  /\ current_term[i] = MaxTerm
  /\ IF StaleRole(i) THEN become_follower(i) ELSE UNCHANGED election
  /\ stop(i, "TermExhausted")
  /\ UNCHANGED <<metadata, log, commit_index, applied, next_read_id, msgs>>

\* Mutant: a request that is outstanding is not sent again.
heartbeat_sends_news(i) ==
  /\ Live(i)
  /\ Active(i)
  /\ LET idle == {p \in Peers(i) : peers[i][p].pending = NoRequest} IN
     /\ peers' = [peers EXCEPT ![i] =
          Queued(i, leader_term[i], log[i], commit_index[i], @, idle)]
     /\ msgs' = msgs \cup Requests(peers'[i], idle)
                     \cup Probes(i, leader_term[i], read_rounds[i])
  /\ UNCHANGED <<metadata, log, election, node, leader_term, read_rounds>>

\* Mutant: the probes of waiting reads are not sent again.
heartbeat_forgets_reads(i) ==
  /\ Live(i)
  /\ Active(i)
  /\ peers' = [peers EXCEPT ![i] =
       Queued(i, leader_term[i], log[i], commit_index[i], @, Peers(i))]
  /\ msgs' = msgs \cup Requests(peers'[i], Peers(i))
  /\ UNCHANGED <<metadata, log, election, node, leader_term, read_rounds>>

\* on_heartbeat_timeout: a request to both peers, and every started read probe
\* once more.
on_heartbeat_timeout(i) ==
  /\ Live(i)
  /\ leader_term[i] # 0
  /\ IF ~Active(i)
       THEN drop_leadership(i, Nobody) /\ UNCHANGED <<stopped, msgs>>
       ELSE IF ~CanQueue(log[i], commit_index[i], peers[i], Peers(i))
       THEN stop(i, "InconsistentState") /\ UNCHANGED msgs
       ELSE /\ peers' = [peers EXCEPT ![i] =
                 Queued(i, leader_term[i], log[i], commit_index[i], @, Peers(i))]
            /\ msgs' = msgs \cup Requests(peers'[i], Peers(i))
                            \cup Probes(i, leader_term[i], read_rounds[i])
            /\ UNCHANGED <<leader_term, read_rounds, known_leader, stopped>>
  /\ UNCHANGED <<metadata, log, election, commit_index, applied, next_read_id>>

-----------------------------------------------------------------------------
(* Voting.                                                                 *)

\* Mutant: the candidate's log is not compared.
GrantsAnyLog(i, m) ==
  /\ m.term >= current_term[i]
  /\ m.term = current_term[i] => voted_for[i] \in {Nobody, m.from}

\* Mutant: an earlier vote in the same term is forgotten.
GrantsAgain(i, m) ==
  m.term >= current_term[i] /\ candidate_log_is_up_to_date(m, log[i])

\* handle_request_vote grants the vote.
Grants(i, m) ==
  /\ m.term >= current_term[i] /\ m.term # 0
  /\ m.term = current_term[i] => voted_for[i] \in {Nobody, m.from}
  /\ candidate_log_is_up_to_date(m, log[i])

ToVote(i, m) == Live(i) /\ m.kind = "RequestVote"

\* on_request_vote: the term is raised before anything is compared.
on_request_vote(i, m) ==
  /\ ToVote(i, m)
  /\ current_term' = [current_term EXCEPT ![i] = IF m.term > @ THEN m.term ELSE @]
  /\ voted_for' = [voted_for EXCEPT ![i] =
       IF Grants(i, m) THEN m.from
       ELSE IF m.term > current_term[i] THEN Nobody ELSE @]
  /\ IF m.term > current_term[i]
       THEN drop_leadership(i, Nobody)
       ELSE UNCHANGED <<leader, known_leader>>
  /\ msgs' = msgs \cup
       {[kind |-> "RequestVoteReply", from |-> i, to |-> m.from,
         term |-> current_term'[i], vote_granted |-> Grants(i, m)]}
  /\ UNCHANGED <<log, election, commit_index, applied, next_read_id, stopped>>

\* on_vote_reply ends in VoteReplyOutcome::SteppedDown: the stored role was
\* stale, or the reply carries a newer term.
vote_reply_steps_down(i, m) ==
  /\ Live(i)
  /\ m.kind = "RequestVoteReply"
  /\ StaleRole(i) \/ m.term > current_term[i]
  /\ IF StaleRole(i) THEN UNCHANGED metadata ELSE advance_term(i, m.term)
  /\ become_follower(i)
  /\ drop_leadership(i, Nobody)
  /\ UNCHANGED <<log, commit_index, applied, next_read_id, stopped, msgs>>

\* The reply is the first of this peer in this candidate's election.
FreshVoteReply(i, m) ==
  /\ Live(i)
  /\ m.kind = "RequestVoteReply"
  /\ Role(i) = "Candidate"
  /\ m.term = election_term[i]
  /\ m.from \notin replied[i]

\* This reply makes the majority.
WinsElection(i, m) ==
  FreshVoteReply(i, m) /\ m.vote_granted /\ granted_votes[i] + 1 >= 2

\* VoteReplyOutcome::Recorded: a refusal, or a vote that is not yet a majority.
vote_reply_recorded(i, m) ==
  /\ FreshVoteReply(i, m)
  /\ ~WinsElection(i, m)
  /\ replied' = [replied EXCEPT ![i] = @ \cup {m.from}]
  /\ granted_votes' = [granted_votes EXCEPT ![i] = IF m.vote_granted THEN @ + 1 ELSE @]
  /\ UNCHANGED <<metadata, log, node, role, election_term, leader, msgs>>

\* The RaftLeaderReplication constructor throws.
CannotLead(i) ==
  \/ current_term[i] = 0
  \/ last_index(log[i]) >= MaxIndex
  \/ commit_index[i] > last_index(log[i])
  \/ voted_for[i] # i

\* VoteReplyOutcome::BecameLeader: the leader object is made from the log as it
\* stands, then the no-op of the new term is appended and sent.
vote_reply_becomes_leader(i, m) ==
  /\ WinsElection(i, m)
  /\ replied' = [replied EXCEPT ![i] = @ \cup {m.from}]
  /\ granted_votes' = [granted_votes EXCEPT ![i] = @ + 1]
  /\ role' = [role EXCEPT ![i] = "Leader"]
  /\ IF CannotLead(i)
       THEN stop(i, "InconsistentState") /\ UNCHANGED <<log, msgs>>
       ELSE LET first == last_index(log[i]) + 1
                made == [p \in Server |-> [NoProgress EXCEPT !.next_index = first]]
            IN
            /\ log' = [log EXCEPT ![i] =
                 Append(@, [term |-> current_term[i], command |-> NoOp])]
            /\ leader_term' = [leader_term EXCEPT ![i] = current_term[i]]
            /\ peers' = [peers EXCEPT ![i] =
                 Queued(i, current_term[i], log'[i], commit_index[i], made, Peers(i))]
            /\ known_leader' = [known_leader EXCEPT ![i] = i]
            /\ msgs' = msgs \cup Requests(peers'[i], Peers(i))
            /\ UNCHANGED <<read_rounds, stopped>>
  /\ UNCHANGED <<metadata, election_term, commit_index, applied, next_read_id>>

-----------------------------------------------------------------------------
(* Receiving entries.                                                      *)

ToAppend(i, m) == Live(i) /\ m.kind = "AppendEntries"

AppendReply(i, m, term, success) ==
  [kind |-> "AppendEntriesReply", from |-> i, to |-> m.from, term |-> term,
   success |-> success, replied_to |-> m]

\* AppendEntriesHandleError::InvalidRequest, from the request or from an entry
\* that equals ours in index and term but not in command.
InvalidRequest(i, m) ==
  \/ ~valid_entries(m)
  \/ commit_index[i] > last_index(log[i])
  \/ previous_matches(log[i], m) /\ CommandMismatch(log[i], m)

\* A request of an older term is answered with the newer one.
append_entries_stale(i, m) ==
  /\ ToAppend(i, m)
  /\ m.term = 0 \/ m.term < current_term[i]
  /\ msgs' = msgs \cup {AppendReply(i, m, current_term[i], FALSE)}
  /\ UNCHANGED <<metadata, log, node, election, leader>>

\* A request this node cannot use: answered with a refusal when the entry before
\* the batch is missing or of another term, dropped when it is invalid.
append_entries_rejected(i, m) ==
  /\ ToAppend(i, m)
  /\ m.term # 0 /\ m.term >= current_term[i]
  /\ InvalidRequest(i, m) \/ ~previous_matches(log[i], m)
  /\ advance_term(i, m.term)
  /\ IF InvalidRequest(i, m)
       THEN /\ IF m.term > current_term[i]
                 THEN drop_leadership(i, Nobody)
                 ELSE UNCHANGED <<leader, known_leader>>
            /\ UNCHANGED <<election, msgs>>
       ELSE /\ become_follower(i)
            /\ drop_leadership(i, m.from)
            /\ msgs' = msgs \cup {AppendReply(i, m, m.term, FALSE)}
  /\ UNCHANGED <<log, commit_index, applied, next_read_id, stopped>>

\* A request whose entries fit: the log is merged, the commit index follows the
\* leader's up to the end of the batch, and what is committed is applied.
append_entries_accepted(i, m) ==
  /\ ToAppend(i, m)
  /\ m.term # 0 /\ m.term >= current_term[i]
  /\ ~InvalidRequest(i, m) /\ previous_matches(log[i], m)
  /\ advance_term(i, m.term)
  /\ IF CommittedConflict(log[i], commit_index[i], m)
       THEN /\ stop(i, "InconsistentState")
            /\ UNCHANGED <<log, commit_index, applied, election, msgs>>
       ELSE /\ log' = [log EXCEPT ![i] = MergedLog(@, m)]
            /\ commit_index' = [commit_index EXCEPT ![i] = FollowerCommit(@, m)]
            /\ become_follower(i)
            /\ IF CanApply(log'[i], applied[i], commit_index'[i])
                 THEN /\ applied' = [applied EXCEPT ![i] =
                           apply_committed(log'[i], @, commit_index'[i])]
                      /\ drop_leadership(i, m.from)
                      /\ msgs' = msgs \cup {AppendReply(i, m, m.term, TRUE)}
                      /\ UNCHANGED stopped
                 ELSE stop(i, "InconsistentState") /\ UNCHANGED <<applied, msgs>>
  /\ UNCHANGED next_read_id

-----------------------------------------------------------------------------
(* Receiving acknowledgments.                                              *)

ToAppendReply(i, m) == Live(i) /\ m.kind = "AppendEntriesReply"

\* A reply of a newer term, to a leader (SteppedDown) or to anyone else. The
\* stored role is left to go stale.
append_reply_steps_down(i, m) ==
  /\ ToAppendReply(i, m)
  /\ leader_term[i] = 0 \/ Active(i)
  /\ m.term > current_term[i]
  /\ advance_term(i, m.term)
  /\ drop_leadership(i, Nobody)
  /\ UNCHANGED <<log, election, commit_index, applied, next_read_id, stopped, msgs>>

\* Mutant: any reply of the term answers the outstanding request.
AnswersAny(i, m) ==
  /\ ToAppendReply(i, m)
  /\ Active(i)
  /\ m.term = leader_term[i]
  /\ peers[i][m.from].pending # NoRequest

\* The reply answers the request this leader still waits for.
Answers(i, m) ==
  /\ ToAppendReply(i, m)
  /\ Active(i)
  /\ m.term = leader_term[i]
  /\ peers[i][m.from].pending = m.replied_to

\* Retry one entry earlier, or InconsistentFollower when the follower refuses
\* what it has acknowledged before.
append_reply_failed(i, m) ==
  /\ Answers(i, m)
  /\ ~m.success
  /\ LET p == m.from
         moved == [peers[i] EXCEPT ![p].next_index = @ - 1,
                                   ![p].pending = NoRequest]
     IN IF \/ peers[i][p].next_index <= peers[i][p].match_index + 1
           \/ ~CanQueue(log[i], commit_index[i], moved, {p})
          THEN stop(i, "InconsistentState") /\ UNCHANGED msgs
          ELSE /\ peers' = [peers EXCEPT ![i] =
                    Queued(i, leader_term[i], log[i], commit_index[i], moved, {p})]
               /\ msgs' = msgs \cup Requests(peers'[i], {p})
               /\ UNCHANGED <<leader_term, read_rounds, known_leader, stopped>>
  /\ UNCHANGED <<metadata, log, election, commit_index, applied, next_read_id>>

\* Mutant: an acknowledgment is taken for the whole log.
AcknowledgedAll(i, m) ==
  [peers[i] EXCEPT ![m.from] =
     [next_index |-> last_index(log[i]) + 1, match_index |-> last_index(log[i]),
      pending |-> NoRequest]]

\* Mutant: the next batch starts with the last acknowledged entry.
AcknowledgedAgain(i, m) ==
  LET match == matched_index(m.replied_to) IN
  [peers[i] EXCEPT ![m.from] = [next_index |-> match, match_index |-> match,
                                pending |-> NoRequest]]

\* handle_reply's record of an acknowledged request.
Acknowledged(i, m) ==
  LET p == m.from
      match == IF matched_index(m.replied_to) > peers[i][p].match_index
                 THEN matched_index(m.replied_to) ELSE peers[i][p].match_index
  IN [peers[i] EXCEPT ![p] = [next_index |-> match + 1, match_index |-> match,
                              pending |-> NoRequest]]

\* The indices advance_commit_index can move the commit index to.
NewCommits(i, m) ==
  Committable(i, log[i], commit_index[i], leader_term[i],
              [p \in Server |-> Acknowledged(i, m)[p].match_index])

\* Recorded: the next batch goes out if there is one.
append_reply_recorded(i, m) ==
  /\ Answers(i, m)
  /\ m.success
  /\ NewCommits(i, m) = {}
  /\ LET p == m.from
         acked == Acknowledged(i, m)
     IN IF acked[p].next_index > last_index(log[i])
          THEN /\ peers' = [peers EXCEPT ![i] = acked]
               /\ UNCHANGED <<leader_term, read_rounds, known_leader, stopped, msgs>>
          ELSE IF ~CanQueue(log[i], commit_index[i], acked, {p})
          THEN stop(i, "InconsistentState") /\ UNCHANGED msgs
          ELSE /\ peers' = [peers EXCEPT ![i] =
                    Queued(i, leader_term[i], log[i], commit_index[i], acked, {p})]
               /\ msgs' = msgs \cup Requests(peers'[i], {p})
               /\ UNCHANGED <<leader_term, read_rounds, known_leader, stopped>>
  /\ UNCHANGED <<metadata, log, election, commit_index, applied, next_read_id>>

\* Committed: the highest new commit index is applied, announced to both peers,
\* and the reads that waited for it are started.
append_reply_committed(i, m) ==
  /\ Answers(i, m)
  /\ m.success
  /\ \E commit \in NewCommits(i, m) :
     /\ \A k \in NewCommits(i, m) : k <= commit
     /\ commit_index' = [commit_index EXCEPT ![i] = commit]
     /\ LET acked == Acknowledged(i, m) IN
        IF \/ ~CanApply(log[i], applied[i], commit)
           \/ ~CanQueue(log[i], commit, acked, Peers(i))
          THEN stop(i, "InconsistentState") /\ UNCHANGED <<applied, msgs>>
          ELSE /\ applied' = [applied EXCEPT ![i] = apply_committed(log[i], @, commit)]
               /\ peers' = [peers EXCEPT ![i] =
                    Queued(i, leader_term[i], log[i], commit, acked, Peers(i))]
               /\ IF current_term_committed(log[i], applied'[i], commit, current_term[i])
                    THEN /\ read_rounds' = [read_rounds EXCEPT ![i] =
                              StartedRounds(@, commit)]
                         /\ msgs' = msgs \cup Requests(peers'[i], Peers(i))
                              \cup Probes(i, leader_term[i],
                                          NewlyStarted(read_rounds[i], commit))
                    ELSE /\ msgs' = msgs \cup Requests(peers'[i], Peers(i))
                         /\ UNCHANGED read_rounds
               /\ UNCHANGED <<leader_term, known_leader, stopped>>
  /\ UNCHANGED <<metadata, log, election, next_read_id>>

\* A peer confirmed this leader for a read: the read is handed to the caller.
append_reply_ready_read(i, m) ==
  /\ ToAppendReply(i, m)
  /\ leader_term[i] # 0
  /\ m.term = current_term[i]
  /\ m.success
  /\ \E r \in read_rounds[i] :
       /\ r.index # 0
       /\ m.replied_to = ReadProbe(i, m.from, leader_term[i], r)
       /\ IF Len(applied[i]) < r.index
            THEN stop(i, "InconsistentState")
            ELSE /\ read_rounds' = [read_rounds EXCEPT ![i] = @ \ {r}]
                 /\ UNCHANGED <<leader_term, peers, known_leader, stopped>>
  /\ UNCHANGED <<metadata, log, election, commit_index, applied, next_read_id, msgs>>

-----------------------------------------------------------------------------
(* Calls of the server on behalf of its clients.                           *)

\* propose and append_as_leader.
propose(i, command) ==
  /\ Live(i)
  /\ Active(i)
  /\ LET entry == [term |-> leader_term[i], command |-> command]
         grown == Append(log[i], entry)
     IN IF last_index(log[i]) >= MaxIndex
          THEN stop(i, "InconsistentState") /\ UNCHANGED <<log, msgs>>
          ELSE /\ log' = [log EXCEPT ![i] = grown]
               /\ IF CanQueue(grown, commit_index[i], peers[i], Peers(i))
                    THEN /\ peers' = [peers EXCEPT ![i] =
                              Queued(i, leader_term[i], grown, commit_index[i],
                                     @, Peers(i))]
                         /\ msgs' = msgs \cup Requests(peers'[i], Peers(i))
                         /\ UNCHANGED <<leader_term, read_rounds, known_leader, stopped>>
                    ELSE stop(i, "InconsistentState") /\ UNCHANGED msgs
  /\ UNCHANGED <<metadata, election, commit_index, applied, next_read_id>>

\* Mutant: the read id starts over.
ReusedReadId(id) == IF id = MaxReadId THEN 1 ELSE id + 1

\* next_read_id_ is a uint64_t that wraps to zero.
NextReadId(id) == (id + 1) % (MaxReadId + 1)

\* read_barrier: an exhausted read id, zero, stops the node.
read_barrier(i) ==
  /\ Live(i)
  /\ Active(i)
  /\ IF next_read_id[i] = 0
       THEN stop(i, "InconsistentState") /\ UNCHANGED <<next_read_id, msgs>>
       ELSE LET asked == read_rounds[i] \cup {[id |-> next_read_id[i], index |-> 0]}
            IN
            /\ next_read_id' = [next_read_id EXCEPT ![i] = NextReadId(@)]
            /\ IF current_term_committed(log[i], applied[i], commit_index[i],
                                         current_term[i])
                 THEN /\ read_rounds' = [read_rounds EXCEPT ![i] =
                           StartedRounds(asked, commit_index[i])]
                      /\ msgs' = msgs \cup
                           Probes(i, leader_term[i], NewlyStarted(asked, commit_index[i]))
                 ELSE /\ read_rounds' = [read_rounds EXCEPT ![i] = asked]
                      /\ UNCHANGED msgs
            /\ UNCHANGED <<leader_term, peers, known_leader, stopped>>
  /\ UNCHANGED <<metadata, log, election, commit_index, applied>>

-----------------------------------------------------------------------------
(* Failure.                                                                *)

\* A durable write reports IoError, or the process dies during it: the node
\* stops, and the disk holds one of the images the write may leave.
WriteFails(i, term, vote, lg) ==
  /\ current_term' = [current_term EXCEPT ![i] = term]
  /\ voted_for' = [voted_for EXCEPT ![i] = vote]
  /\ log' = [log EXCEPT ![i] = lg]
  /\ stop(i, "PersistenceError")
  /\ UNCHANGED <<election, commit_index, applied, next_read_id, msgs>>

\* start_election writes the new term, then the vote.
election_write_fails(i) ==
  /\ CanCampaign(i)
  /\ \/ WriteFails(i, current_term[i], voted_for[i], log[i])
     \/ \E vote \in {Nobody, i} : WriteFails(i, current_term[i] + 1, vote, log[i])

\* Any message of a newer term makes its handler write the term. A vote reply
\* that finds a stale role returns before it looks at the term.
term_write_fails(i, m) ==
  /\ Live(i)
  /\ m.term > current_term[i]
  /\ ~(m.kind = "RequestVoteReply" /\ StaleRole(i))
  /\ \/ WriteFails(i, current_term[i], voted_for[i], log[i])
     \/ WriteFails(i, m.term, Nobody, log[i])

\* handle_request_vote writes the vote, after the term.
vote_write_fails(i, m) ==
  /\ ToVote(i, m)
  /\ Grants(i, m)
  /\ WriteFails(i, m.term, m.from, log[i])

\* handle_append_entries truncates, then appends one entry after another.
append_write_fails(i, m) ==
  /\ ToAppend(i, m)
  /\ m.term # 0 /\ m.term >= current_term[i]
  /\ ~InvalidRequest(i, m) /\ previous_matches(log[i], m)
  /\ ~CommittedConflict(log[i], commit_index[i], m)
  /\ MergedLog(log[i], m) # log[i]
  /\ \E lg \in PartialLogs(log[i], m) :
       WriteFails(i, m.term,
                  IF m.term > current_term[i] THEN Nobody ELSE voted_for[i], lg)

\* A new leader appends its no-op.
noop_write_fails(i, m) ==
  /\ WinsElection(i, m)
  /\ ~CannotLead(i)
  /\ \E lg \in {log[i], Append(log[i], [term |-> current_term[i], command |-> NoOp])} :
       WriteFails(i, current_term[i], voted_for[i], lg)

\* A leader appends a command.
proposal_write_fails(i, command) ==
  /\ Live(i)
  /\ Active(i)
  /\ last_index(log[i]) < MaxIndex
  /\ \E lg \in {log[i], Append(log[i], [term |-> leader_term[i], command |-> command])} :
       WriteFails(i, current_term[i], voted_for[i], lg)

\* Mutant: the last append had not reached the disk.
RestartWithoutTail(i) ==
  /\ log' = [log EXCEPT ![i] = SubSeq(@, 1, Len(@) - 1)]
  /\ stopped' = [stopped EXCEPT ![i] = "None"]
  /\ commit_index' = [commit_index EXCEPT ![i] = 0]
  /\ applied' = [applied EXCEPT ![i] = <<>>]
  /\ next_read_id' = [next_read_id EXCEPT ![i] = 1]
  /\ become_follower(i)
  /\ drop_leadership(i, Nobody)
  /\ UNCHANGED <<metadata, msgs>>

\* Mutant: the vote was kept in memory only.
RestartWithoutVote(i) ==
  /\ voted_for' = [voted_for EXCEPT ![i] = Nobody]
  /\ stopped' = [stopped EXCEPT ![i] = "None"]
  /\ commit_index' = [commit_index EXCEPT ![i] = 0]
  /\ applied' = [applied EXCEPT ![i] = <<>>]
  /\ next_read_id' = [next_read_id EXCEPT ![i] = 1]
  /\ become_follower(i)
  /\ drop_leadership(i, Nobody)
  /\ UNCHANGED <<current_term, log, msgs>>

\* The process starts again from its files (RaftNode::open): a new object with
\* default members over the durable state.
Restart(i) ==
  /\ stopped' = [stopped EXCEPT ![i] = "None"]
  /\ commit_index' = [commit_index EXCEPT ![i] = 0]
  /\ applied' = [applied EXCEPT ![i] = <<>>]
  /\ next_read_id' = [next_read_id EXCEPT ![i] = 1]
  /\ become_follower(i)
  /\ drop_leadership(i, Nobody)
  /\ UNCHANGED <<metadata, log, msgs>>

-----------------------------------------------------------------------------

\* One event at node i that no message causes.
LocalStep(i) ==
  \/ on_election_timeout(i)
  \/ election_term_exhausted(i)
  \/ on_heartbeat_timeout(i)
  \/ \E command \in Command : propose(i, command)
  \/ read_barrier(i)

\* Node i receives m.
Receive(i, m) ==
  \/ on_request_vote(i, m)
  \/ vote_reply_steps_down(i, m)
  \/ vote_reply_recorded(i, m)
  \/ vote_reply_becomes_leader(i, m)
  \/ append_entries_stale(i, m)
  \/ append_entries_rejected(i, m)
  \/ append_entries_accepted(i, m)
  \/ append_reply_steps_down(i, m)
  \/ append_reply_failed(i, m)
  \/ append_reply_recorded(i, m)
  \/ append_reply_committed(i, m)
  \/ append_reply_ready_read(i, m)

\* A durable write of node i fails.
Failure(i) ==
  \/ election_write_fails(i)
  \/ \E command \in Command : proposal_write_fails(i, command)
  \/ \E m \in msgs :
       /\ m.to = i
       /\ \/ term_write_fails(i, m)
          \/ vote_write_fails(i, m)
          \/ append_write_fails(i, m)
          \/ noop_write_fails(i, m)

Next ==
  \/ \E i \in Server : LocalStep(i) \/ Failure(i) \/ Restart(i)
  \/ \E m \in msgs : Receive(m.to, m)

Spec == Init /\ [][Next]_vars

-----------------------------------------------------------------------------
(* Properties.                                                             *)

\* Every variable holds a value its C++ type can hold. In particular the term of
\* an AppendEntries request is read from an entry that exists (make_request), and
\* no entry is ever written with term zero (encode_log_entry refuses it).
TypeOK ==
  /\ current_term \in [Server -> Term]
  /\ voted_for \in [Server -> Server \cup {Nobody}]
  /\ log \in [Server -> Seq(Entry)]
  /\ commit_index \in [Server -> Nat]
  /\ applied \in [Server -> Seq(Entry)]
  /\ known_leader \in [Server -> Server \cup {Nobody}]
  /\ next_read_id \in [Server -> 0..MaxReadId]
  /\ stopped \in [Server -> Errors \cup {"None"}]
  /\ role \in [Server -> {"Follower", "Candidate", "Leader"}]
  /\ election_term \in [Server -> Term]
  /\ replied \in [Server -> SUBSET Server]
  /\ granted_votes \in [Server -> Nat]
  /\ leader_term \in [Server -> Term]
  /\ peers \in [Server -> [Server -> PeerState]]
  /\ read_rounds \in [Server -> SUBSET [id : 1..MaxReadId, index : Nat]]
  /\ msgs \subseteq Message

\* No two nodes ever lead the same term, whatever they crashed through in
\* between: a leader sends AppendEntries as soon as it is made
\* (RaftNode::on_vote_reply), so the requests ever sent name all leaders.
ElectionSafety ==
  \A m, n \in {x \in msgs : x.kind = "AppendEntries"} :
    m.term = n.term => m.from = n.from

\* The voter's metadata still backs a vote given in term t to c: the vote stands,
\* or the term has moved on.
VoteStands(j, t, c) ==
  current_term[j] > t \/ (current_term[j] = t /\ voted_for[j] = c)

\* c stood in term t and one other node voted for it.
Elected(c, t) ==
  /\ \E m \in msgs : m.kind = "RequestVote" /\ m.from = c /\ m.term = t
  /\ \E m \in msgs : /\ m.kind = "RequestVoteReply" /\ m.vote_granted
                      /\ m.to = c /\ m.term = t

\* The inductive strengthening of ElectionSafety, part by part. A candidacy is a
\* vote for oneself, and every vote is backed by the voter's disk
\* (start_election and handle_request_vote write before they answer).
VotesBacked ==
  \A m \in msgs :
    /\ m.kind = "RequestVote" => m.from # m.to /\ VoteStands(m.from, m.term, m.from)
    /\ m.kind = "RequestVoteReply" /\ m.vote_granted =>
         m.from # m.to /\ VoteStands(m.from, m.term, m.to)

\* In one term a node votes for one candidate, and not at all if it stood itself.
VotesUnique ==
  \A m \in {x \in msgs : x.kind = "RequestVoteReply" /\ x.vote_granted} :
    \A n \in msgs : m.from = n.from /\ m.term = n.term =>
      /\ n.kind # "RequestVote"
      /\ n.kind = "RequestVoteReply" /\ n.vote_granted => m.to = n.to

\* Who leads, and who sends AppendEntries, was elected; who waits for votes asked
\* for them; what a leader waits for was sent.
LeadersElected ==
  /\ \A m \in msgs : m.kind = "AppendEntries" => Elected(m.from, m.term)
  /\ \A i \in Server :
       /\ leader_term[i] # 0 => Elected(i, leader_term[i])
       /\ role[i] = "Candidate" =>
            \E m \in msgs : /\ m.kind = "RequestVote" /\ m.from = i
                            /\ m.term = election_term[i]
       /\ \A p \in Server :
            peers[i][p].pending # NoRequest => peers[i][p].pending \in msgs

\* The inductive invariant of the election.
ElectionInv == VotesBacked /\ VotesUnique /\ LeadersElected

\* RaftElection derives the role from the metadata while RaftNode keeps a leader
\* object: the two never disagree in a running node. The server picks its timer
\* and admits client calls by the role (raft_server.cpp, run and
\* handle_client_write), the node serves them through the object.
LeaderObjectActive ==
  \A i \in Server : Live(i) => (Role(i) = "Leader" <=> Active(i))
                                /\ (leader_term[i] # 0 => Active(i))

\* Two durable logs that hold an entry of one term at one index agree on
\* everything up to it. handle_append_entries relies on it ("Equal index and term
\* imply the same command in a valid Raft history").
LogMatching ==
  \A i, j \in Server :
    \A k \in 1..Len(log[i]) :
      has_entry(log[j], k, log[i][k].term) => SubSeq(log[i], 1, k) = SubSeq(log[j], 1, k)

\* Whatever is in flight, its receiver can use it: no request between honest
\* nodes is InvalidRequest or asks to overwrite a committed entry
\* (AppendEntriesHandleError), however late it arrives.
RequestsUsable ==
  \A m \in msgs :
    m.kind = "AppendEntries" /\ m.term >= current_term[m.to] /\ Live(m.to) =>
      /\ ~InvalidRequest(m.to, m)
      /\ previous_matches(log[m.to], m) =>
           ~CommittedConflict(log[m.to], commit_index[m.to], m)

\* The status a node reports always passes valid_status_reply, so
\* handle_client_status can encode it at every moment of a node's life.
StatusEncodable ==
  \A i \in Server : Live(i) =>
    /\ Len(applied[i]) <= commit_index[i]
    /\ commit_index[i] <= last_index(log[i])
    /\ Role(i) = "Leader" => known_leader[i] = i
    /\ \A p \in Peers(i) : Role(i) = "Leader" =>
         /\ 0 < peers[i][p].next_index
         /\ peers[i][p].match_index < peers[i][p].next_index
         /\ peers[i][p].match_index <= last_index(log[i])

\* What a leader believes a follower holds, the follower's disk holds, across
\* the follower's crashes: commit decisions (advance_commit_index) rest on it.
MatchIsDurable ==
  \A i \in Server : Live(i) /\ Active(i) =>
    \A p \in Peers(i) :
      current_term[p] = leader_term[i] =>
        /\ peers[i][p].match_index <= Len(log[p])
        /\ SubSeq(log[p], 1, peers[i][p].match_index)
             = SubSeq(log[i], 1, peers[i][p].match_index)

\* p is a probe that node i sent as leader of its present term, for this read id.
ProbeOf(i, id, p) ==
  /\ p.kind = "AppendEntries"
  /\ p.from = i /\ p.term = leader_term[i] /\ p.read_context = id

\* Such a probe has been sent, or a peer has acknowledged one.
Carried(i, id) ==
  \E m \in msgs :
    \/ ProbeOf(i, id, m)
    \/ m.kind = "AppendEntriesReply" /\ m.success /\ ProbeOf(i, id, m.replied_to)

\* A leadership gives a read id out once, so an acknowledgment confirms no read that
\* was asked after its probe was sent: the id that the next read will get is on no
\* probe, on no acknowledgment and on no read in progress, and the id of a read
\* that has not been started is still on no probe and no acknowledgment
\* (next_read_id_ in read_barrier, across elections, restarts and at the end of the
\* ids; on_append_reply tells probes with one id and one index not apart).
ReadIdsNameOneRead ==
  \A i \in Server : leader_term[i] # 0 =>
    /\ next_read_id[i] # 0 =>
         /\ ~Carried(i, next_read_id[i])
         /\ \A r \in read_rounds[i] : r.id # next_read_id[i]
    /\ \A r \in read_rounds[i] :
         /\ r.index = 0 => ~Carried(i, r.id)
         /\ \A q \in read_rounds[i] : q.id = r.id => q = r

\* "AppendEntries replies echo the request so the leader can reject stale or
\* reordered acknowledgments" (raft_wire.hpp): a refusal that the leader takes
\* for the answer to its outstanding request is never one that the follower's
\* later acknowledgments have overtaken.
StaleAcksRejected ==
  \A i \in Server : \A m \in msgs :
    m.to = i /\ Answers(i, m) /\ ~m.success =>
      peers[i][m.from].next_index > peers[i][m.from].match_index + 1
=============================================================================
