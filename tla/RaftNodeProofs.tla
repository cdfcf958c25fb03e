--------------------------- MODULE RaftNodeProofs ---------------------------
(***************************************************************************)
(* Theorems about the cluster of RaftNode, for every number of terms,      *)
(* indices, read ids and commands, and every batch size: its types, what a *)
(* step may do, and that no two nodes ever lead the same term. The         *)
(* argument for the last: every vote ever sent is backed by the voter's    *)
(* durable metadata or by a later term of it (VotesBacked), so a node's    *)
(* votes in one term agree (VotesUnique); every leader has its own         *)
(* candidacy and a granted vote behind it (LeadersElected); and among      *)
(* three nodes two such pairs share a voter.                               *)
(*                                                                         *)
(* A node and its leader object agree: the object exists exactly while the *)
(* node leads, what it tracks of its peers and of its reads stays within   *)
(* its log and its commit index, and the status it reports can be encoded. *)
(* Each node's part of that invariant (NodeOK) is its own; only the read   *)
(* probes relate a node to messages it sent earlier.                       *)
(***************************************************************************)
EXTENDS RaftNode, RaftLedger, SequenceTheorems, WellFoundedInduction, TLAPS

-----------------------------------------------------------------------------
(* What the operators on logs and messages return.                         *)

\* A part of a log is a log.
LEMMA SubLogType ==
  ASSUME NEW lg \in Seq(Entry), NEW a \in Nat \ {0}, NEW b \in Nat, b <= Len(lg)
  PROVE  SubSeq(lg, a, b) \in Seq(Entry)
<1>1. \A k \in a..b : lg[k] \in Entry
  BY ElementOfSeq
<1> QED
  BY <1>1, SubSeqProperties, a \in Int, b \in Int

\* The term a vote request carries is a term.
LEMMA LastTermType ==
  ASSUME NEW lg \in Seq(Entry)
  PROVE  last_term(lg) \in Term /\ last_index(lg) \in Nat
<1>1. CASE lg = <<>>
  BY <1>1, BoundAssumption DEF last_term, last_index, Term
<1>2. CASE lg # <<>>
  <2>1. Len(lg) \in Nat \ {0}
    BY <1>2, EmptySeq
  <2>2. lg[Len(lg)] \in Entry
    BY <2>1, ElementOfSeq
  <2> QED
    BY <1>2, <2>1, <2>2 DEF last_term, last_index, Term, Entry
<1> QED
  BY <1>1, <1>2

\* make_request builds an AppendEntries whenever next_index is in range.
LEMMA MakeRequestType ==
  ASSUME NEW i \in Server, NEW p \in Server, NEW term \in Term,
         NEW lg \in Seq(Entry), NEW commit \in Nat, NEW next \in 1..(Len(lg) + 1)
  PROVE  make_request(i, p, term, lg, commit, next) \in AppendEntries
<1> DEFINE last == IF next + MaxBatch - 1 <= Len(lg) THEN next + MaxBatch - 1 ELSE Len(lg)
<1>1. Len(lg) \in Nat /\ last \in Nat /\ last <= Len(lg)
  BY BoundAssumption, LenProperties
<1>2. SubSeq(lg, next, last) \in Seq(Entry)
  BY <1>1, SubLogType
<1>3. (IF next = 1 THEN 0 ELSE lg[next - 1].term) \in Term
  <2>1. CASE next = 1
    BY <2>1, BoundAssumption DEF Term
  <2>2. CASE next # 1
    <3>1. next - 1 \in 1..Len(lg)
      BY <1>1, <2>2
    <3>2. lg[next - 1] \in Entry
      BY <3>1, ElementOfSeq
    <3> QED
      BY <2>2, <3>2 DEF Entry, Term
  <2> QED
    BY <2>1, <2>2
<1>4. next - 1 \in Nat /\ 0 \in 0..MaxReadId
  BY <1>1, BoundAssumption
<1> QED
  BY <1>2, <1>3, <1>4 DEF make_request, AppendEntries

\* NoRequest is not a request.
LEMMA NoRequestIsNone == NoRequest \notin AppendEntries
<1>1. \A m \in AppendEntries : m.kind = "AppendEntries"
  BY DEF AppendEntries
<1>2. NoRequest.kind = "None"
  BY DEF NoRequest
<1> QED
  BY <1>1, <1>2

\* Queueing leaves well-typed progress, and every queued peer has a request out.
LEMMA QueuedType ==
  ASSUME NEW i \in Server, NEW term \in Term, NEW lg \in Seq(Entry),
         NEW commit \in Nat, NEW ps \in [Server -> PeerState],
         NEW S \in SUBSET Server, CanQueue(lg, commit, ps, S)
  PROVE  /\ Queued(i, term, lg, commit, ps, S) \in [Server -> PeerState]
         /\ Requests(Queued(i, term, lg, commit, ps, S), S) \subseteq AppendEntries
<1> DEFINE q == Queued(i, term, lg, commit, ps, S)
<1>1. ASSUME NEW p \in Server
      PROVE  q[p] \in PeerState /\ (p \in S => q[p].pending \in AppendEntries)
  <2>1. CASE p \in S /\ ps[p].pending = NoRequest
    <3>1. ps[p].next_index \in 1..(Len(lg) + 1)
      BY <2>1 DEF CanQueue
    <3>2. make_request(i, p, term, lg, commit, ps[p].next_index) \in AppendEntries
      BY <3>1, MakeRequestType
    <3>3. q[p] = [ps[p] EXCEPT !.pending =
                    make_request(i, p, term, lg, commit, ps[p].next_index)]
      BY <2>1 DEF Queued
    <3>4. ps[p] \in PeerState
      OBVIOUS
    <3> HIDE DEF q
    <3> QED
      BY <3>2, <3>3, <3>4 DEF PeerState
  <2>2. CASE ~(p \in S /\ ps[p].pending = NoRequest)
    BY <2>2 DEF Queued, PeerState
  <2> QED
    BY <2>1, <2>2
<1>2. q \in [Server -> PeerState]
  BY <1>1 DEF Queued
<1> QED
  BY <1>1, <1>2 DEF Requests

\* A probe of a read round is an AppendEntries.
LEMMA ProbesType ==
  ASSUME NEW i \in Server, NEW term \in Term,
         NEW rounds \in SUBSET [id : 1..MaxReadId, index : Nat]
  PROVE  Probes(i, term, rounds) \subseteq AppendEntries
<1>1. ASSUME NEW p \in Peers(i), NEW r \in {q \in rounds : q.index # 0}
      PROVE  ReadProbe(i, p, term, r) \in AppendEntries
  BY <1>1, BoundAssumption, EmptySeq DEF ReadProbe, AppendEntries, Peers, Term
<1> QED
  BY <1>1 DEF Probes

\* A message is of the kind its tag says.
LEMMA MessageKinds ==
  ASSUME NEW m \in Message
  PROVE  /\ m.kind = "RequestVote" => m \in RequestVote
         /\ m.kind = "RequestVoteReply" => m \in RequestVoteReply
         /\ m.kind = "AppendEntries" => m \in AppendEntries
         /\ m.kind = "AppendEntriesReply" => m \in AppendEntriesReply
         /\ m.from \in Server /\ m.to \in Server /\ m.term \in Term
BY DEF Message, RequestVote, RequestVoteReply, AppendEntries, AppendEntriesReply

-----------------------------------------------------------------------------
(* Type correctness of the parts the handlers share.                       *)

\* What a leader knows of a peer.
LEMMA PeerType ==
  ASSUME TypeOK, NEW i \in Server, NEW p \in Server
  PROVE  /\ log[i] \in Seq(Entry) /\ commit_index[i] \in Nat /\ leader_term[i] \in Term
         /\ peers[i] \in [Server -> PeerState] /\ peers[i][p] \in PeerState
         /\ peers[i][p].next_index \in Nat /\ peers[i][p].match_index \in Nat
<1>1. log[i] \in Seq(Entry) /\ commit_index[i] \in Nat /\ leader_term[i] \in Term
  BY DEF TypeOK
<1>2. peers[i] \in [Server -> PeerState] /\ peers[i][p] \in PeerState
  BY DEF TypeOK
<1>3. peers[i][p].next_index \in Nat /\ peers[i][p].match_index \in Nat
  BY <1>2 DEF PeerState
<1> QED
  BY <1>1, <1>2, <1>3

\* The progress of a peer that has refused: one entry back, nothing outstanding.
LEMMA MovedType ==
  ASSUME NEW ps \in [Server -> PeerState], NEW p \in Server, ps[p].next_index - 1 \in Nat
  PROVE  [ps EXCEPT ![p].next_index = @ - 1, ![p].pending = NoRequest]
           \in [Server -> PeerState]
<1> DEFINE back == [ps[p] EXCEPT !.next_index = @ - 1, !.pending = NoRequest]
<1>1. back \in PeerState
  BY DEF PeerState
<1>2. [ps EXCEPT ![p].next_index = @ - 1, ![p].pending = NoRequest] = [ps EXCEPT ![p] = back]
  BY DEF PeerState
<1> HIDE DEF back
<1> QED
  BY <1>1, <1>2

\* Destroying the leader object.
LEMMA DropType ==
  ASSUME TypeOK, NEW i \in Server, NEW hint \in Server \cup {Nobody},
         drop_leadership(i, hint)
  PROVE  /\ leader_term' \in [Server -> Term]
         /\ peers' \in [Server -> [Server -> PeerState]]
         /\ read_rounds' \in [Server -> SUBSET [id : 1..MaxReadId, index : Nat]]
         /\ known_leader' \in [Server -> Server \cup {Nobody}]
<1>1. NoProgress \in PeerState
  BY DEF NoProgress, PeerState
<1>2. [p \in Server |-> NoProgress] \in [Server -> PeerState]
  BY <1>1
<1> QED
  BY <1>2, BoundAssumption DEF TypeOK, drop_leadership, Term

\* Stopping a node.
LEMMA StopType ==
  ASSUME TypeOK, NEW i \in Server, NEW error \in Errors, stop(i, error)
  PROVE  /\ stopped' \in [Server -> Errors \cup {"None"}]
         /\ leader_term' \in [Server -> Term]
         /\ peers' \in [Server -> [Server -> PeerState]]
         /\ read_rounds' \in [Server -> SUBSET [id : 1..MaxReadId, index : Nat]]
         /\ known_leader' \in [Server -> Server \cup {Nobody}]
<1>1. drop_leadership(i, Nobody)
  BY DEF stop
<1>2. stopped' \in [Server -> Errors \cup {"None"}]
  BY DEF stop, TypeOK
<1> QED
  BY <1>1, <1>2, DropType

\* Giving up a candidacy or a leadership.
LEMMA FollowerType ==
  ASSUME TypeOK, NEW i \in Server, become_follower(i)
  PROVE  /\ role' \in [Server -> {"Follower", "Candidate", "Leader"}]
         /\ election_term' \in [Server -> Term]
         /\ replied' \in [Server -> SUBSET Server]
         /\ granted_votes' \in [Server -> Nat]
BY BoundAssumption DEF TypeOK, become_follower, Term

\* Raising the term.
LEMMA AdvanceType ==
  ASSUME TypeOK, NEW i \in Server, NEW term \in Term, advance_term(i, term)
  PROVE  /\ current_term' \in [Server -> Term]
         /\ voted_for' \in [Server -> Server \cup {Nobody}]
BY DEF TypeOK, advance_term, Term

\* One node's progress is replaced by a well-typed one and its requests sent.
LEMMA QueueStepType ==
  ASSUME TypeOK, NEW i \in Server, NEW lg \in Seq(Entry), NEW commit \in Nat,
         NEW ps \in [Server -> PeerState], NEW S \in SUBSET Server,
         CanQueue(lg, commit, ps, S), NEW term \in Term,
         peers' = [peers EXCEPT ![i] = Queued(i, term, lg, commit, ps, S)]
  PROVE  /\ peers' \in [Server -> [Server -> PeerState]]
         /\ Requests(peers'[i], S) \subseteq AppendEntries
<1>1. /\ Queued(i, term, lg, commit, ps, S) \in [Server -> PeerState]
      /\ Requests(Queued(i, term, lg, commit, ps, S), S) \subseteq AppendEntries
  BY QueuedType
<1>2. peers'[i] = Queued(i, term, lg, commit, ps, S)
  BY DEF TypeOK
<1> QED
  BY <1>1, <1>2 DEF TypeOK

\* The log a follower ends up with, and the ones a failed write may leave.
LEMMA MergedType ==
  ASSUME NEW lg \in Seq(Entry), NEW m \in AppendEntries, previous_matches(lg, m)
  PROVE  /\ MergedLog(lg, m) \in Seq(Entry)
         /\ PartialLogs(lg, m) \subseteq Seq(Entry)
<1>1. m.prev_log_index \in Nat /\ m.entries \in Seq(Entry)
  BY DEF AppendEntries
<1>2. m.prev_log_index <= Len(lg)
  BY <1>1, LenProperties DEF previous_matches, has_entry
<1>3. SubSeq(lg, 1, m.prev_log_index) \in Seq(Entry)
  BY <1>1, <1>2, SubLogType
<1>4. MergedLog(lg, m) \in Seq(Entry)
  BY <1>1, <1>3, ConcatProperties DEF MergedLog
<1>5. ASSUME NEW k \in 0..Len(m.entries)
      PROVE  SubSeq(lg, 1, m.prev_log_index) \o SubSeq(m.entries, 1, k) \in Seq(Entry)
  <2>1. SubSeq(m.entries, 1, k) \in Seq(Entry)
    BY <1>1, SubLogType
  <2> QED
    BY <1>3, <2>1, ConcatProperties
<1> QED
  BY <1>4, <1>5 DEF PartialLogs

\* Applying what is committed feeds entries to the state machine.
LEMMA ApplyType ==
  ASSUME NEW lg \in Seq(Entry), NEW ap \in Seq(Entry), NEW commit \in Nat,
         CanApply(lg, ap, commit)
  PROVE  apply_committed(lg, ap, commit) \in Seq(Entry)
<1>1. SubSeq(lg, Len(ap) + 1, commit) \in Seq(Entry)
  BY SubLogType, LenProperties DEF CanApply
<1> QED
  BY <1>1, ConcatProperties DEF apply_committed

-----------------------------------------------------------------------------
(* Each action preserves the type invariant.                               *)

\* A cluster of new nodes is well-typed.
LEMMA TypeInit == Init => TypeOK
<1> SUFFICES ASSUME Init PROVE TypeOK
  OBVIOUS
<1>1. NoProgress \in PeerState
  BY DEF NoProgress, PeerState
<1>2. peers \in [Server -> [Server -> PeerState]]
  BY <1>1 DEF Init
<1>3. <<>> \in Seq(Entry)
  BY EmptySeq
<1> QED
  BY <1>2, <1>3, BoundAssumption DEF Init, TypeOK, Term

\* on_election_timeout keeps the types: the new term is still a term.
LEMMA TypeTimeout ==
  ASSUME TypeOK, NEW i \in Server, on_election_timeout(i)
  PROVE  TypeOK'
<1>1. /\ leader_term' \in [Server -> Term]
      /\ peers' \in [Server -> [Server -> PeerState]]
      /\ read_rounds' \in [Server -> SUBSET [id : 1..MaxReadId, index : Nat]]
      /\ known_leader' \in [Server -> Server \cup {Nobody}]
  BY DropType DEF on_election_timeout
<1>2. current_term[i] + 1 \in Term
  BY BoundAssumption DEF TypeOK, on_election_timeout, CanCampaign, Term
<1>3. last_term(log[i]) \in Term /\ last_index(log[i]) \in Nat
  BY LastTermType DEF TypeOK
<1>4. msgs' \subseteq Message
  BY <1>2, <1>3 DEF on_election_timeout, TypeOK, Message, RequestVote, Peers
<1>5. /\ current_term' \in [Server -> Term]
      /\ voted_for' \in [Server -> Server \cup {Nobody}]
      /\ role' \in [Server -> {"Follower", "Candidate", "Leader"}]
      /\ election_term' \in [Server -> Term]
      /\ replied' \in [Server -> SUBSET Server]
      /\ granted_votes' \in [Server -> Nat]
  BY <1>2 DEF on_election_timeout, TypeOK
<1> QED
  BY <1>1, <1>4, <1>5 DEF on_election_timeout, TypeOK

\* An election timeout at the last term keeps the types.
LEMMA TypeExhausted ==
  ASSUME TypeOK, NEW i \in Server, election_term_exhausted(i)
  PROVE  TypeOK'
<1>1. "TermExhausted" \in Errors
  BY DEF Errors
<1>2. /\ stopped' \in [Server -> Errors \cup {"None"}]
      /\ leader_term' \in [Server -> Term]
      /\ peers' \in [Server -> [Server -> PeerState]]
      /\ read_rounds' \in [Server -> SUBSET [id : 1..MaxReadId, index : Nat]]
      /\ known_leader' \in [Server -> Server \cup {Nobody}]
  BY <1>1, StopType DEF election_term_exhausted
<1>3. /\ role' \in [Server -> {"Follower", "Candidate", "Leader"}]
      /\ election_term' \in [Server -> Term]
      /\ replied' \in [Server -> SUBSET Server]
      /\ granted_votes' \in [Server -> Nat]
  BY FollowerType DEF election_term_exhausted, election, TypeOK
<1> QED
  BY <1>2, <1>3 DEF election_term_exhausted, TypeOK, metadata

\* on_heartbeat_timeout keeps the types: every request it sends is built in range.
LEMMA TypeHeartbeat ==
  ASSUME TypeOK, NEW i \in Server, on_heartbeat_timeout(i)
  PROVE  TypeOK'
<1> USE DEF metadata, election, leader, node
<1>1. "InconsistentState" \in Errors
  BY DEF Errors
<1>2. CASE ~Active(i)
  <2>1. drop_leadership(i, Nobody) /\ UNCHANGED <<stopped, msgs>>
    BY <1>2 DEF on_heartbeat_timeout
  <2> QED
    BY <2>1, DropType DEF on_heartbeat_timeout, TypeOK
<1>3. CASE Active(i) /\ ~CanQueue(log[i], commit_index[i], peers[i], Peers(i))
  <2>1. stop(i, "InconsistentState") /\ UNCHANGED msgs
    BY <1>3 DEF on_heartbeat_timeout
  <2> QED
    BY <1>1, <2>1, StopType DEF on_heartbeat_timeout, TypeOK
<1>4. CASE Active(i) /\ CanQueue(log[i], commit_index[i], peers[i], Peers(i))
  <2>1. /\ peers' = [peers EXCEPT ![i] =
              Queued(i, leader_term[i], log[i], commit_index[i], peers[i], Peers(i))]
        /\ msgs' = msgs \cup Requests(peers'[i], Peers(i))
                        \cup Probes(i, leader_term[i], read_rounds[i])
        /\ UNCHANGED <<leader_term, read_rounds, known_leader, stopped>>
    BY <1>4 DEF on_heartbeat_timeout
  <2>2. /\ log[i] \in Seq(Entry) /\ commit_index[i] \in Nat
        /\ peers[i] \in [Server -> PeerState] /\ Peers(i) \in SUBSET Server
        /\ leader_term[i] \in Term
    BY DEF TypeOK, Peers
  <2>3. /\ peers' \in [Server -> [Server -> PeerState]]
        /\ Requests(peers'[i], Peers(i)) \subseteq AppendEntries
    BY <1>4, <2>1, <2>2, QueueStepType
  <2>4. Probes(i, leader_term[i], read_rounds[i]) \subseteq AppendEntries
    BY <2>2, ProbesType DEF TypeOK
  <2> QED
    BY <2>1, <2>3, <2>4 DEF on_heartbeat_timeout, TypeOK, Message
<1> QED
  BY <1>2, <1>3, <1>4

\* on_request_vote keeps the types.
LEMMA TypeRequestVote ==
  ASSUME TypeOK, NEW m \in msgs, on_request_vote(m.to, m)
  PROVE  TypeOK'
<1> DEFINE i == m.to
<1> USE DEF metadata, election, leader, node
<1>1. m \in RequestVote /\ i \in Server
  BY MessageKinds DEF TypeOK, on_request_vote, ToVote
<1>2. m.from \in Server /\ m.term \in Term
  BY <1>1 DEF RequestVote
<1>3. /\ current_term' \in [Server -> Term]
      /\ voted_for' \in [Server -> Server \cup {Nobody}]
  BY <1>1, <1>2 DEF on_request_vote, TypeOK
<1>4. /\ leader_term' \in [Server -> Term]
      /\ peers' \in [Server -> [Server -> PeerState]]
      /\ read_rounds' \in [Server -> SUBSET [id : 1..MaxReadId, index : Nat]]
      /\ known_leader' \in [Server -> Server \cup {Nobody}]
  BY <1>1, DropType DEF on_request_vote, TypeOK
<1>5. msgs' \subseteq Message
  <2>1. current_term'[i] \in Term /\ Grants(i, m) \in BOOLEAN
    BY <1>1, <1>3 DEF Grants, candidate_log_is_up_to_date
  <2> QED
    BY <1>1, <1>2, <2>1 DEF on_request_vote, TypeOK, Message, RequestVoteReply
<1> QED
  BY <1>3, <1>4, <1>5 DEF on_request_vote, TypeOK

\* A vote reply that makes no leader keeps the types.
LEMMA TypeVoteReply ==
  ASSUME TypeOK, NEW m \in msgs,
         vote_reply_steps_down(m.to, m) \/ vote_reply_recorded(m.to, m)
  PROVE  TypeOK'
<1> DEFINE i == m.to
<1> USE DEF metadata, election, leader, node
<1>1. m.from \in Server /\ m.term \in Term /\ i \in Server
  BY MessageKinds DEF TypeOK
<1>2. CASE vote_reply_steps_down(i, m)
  <2>1. become_follower(i) /\ drop_leadership(i, Nobody)
    BY <1>2 DEF vote_reply_steps_down
  <2>2. /\ current_term' \in [Server -> Term]
        /\ voted_for' \in [Server -> Server \cup {Nobody}]
    BY <1>1, <1>2, AdvanceType DEF vote_reply_steps_down, TypeOK
  <2> QED
    BY <1>1, <1>2, <2>1, <2>2, DropType, FollowerType DEF vote_reply_steps_down, TypeOK
<1>3. CASE vote_reply_recorded(i, m)
  <2>1. replied' \in [Server -> SUBSET Server]
    <3>1. replied' = [replied EXCEPT ![i] = @ \cup {m.from}]
      BY <1>3 DEF vote_reply_recorded
    <3>2. replied \in [Server -> SUBSET Server]
      BY DEF TypeOK
    <3> HIDE DEF i
    <3> QED
      BY <1>1, <3>1, <3>2
  <2>2. granted_votes[i] + 1 \in Nat /\ granted_votes[i] \in Nat
    BY <1>1 DEF TypeOK
  <2>3. granted_votes' \in [Server -> Nat]
    BY <1>3, <2>2 DEF vote_reply_recorded, TypeOK
  <2> QED
    BY <1>3, <2>1, <2>3 DEF vote_reply_recorded, TypeOK
<1> QED
  BY <1>2, <1>3

\* The no-op of a new leader, or a command, as it is written to the log.
LEMMA GrownType ==
  ASSUME NEW lg \in Seq(Entry), NEW term \in Term, term # 0,
         NEW command \in Command \cup {NoOp}
  PROVE  /\ Append(lg, [term |-> term, command |-> command]) \in Seq(Entry)
         /\ Len(Append(lg, [term |-> term, command |-> command])) = Len(lg) + 1
<1>1. [term |-> term, command |-> command] \in Entry
  BY DEF Entry, Term
<1> QED
  BY <1>1, AppendProperties

\* A new leader's progress, no-op and first requests are well-typed.
LEMMA TypeBecomesLeader ==
  ASSUME TypeOK, NEW m \in msgs, vote_reply_becomes_leader(m.to, m)
  PROVE  TypeOK'
<1> DEFINE i == m.to
           first == last_index(log[i]) + 1
           made == [p \in Server |-> [NoProgress EXCEPT !.next_index = first]]
           grown == Append(log[i], [term |-> current_term[i], command |-> NoOp])
<1> USE DEF metadata, election, leader, node
<1>1. m.from \in Server /\ m.term \in Term /\ i \in Server
  BY MessageKinds DEF TypeOK
<1>2. /\ role' \in [Server -> {"Follower", "Candidate", "Leader"}]
      /\ replied' \in [Server -> SUBSET Server]
      /\ granted_votes' \in [Server -> Nat]
  <2>1. /\ replied' = [replied EXCEPT ![i] = @ \cup {m.from}]
        /\ granted_votes' = [granted_votes EXCEPT ![i] = @ + 1]
        /\ role' = [role EXCEPT ![i] = "Leader"]
    BY DEF vote_reply_becomes_leader
  <2> HIDE DEF i
  <2>2. /\ role \in [Server -> {"Follower", "Candidate", "Leader"}]
        /\ replied \in [Server -> SUBSET Server]
        /\ granted_votes \in [Server -> Nat]
    BY DEF TypeOK
  <2>3. role' \in [Server -> {"Follower", "Candidate", "Leader"}]
    BY <2>1, <2>2
  <2>4. replied' \in [Server -> SUBSET Server]
    BY <1>1, <2>1, <2>2
  <2>5. granted_votes' \in [Server -> Nat]
    BY <1>1, <2>1, <2>2
  <2> QED
    BY <2>3, <2>4, <2>5
<1>3. CASE CannotLead(i)
  <2>1. stop(i, "InconsistentState") /\ UNCHANGED <<log, msgs>>
    BY <1>3 DEF vote_reply_becomes_leader
  <2>2. "InconsistentState" \in Errors
    BY DEF Errors
  <2> QED
    BY <1>1, <1>2, <2>1, <2>2, StopType DEF vote_reply_becomes_leader, TypeOK
<1>4. CASE ~CannotLead(i)
  <2>1. /\ log' = [log EXCEPT ![i] = grown]
        /\ leader_term' = [leader_term EXCEPT ![i] = current_term[i]]
        /\ peers' = [peers EXCEPT ![i] =
              Queued(i, current_term[i], log'[i], commit_index[i], made, Peers(i))]
        /\ known_leader' = [known_leader EXCEPT ![i] = i]
        /\ msgs' = msgs \cup Requests(peers'[i], Peers(i))
        /\ UNCHANGED <<read_rounds, stopped>>
    BY <1>4 DEF vote_reply_becomes_leader
  <2>2. /\ log[i] \in Seq(Entry) /\ commit_index[i] \in Nat /\ Len(log[i]) \in Nat
        /\ current_term[i] \in Term /\ current_term[i] # 0 /\ Peers(i) \in SUBSET Server
        /\ commit_index[i] <= Len(log[i])
    BY <1>1, <1>4, LenProperties DEF TypeOK, Peers, CannotLead, Term, last_index
  <2>3. grown \in Seq(Entry) /\ Len(grown) = Len(log[i]) + 1
    BY <2>2, GrownType
  <2>4. log' \in [Server -> Seq(Entry)] /\ log'[i] = grown
    BY <1>1, <2>1, <2>3 DEF TypeOK
  <2>5. /\ made \in [Server -> PeerState]
        /\ \A p \in Server : made[p].next_index = first
    BY <2>2 DEF NoProgress, PeerState, last_index
  <2>6. CanQueue(grown, commit_index[i], made, Peers(i))
    BY <2>2, <2>3, <2>5 DEF CanQueue, last_index
  <2>7. /\ peers' \in [Server -> [Server -> PeerState]]
        /\ Requests(peers'[i], Peers(i)) \subseteq AppendEntries
    <3> HIDE DEF grown, made
    <3> QED
      BY <1>1, <2>1, <2>2, <2>3, <2>4, <2>5, <2>6, QueueStepType
  <2> QED
    BY <1>1, <1>2, <2>1, <2>2, <2>4, <2>7 DEF vote_reply_becomes_leader, TypeOK, Message
<1> QED
  BY <1>3, <1>4

\* The answer to a request is a message.
LEMMA ReplyType ==
  ASSUME NEW i \in Server, NEW m \in AppendEntries, NEW term \in Term,
         NEW success \in BOOLEAN
  PROVE  AppendReply(i, m, term, success) \in Message
BY DEF AppendReply, Message, AppendEntriesReply, AppendEntries

\* Answering a request of an older term keeps the types.
LEMMA TypeStale ==
  ASSUME TypeOK, NEW m \in msgs, append_entries_stale(m.to, m)
  PROVE  TypeOK'
<1> USE DEF metadata, election, leader, node
<1>1. m \in AppendEntries /\ m.to \in Server
  BY MessageKinds DEF TypeOK, append_entries_stale, ToAppend
<1>2. AppendReply(m.to, m, current_term[m.to], FALSE) \in Message
  BY <1>1, ReplyType DEF TypeOK
<1> QED
  BY <1>2 DEF append_entries_stale, TypeOK

\* Refusing or dropping a request keeps the types.
LEMMA TypeRejected ==
  ASSUME TypeOK, NEW m \in msgs, append_entries_rejected(m.to, m)
  PROVE  TypeOK'
<1> DEFINE i == m.to
<1> USE DEF metadata, election, leader, node
<1>1. m \in AppendEntries /\ i \in Server /\ m.from \in Server /\ m.term \in Term
  BY MessageKinds DEF TypeOK, append_entries_rejected, ToAppend
<1>2. /\ current_term' \in [Server -> Term]
      /\ voted_for' \in [Server -> Server \cup {Nobody}]
  BY <1>1, AdvanceType DEF append_entries_rejected
<1>3. CASE InvalidRequest(i, m)
  <2>1. /\ leader_term' \in [Server -> Term]
        /\ peers' \in [Server -> [Server -> PeerState]]
        /\ read_rounds' \in [Server -> SUBSET [id : 1..MaxReadId, index : Nat]]
        /\ known_leader' \in [Server -> Server \cup {Nobody}]
    BY <1>1, <1>3, DropType DEF append_entries_rejected, TypeOK
  <2> QED
    BY <1>2, <1>3, <2>1 DEF append_entries_rejected, TypeOK
<1>4. CASE ~InvalidRequest(i, m)
  <2>1. become_follower(i) /\ drop_leadership(i, m.from)
    BY <1>4 DEF append_entries_rejected
  <2>2. AppendReply(i, m, m.term, FALSE) \in Message
    BY <1>1, ReplyType
  <2>3. msgs' \subseteq Message
    BY <1>4, <2>2 DEF append_entries_rejected, TypeOK
  <2> QED
    BY <1>1, <1>2, <2>1, <2>3, DropType, FollowerType DEF append_entries_rejected, TypeOK
<1> QED
  BY <1>3, <1>4

\* Merging a batch, following the commit index and applying keep the types.
LEMMA TypeAccepted ==
  ASSUME TypeOK, NEW m \in msgs, append_entries_accepted(m.to, m)
  PROVE  TypeOK'
<1> DEFINE i == m.to
<1> USE DEF metadata, election, leader, node
<1>1. m \in AppendEntries /\ i \in Server /\ m.from \in Server /\ m.term \in Term
  BY MessageKinds DEF TypeOK, append_entries_accepted, ToAppend
<1>2. /\ current_term' \in [Server -> Term]
      /\ voted_for' \in [Server -> Server \cup {Nobody}]
  BY <1>1, AdvanceType DEF append_entries_accepted
<1>3. "InconsistentState" \in Errors
  BY DEF Errors
<1>4. CASE CommittedConflict(log[i], commit_index[i], m)
  <2>1. /\ stop(i, "InconsistentState")
        /\ UNCHANGED <<log, commit_index, applied, election, msgs>>
    BY <1>4 DEF append_entries_accepted
  <2> QED
    BY <1>1, <1>2, <1>3, <2>1, StopType DEF append_entries_accepted, TypeOK
<1>5. CASE ~CommittedConflict(log[i], commit_index[i], m)
  <2>1. /\ log' = [log EXCEPT ![i] = MergedLog(log[i], m)]
        /\ commit_index' = [commit_index EXCEPT ![i] = FollowerCommit(commit_index[i], m)]
        /\ become_follower(i)
    BY <1>5 DEF append_entries_accepted
  <2>2. log[i] \in Seq(Entry) /\ commit_index[i] \in Nat /\ applied[i] \in Seq(Entry)
    BY <1>1 DEF TypeOK
  <2>3. MergedLog(log[i], m) \in Seq(Entry)
    BY <1>1, <2>2, MergedType DEF append_entries_accepted
  <2>4. FollowerCommit(commit_index[i], m) \in Nat
    BY <1>1, <2>2, LenProperties DEF FollowerCommit, matched_index, AppendEntries
  <2>5. /\ log' \in [Server -> Seq(Entry)] /\ commit_index' \in [Server -> Nat]
        /\ log'[i] \in Seq(Entry) /\ commit_index'[i] \in Nat
    BY <1>1, <2>1, <2>3, <2>4 DEF TypeOK
  <2>6. CASE CanApply(log'[i], applied[i], commit_index'[i])
    <3>1. /\ applied' = [applied EXCEPT ![i] =
                apply_committed(log'[i], applied[i], commit_index'[i])]
          /\ drop_leadership(i, m.from)
          /\ msgs' = msgs \cup {AppendReply(i, m, m.term, TRUE)}
          /\ UNCHANGED stopped
      BY <1>5, <2>6 DEF append_entries_accepted
    <3>2. applied' \in [Server -> Seq(Entry)]
      <4>1. apply_committed(log'[i], applied[i], commit_index'[i]) \in Seq(Entry)
        BY <2>2, <2>5, <2>6, ApplyType
      <4> QED
        BY <1>1, <3>1, <4>1 DEF TypeOK
    <3>3. msgs' \subseteq Message
      <4>1. AppendReply(i, m, m.term, TRUE) \in Message
        BY <1>1, ReplyType
      <4>2. msgs \subseteq Message
        BY DEF TypeOK
      <4> QED
        BY <3>1, <4>1, <4>2
    <3>4. /\ leader_term' \in [Server -> Term]
          /\ peers' \in [Server -> [Server -> PeerState]]
          /\ read_rounds' \in [Server -> SUBSET [id : 1..MaxReadId, index : Nat]]
          /\ known_leader' \in [Server -> Server \cup {Nobody}]
      BY <1>1, <3>1, DropType
    <3>5. /\ role' \in [Server -> {"Follower", "Candidate", "Leader"}]
          /\ election_term' \in [Server -> Term]
          /\ replied' \in [Server -> SUBSET Server]
          /\ granted_votes' \in [Server -> Nat]
      BY <1>1, <2>1, FollowerType
    <3>6. UNCHANGED <<stopped, next_read_id>>
      BY <3>1 DEF append_entries_accepted
    <3> QED
      BY <1>2, <2>5, <3>2, <3>3, <3>4, <3>5, <3>6 DEF TypeOK
  <2>7. CASE ~CanApply(log'[i], applied[i], commit_index'[i])
    <3>1. stop(i, "InconsistentState") /\ UNCHANGED <<applied, msgs>>
      BY <1>5, <2>7 DEF append_entries_accepted
    <3> QED
      BY <1>1, <1>2, <1>3, <2>1, <2>5, <3>1, StopType, FollowerType
      DEF append_entries_accepted, TypeOK
  <2> QED
    BY <2>6, <2>7
<1> QED
  BY <1>4, <1>5

\* Stepping down for a reply of a newer term keeps the types.
LEMMA TypeAppendReplyStepsDown ==
  ASSUME TypeOK, NEW m \in msgs, append_reply_steps_down(m.to, m)
  PROVE  TypeOK'
<1> USE DEF metadata, election, leader, node
<1>1. m.to \in Server /\ m.term \in Term
  BY MessageKinds DEF TypeOK
<1>2. advance_term(m.to, m.term) /\ drop_leadership(m.to, Nobody)
  BY DEF append_reply_steps_down
<1> QED
  BY <1>1, <1>2, AdvanceType, DropType DEF append_reply_steps_down, TypeOK

\* Going back one entry for a peer that refused keeps next_index in range.
LEMMA TypeAppendReplyFailed ==
  ASSUME TypeOK, NEW m \in msgs, append_reply_failed(m.to, m)
  PROVE  TypeOK'
<1> DEFINE i == m.to
           p == m.from
           moved == [peers[i] EXCEPT ![p].next_index = @ - 1, ![p].pending = NoRequest]
           stuck == \/ peers[i][p].next_index <= peers[i][p].match_index + 1
                    \/ ~CanQueue(log[i], commit_index[i], moved, {p})
<1> USE DEF metadata, election, leader, node
<1>1. i \in Server /\ p \in Server
  BY MessageKinds DEF TypeOK
<1>2. CASE stuck
  <2>1. stop(i, "InconsistentState") /\ UNCHANGED msgs
    BY <1>2 DEF append_reply_failed
  <2>2. "InconsistentState" \in Errors
    BY DEF Errors
  <2> QED
    BY <1>1, <2>1, <2>2, StopType DEF append_reply_failed, TypeOK
<1>3. CASE ~stuck
  <2>1. /\ peers' = [peers EXCEPT ![i] =
              Queued(i, leader_term[i], log[i], commit_index[i], moved, {p})]
        /\ msgs' = msgs \cup Requests(peers'[i], {p})
        /\ UNCHANGED <<leader_term, read_rounds, known_leader, stopped>>
    BY <1>3 DEF append_reply_failed
  <2>2. /\ log[i] \in Seq(Entry) /\ commit_index[i] \in Nat /\ leader_term[i] \in Term
        /\ peers[i] \in [Server -> PeerState] /\ peers[i][p] \in PeerState
        /\ peers[i][p].next_index \in Nat /\ peers[i][p].match_index \in Nat
    BY <1>1, PeerType
  <2>3. peers[i][p].next_index - 1 \in Nat
    <3> HIDE DEF i, p, moved
    <3> QED
      BY <1>3, <2>2
  <2>4. moved \in [Server -> PeerState]
    BY <1>1, <2>2, <2>3, MovedType
  <2>5. CanQueue(log[i], commit_index[i], moved, {p}) /\ {p} \in SUBSET Server
    BY <1>1, <1>3
  <2>6. /\ peers' \in [Server -> [Server -> PeerState]]
        /\ Requests(peers'[i], {p}) \subseteq AppendEntries
    <3> HIDE DEF moved
    <3> QED
      BY <1>1, <2>1, <2>2, <2>4, <2>5, QueueStepType
  <2> QED
    BY <2>1, <2>6 DEF append_reply_failed, TypeOK, Message
<1> QED
  BY <1>2, <1>3

\* What is recorded of a success.
LEMMA AcknowledgedType ==
  ASSUME TypeOK, NEW m \in msgs, Answers(m.to, m)
  PROVE  Acknowledged(m.to, m) \in [Server -> PeerState]
<1>1. m.to \in Server /\ m.from \in Server /\ m \in AppendEntriesReply
  BY MessageKinds DEF TypeOK, Answers, ToAppendReply
<1>2. matched_index(m.replied_to) \in Nat
  BY <1>1, LenProperties DEF AppendEntriesReply, AppendEntries, matched_index
<1>3. peers[m.to] \in [Server -> PeerState] /\ peers[m.to][m.from].match_index \in Nat
  BY <1>1 DEF TypeOK, PeerState
<1> QED
  BY <1>1, <1>2, <1>3 DEF Acknowledged, PeerState

\* Recording an acknowledgment and sending the next batch keep the types.
LEMMA TypeAppendReplyRecorded ==
  ASSUME TypeOK, NEW m \in msgs, append_reply_recorded(m.to, m)
  PROVE  TypeOK'
<1> DEFINE i == m.to
           p == m.from
           acked == Acknowledged(i, m)
<1> USE DEF metadata, election, leader, node
<1>1. i \in Server /\ p \in Server
  BY MessageKinds DEF TypeOK
<1>2. acked \in [Server -> PeerState]
  BY AcknowledgedType DEF append_reply_recorded
<1>3. CASE acked[p].next_index > last_index(log[i])
  <2>1. /\ peers' = [peers EXCEPT ![i] = acked]
        /\ UNCHANGED <<leader_term, read_rounds, known_leader, stopped, msgs>>
    BY <1>3 DEF append_reply_recorded
  <2> QED
    BY <1>1, <1>2, <2>1 DEF append_reply_recorded, TypeOK
<1>4. CASE /\ ~(acked[p].next_index > last_index(log[i]))
           /\ ~CanQueue(log[i], commit_index[i], acked, {p})
  <2>1. stop(i, "InconsistentState") /\ UNCHANGED msgs
    BY <1>4 DEF append_reply_recorded
  <2>2. "InconsistentState" \in Errors
    BY DEF Errors
  <2> QED
    BY <1>1, <2>1, <2>2, StopType DEF append_reply_recorded, TypeOK
<1>5. CASE /\ ~(acked[p].next_index > last_index(log[i]))
           /\ CanQueue(log[i], commit_index[i], acked, {p})
  <2>1. /\ peers' = [peers EXCEPT ![i] =
              Queued(i, leader_term[i], log[i], commit_index[i], acked, {p})]
        /\ msgs' = msgs \cup Requests(peers'[i], {p})
        /\ UNCHANGED <<leader_term, read_rounds, known_leader, stopped>>
    BY <1>5 DEF append_reply_recorded
  <2>2. /\ log[i] \in Seq(Entry) /\ commit_index[i] \in Nat /\ leader_term[i] \in Term
        /\ {p} \in SUBSET Server
    BY <1>1 DEF TypeOK
  <2>3. /\ peers' \in [Server -> [Server -> PeerState]]
        /\ Requests(peers'[i], {p}) \subseteq AppendEntries
    BY <1>1, <1>2, <1>5, <2>1, <2>2, QueueStepType
  <2> QED
    BY <2>1, <2>3 DEF append_reply_recorded, TypeOK, Message
<1> QED
  BY <1>3, <1>4, <1>5

\* Starting the waiting reads.
LEMMA StartedType ==
  ASSUME NEW rounds \in SUBSET [id : 1..MaxReadId, index : Nat], NEW commit \in Nat
  PROVE  /\ StartedRounds(rounds, commit) \in SUBSET [id : 1..MaxReadId, index : Nat]
         /\ NewlyStarted(rounds, commit) \in SUBSET [id : 1..MaxReadId, index : Nat]
<1>1. ASSUME NEW r \in rounds
      PROVE  (IF r.index = 0 THEN [r EXCEPT !.index = commit] ELSE r)
               \in [id : 1..MaxReadId, index : Nat]
  OBVIOUS
<1> QED
  BY <1>1 DEF StartedRounds, NewlyStarted

\* Advancing the commit index, applying and announcing it keep the types.
LEMMA TypeAppendReplyCommitted ==
  ASSUME TypeOK, NEW m \in msgs, append_reply_committed(m.to, m)
  PROVE  TypeOK'
<1> DEFINE i == m.to
           acked == Acknowledged(i, m)
<1> USE DEF metadata, election, leader, node
<1>1. i \in Server
  BY MessageKinds DEF TypeOK
<1>2. acked \in [Server -> PeerState]
  BY AcknowledgedType DEF append_reply_committed
<1>3. /\ log[i] \in Seq(Entry) /\ Len(log[i]) \in Nat /\ commit_index[i] \in Nat
      /\ leader_term[i] \in Term /\ Peers(i) \in SUBSET Server
      /\ applied[i] \in Seq(Entry)
      /\ read_rounds[i] \in SUBSET [id : 1..MaxReadId, index : Nat]
  BY <1>1, LenProperties DEF TypeOK, Peers
<1>4. PICK commit \in NewCommits(i, m) :
        /\ commit_index' = [commit_index EXCEPT ![i] = commit]
        /\ IF \/ ~CanApply(log[i], applied[i], commit)
              \/ ~CanQueue(log[i], commit, acked, Peers(i))
             THEN stop(i, "InconsistentState") /\ UNCHANGED <<applied, msgs>>
             ELSE /\ applied' = [applied EXCEPT ![i] =
                        apply_committed(log[i], applied[i], commit)]
                  /\ peers' = [peers EXCEPT ![i] =
                        Queued(i, leader_term[i], log[i], commit, acked, Peers(i))]
                  /\ IF current_term_committed(log[i], applied'[i], commit, current_term[i])
                       THEN /\ read_rounds' = [read_rounds EXCEPT ![i] =
                                 StartedRounds(read_rounds[i], commit)]
                            /\ msgs' = msgs \cup Requests(peers'[i], Peers(i))
                                 \cup Probes(i, leader_term[i],
                                             NewlyStarted(read_rounds[i], commit))
                       ELSE /\ msgs' = msgs \cup Requests(peers'[i], Peers(i))
                            /\ UNCHANGED read_rounds
                  /\ UNCHANGED <<leader_term, known_leader, stopped>>
  BY DEF append_reply_committed
<1>5. commit \in Nat
  <2>1. commit \in (commit_index[i] + 1)..Len(log[i])
    BY Zenon DEF NewCommits, Committable
  <2> QED
    BY <1>3, <2>1
<1>6. commit_index' \in [Server -> Nat]
  BY <1>1, <1>4, <1>5 DEF TypeOK
<1>7. CASE \/ ~CanApply(log[i], applied[i], commit)
           \/ ~CanQueue(log[i], commit, acked, Peers(i))
  <2>1. stop(i, "InconsistentState") /\ UNCHANGED <<applied, msgs>>
    BY <1>4, <1>7
  <2>2. "InconsistentState" \in Errors
    BY DEF Errors
  <2> QED
    BY <1>1, <1>6, <2>1, <2>2, StopType DEF append_reply_committed, TypeOK
<1>8. CASE /\ CanApply(log[i], applied[i], commit)
           /\ CanQueue(log[i], commit, acked, Peers(i))
  <2>1. applied' \in [Server -> Seq(Entry)]
    <3>1. apply_committed(log[i], applied[i], commit) \in Seq(Entry)
      BY <1>3, <1>5, <1>8, ApplyType
    <3> QED
      BY <1>1, <1>4, <1>8, <3>1 DEF TypeOK
  <2>2. /\ peers' \in [Server -> [Server -> PeerState]]
        /\ Requests(peers'[i], Peers(i)) \subseteq AppendEntries
    <3>1. peers' = [peers EXCEPT ![i] =
                      Queued(i, leader_term[i], log[i], commit, acked, Peers(i))]
      BY <1>4, <1>8
    <3> QED
      BY <1>1, <1>2, <1>3, <1>5, <1>8, <3>1, QueueStepType
  <2>3. /\ read_rounds' \in [Server -> SUBSET [id : 1..MaxReadId, index : Nat]]
        /\ msgs' \subseteq Message
    <3>1. CASE current_term_committed(log[i], applied'[i], commit, current_term[i])
      <4>1. /\ read_rounds' = [read_rounds EXCEPT ![i] =
                 StartedRounds(read_rounds[i], commit)]
            /\ msgs' = msgs \cup Requests(peers'[i], Peers(i))
                        \cup Probes(i, leader_term[i], NewlyStarted(read_rounds[i], commit))
        BY <1>4, <1>8, <3>1
      <4>2. /\ StartedRounds(read_rounds[i], commit) \in
                 SUBSET [id : 1..MaxReadId, index : Nat]
            /\ NewlyStarted(read_rounds[i], commit) \in
                 SUBSET [id : 1..MaxReadId, index : Nat]
        BY <1>3, <1>5, StartedType
      <4>3. read_rounds' \in [Server -> SUBSET [id : 1..MaxReadId, index : Nat]]
        BY <1>1, <4>1, <4>2 DEF TypeOK
      <4>4. Probes(i, leader_term[i], NewlyStarted(read_rounds[i], commit))
              \subseteq AppendEntries
        BY <1>1, <1>3, <4>2, ProbesType
      <4> QED
        BY <2>2, <4>1, <4>3, <4>4 DEF TypeOK, Message
    <3>2. CASE ~current_term_committed(log[i], applied'[i], commit, current_term[i])
      BY <1>4, <1>8, <2>2, <3>2 DEF TypeOK, Message
    <3> QED
      BY <3>1, <3>2
  <2>4. UNCHANGED <<leader_term, known_leader, stopped>>
    BY <1>4, <1>8
  <2> QED
    BY <1>6, <2>1, <2>2, <2>3, <2>4 DEF append_reply_committed, TypeOK
<1> QED
  BY <1>7, <1>8

\* Handing a confirmed read to the caller keeps the types.
LEMMA TypeReadyRead ==
  ASSUME TypeOK, NEW m \in msgs, append_reply_ready_read(m.to, m)
  PROVE  TypeOK'
<1> DEFINE i == m.to
<1> USE DEF metadata, election, leader, node
<1>1. i \in Server
  BY MessageKinds DEF TypeOK
<1>2. "InconsistentState" \in Errors
  BY DEF Errors
<1>3. PICK r \in read_rounds[i] :
        IF Len(applied[i]) < r.index
          THEN stop(i, "InconsistentState")
          ELSE /\ read_rounds' = [read_rounds EXCEPT ![i] = @ \ {r}]
               /\ UNCHANGED <<leader_term, peers, known_leader, stopped>>
  BY DEF append_reply_ready_read
<1>4. CASE Len(applied[i]) < r.index
  BY <1>1, <1>2, <1>3, <1>4, StopType DEF append_reply_ready_read, TypeOK
<1>5. CASE ~(Len(applied[i]) < r.index)
  <2>1. /\ read_rounds' = [read_rounds EXCEPT ![i] = @ \ {r}]
        /\ UNCHANGED <<leader_term, peers, known_leader, stopped>>
    BY <1>3, <1>5
  <2>2. read_rounds' \in [Server -> SUBSET [id : 1..MaxReadId, index : Nat]]
    BY <1>1, <2>1 DEF TypeOK
  <2> QED
    BY <2>1, <2>2 DEF append_reply_ready_read, TypeOK
<1> QED
  BY <1>4, <1>5

\* propose keeps the types: the entry written is an entry.
LEMMA TypePropose ==
  ASSUME TypeOK, NEW i \in Server, NEW command \in Command, propose(i, command)
  PROVE  TypeOK'
<1> DEFINE grown == Append(log[i], [term |-> leader_term[i], command |-> command])
<1> USE DEF metadata, election, leader, node
<1>1. /\ log[i] \in Seq(Entry) /\ commit_index[i] \in Nat
      /\ leader_term[i] \in Term /\ leader_term[i] # 0 /\ Peers(i) \in SUBSET Server
      /\ peers[i] \in [Server -> PeerState]
  BY DEF TypeOK, Peers, propose, Active
<1>2. "InconsistentState" \in Errors
  BY DEF Errors
<1>3. CASE last_index(log[i]) >= MaxIndex
  <2>1. stop(i, "InconsistentState") /\ UNCHANGED <<log, msgs>>
    BY <1>3 DEF propose
  <2> QED
    BY <1>2, <2>1, StopType DEF propose, TypeOK
<1>4. CASE ~(last_index(log[i]) >= MaxIndex)
  <2>1. grown \in Seq(Entry)
    BY <1>1, GrownType
  <2>2. log' = [log EXCEPT ![i] = grown]
    BY <1>4 DEF propose
  <2>3. log' \in [Server -> Seq(Entry)]
    BY <2>1, <2>2 DEF TypeOK
  <2>4. CASE CanQueue(grown, commit_index[i], peers[i], Peers(i))
    <3>1. /\ peers' = [peers EXCEPT ![i] =
                Queued(i, leader_term[i], grown, commit_index[i], peers[i], Peers(i))]
          /\ msgs' = msgs \cup Requests(peers'[i], Peers(i))
          /\ UNCHANGED <<leader_term, read_rounds, known_leader, stopped>>
      BY <1>4, <2>4 DEF propose
    <3>2. /\ peers' \in [Server -> [Server -> PeerState]]
          /\ Requests(peers'[i], Peers(i)) \subseteq AppendEntries
      <4> HIDE DEF grown
      <4> QED
        BY <1>1, <2>1, <2>4, <3>1, QueueStepType
    <3> QED
      BY <2>3, <3>1, <3>2 DEF propose, TypeOK, Message
  <2>5. CASE ~CanQueue(grown, commit_index[i], peers[i], Peers(i))
    <3>1. stop(i, "InconsistentState") /\ UNCHANGED msgs
      BY <1>4, <2>5 DEF propose
    <3> QED
      BY <1>2, <2>3, <3>1, StopType DEF propose, TypeOK
  <2> QED
    BY <2>4, <2>5
<1> QED
  BY <1>3, <1>4

\* read_barrier keeps the types, also where the read id wraps to zero.
LEMMA TypeReadBarrier ==
  ASSUME TypeOK, NEW i \in Server, read_barrier(i)
  PROVE  TypeOK'
<1> DEFINE asked == read_rounds[i] \cup {[id |-> next_read_id[i], index |-> 0]}
<1> USE DEF metadata, election, leader, node
<1>1. CASE next_read_id[i] = 0
  <2>1. stop(i, "InconsistentState") /\ UNCHANGED <<next_read_id, msgs>>
    BY <1>1 DEF read_barrier
  <2>2. "InconsistentState" \in Errors
    BY DEF Errors
  <2> QED
    BY <2>1, <2>2, StopType DEF read_barrier, TypeOK
<1>2. CASE next_read_id[i] # 0
  <2>1. /\ next_read_id' = [next_read_id EXCEPT ![i] = NextReadId(next_read_id[i])]
        /\ UNCHANGED <<leader_term, peers, known_leader, stopped>>
    BY <1>2 DEF read_barrier
  <2>2. /\ commit_index[i] \in Nat /\ leader_term[i] \in Term
        /\ next_read_id[i] \in 1..MaxReadId
        /\ read_rounds[i] \in SUBSET [id : 1..MaxReadId, index : Nat]
    BY <1>2, BoundAssumption DEF TypeOK
  <2>3. NextReadId(next_read_id[i]) \in 0..MaxReadId
    BY <2>2, BoundAssumption DEF NextReadId
  <2>4. next_read_id' \in [Server -> 0..MaxReadId]
    BY <2>1, <2>3 DEF TypeOK
  <2>5. asked \in SUBSET [id : 1..MaxReadId, index : Nat]
    BY <2>2
  <2>6. /\ read_rounds' \in [Server -> SUBSET [id : 1..MaxReadId, index : Nat]]
        /\ msgs' \subseteq Message
    <3>1. CASE current_term_committed(log[i], applied[i], commit_index[i], current_term[i])
      <4>1. /\ read_rounds' = [read_rounds EXCEPT ![i] =
                 StartedRounds(asked, commit_index[i])]
            /\ msgs' = msgs \cup Probes(i, leader_term[i], NewlyStarted(asked, commit_index[i]))
        BY <1>2, <3>1 DEF read_barrier
      <4>2. /\ StartedRounds(asked, commit_index[i]) \in
                 SUBSET [id : 1..MaxReadId, index : Nat]
            /\ NewlyStarted(asked, commit_index[i]) \in
                 SUBSET [id : 1..MaxReadId, index : Nat]
        BY <2>2, <2>5, StartedType
      <4>3. read_rounds' \in [Server -> SUBSET [id : 1..MaxReadId, index : Nat]]
        BY <4>1, <4>2 DEF TypeOK
      <4>4. Probes(i, leader_term[i], NewlyStarted(asked, commit_index[i]))
              \subseteq AppendEntries
        BY <2>2, <4>2, ProbesType
      <4> QED
        BY <4>1, <4>3, <4>4 DEF TypeOK, Message
    <3>2. CASE ~current_term_committed(log[i], applied[i], commit_index[i], current_term[i])
      <4>1. read_rounds' = [read_rounds EXCEPT ![i] = asked] /\ UNCHANGED msgs
        BY <1>2, <3>2 DEF read_barrier
      <4> QED
        BY <2>5, <4>1 DEF TypeOK
    <3> QED
      BY <3>1, <3>2
  <2> QED
    BY <2>1, <2>4, <2>6 DEF read_barrier, TypeOK
<1> QED
  BY <1>1, <1>2

\* A failed write keeps the types if the image it leaves has them.
LEMMA WriteFailsType ==
  ASSUME TypeOK, NEW i \in Server, NEW term \in Term, NEW vote \in Server \cup {Nobody},
         NEW lg \in Seq(Entry), WriteFails(i, term, vote, lg)
  PROVE  TypeOK'
<1>1. stop(i, "PersistenceError") /\ "PersistenceError" \in Errors
  BY DEF WriteFails, Errors
<1>2. /\ current_term' \in [Server -> Term]
      /\ voted_for' \in [Server -> Server \cup {Nobody}]
      /\ log' \in [Server -> Seq(Entry)]
  BY DEF WriteFails, TypeOK
<1> QED
  BY <1>1, <1>2, StopType DEF WriteFails, TypeOK, election

\* Every durable image a failed write leaves is well-typed.
LEMMA TypeFailure ==
  ASSUME TypeOK, NEW i \in Server, Failure(i)
  PROVE  TypeOK'
<1>1. /\ current_term[i] \in Term /\ voted_for[i] \in Server \cup {Nobody}
      /\ log[i] \in Seq(Entry) /\ leader_term[i] \in Term
  BY DEF TypeOK
<1>2. CASE election_write_fails(i)
  <2>1. current_term[i] + 1 \in Term
    BY <1>1, <1>2, BoundAssumption DEF election_write_fails, CanCampaign, Term
  <2> QED
    BY <1>1, <1>2, <2>1, WriteFailsType DEF election_write_fails
<1>3. ASSUME NEW command \in Command, proposal_write_fails(i, command) PROVE TypeOK'
  <2>1. leader_term[i] # 0
    BY <1>3 DEF proposal_write_fails, Active
  <2>2. Append(log[i], [term |-> leader_term[i], command |-> command]) \in Seq(Entry)
    BY <1>1, <2>1, GrownType
  <2> QED
    BY <1>1, <1>3, <2>2, WriteFailsType DEF proposal_write_fails
<1>4. ASSUME NEW m \in msgs, m.to = i, term_write_fails(i, m) PROVE TypeOK'
  <2>1. m.term \in Term
    BY MessageKinds DEF TypeOK
  <2> QED
    BY <1>1, <1>4, <2>1, WriteFailsType DEF term_write_fails
<1>5. ASSUME NEW m \in msgs, m.to = i, vote_write_fails(i, m) PROVE TypeOK'
  <2>1. m.term \in Term /\ m.from \in Server
    BY MessageKinds DEF TypeOK
  <2> QED
    BY <1>1, <1>5, <2>1, WriteFailsType DEF vote_write_fails
<1>6. ASSUME NEW m \in msgs, m.to = i, append_write_fails(i, m) PROVE TypeOK'
  <2>1. m.term \in Term /\ m \in AppendEntries
    BY <1>6, MessageKinds DEF TypeOK, append_write_fails, ToAppend
  <2>2. PartialLogs(log[i], m) \subseteq Seq(Entry)
    BY <1>1, <1>6, <2>1, MergedType DEF append_write_fails
  <2>3. PICK lg \in PartialLogs(log[i], m) :
          WriteFails(i, m.term,
                     IF m.term > current_term[i] THEN Nobody ELSE voted_for[i], lg)
    BY <1>6 DEF append_write_fails
  <2>4. (IF m.term > current_term[i] THEN Nobody ELSE voted_for[i]) \in Server \cup {Nobody}
    BY <1>1
  <2> QED
    BY <2>1, <2>2, <2>3, <2>4, WriteFailsType
<1>7. ASSUME NEW m \in msgs, m.to = i, noop_write_fails(i, m) PROVE TypeOK'
  <2>1. current_term[i] # 0
    BY <1>7 DEF noop_write_fails, CannotLead
  <2>2. Append(log[i], [term |-> current_term[i], command |-> NoOp]) \in Seq(Entry)
    BY <1>1, <2>1, GrownType
  <2> QED
    BY <1>1, <1>7, <2>2, WriteFailsType DEF noop_write_fails
<1> QED
  BY <1>2, <1>3, <1>4, <1>5, <1>6, <1>7 DEF Failure

\* A restart keeps the durable state and resets the rest to well-typed values.
LEMMA TypeRestart ==
  ASSUME TypeOK, NEW i \in Server, Restart(i)
  PROVE  TypeOK'
<1> USE DEF metadata
<1>1. become_follower(i) /\ drop_leadership(i, Nobody)
  BY DEF Restart
<1>2. <<>> \in Seq(Entry) /\ 1 \in 0..MaxReadId
  BY EmptySeq, BoundAssumption
<1>3. /\ stopped' \in [Server -> Errors \cup {"None"}]
      /\ commit_index' \in [Server -> Nat]
      /\ applied' \in [Server -> Seq(Entry)]
      /\ next_read_id' \in [Server -> 0..MaxReadId]
  BY <1>2 DEF Restart, TypeOK
<1> QED
  BY <1>1, <1>3, DropType, FollowerType DEF Restart, TypeOK

-----------------------------------------------------------------------------

\* Every action, message and failure included, preserves the type invariant.
LEMMA TypeNext == TypeOK /\ [Next]_vars => TypeOK'
<1> SUFFICES ASSUME TypeOK, [Next]_vars PROVE TypeOK'
  OBVIOUS
<1>1. ASSUME NEW i \in Server, LocalStep(i) PROVE TypeOK'
  BY <1>1, TypeTimeout, TypeExhausted, TypeHeartbeat, TypePropose, TypeReadBarrier
  DEF LocalStep
<1>2. ASSUME NEW m \in msgs, Receive(m.to, m) PROVE TypeOK'
  BY <1>2, TypeRequestVote, TypeVoteReply, TypeBecomesLeader, TypeStale, TypeRejected,
     TypeAccepted, TypeAppendReplyStepsDown, TypeAppendReplyFailed,
     TypeAppendReplyRecorded, TypeAppendReplyCommitted, TypeReadyRead DEF Receive
<1>3. CASE UNCHANGED vars
  BY <1>3 DEF vars, metadata, node, election, leader, TypeOK
<1> QED
  BY <1>1, <1>2, <1>3, TypeFailure, TypeRestart DEF Next

\* The cluster never leaves the types its C++ members have: whatever is received,
\* resent or cut short, no request is built from an entry that is not there and
\* no term or read id passes the end of its range.
THEOREM TypeCorrect == Spec => []TypeOK
<1>1. Init => TypeOK
  BY TypeInit
<1>2. TypeOK /\ [Next]_vars => TypeOK'
  BY TypeNext
<1> QED
  BY <1>1, <1>2, PTL DEF Spec

-----------------------------------------------------------------------------
(* What a step may do to votes, and what it may do to leaders.             *)

\* A node's term grows, or its vote of the term stays what it was.
VoteStep(j) ==
  \/ current_term'[j] > current_term[j]
  \/ /\ current_term'[j] = current_term[j]
     /\ voted_for'[j] = voted_for[j] \/ voted_for[j] = Nobody

\* No vote is asked for or given.
NoVotes ==
  /\ \A j \in Server : VoteStep(j)
  /\ \A m \in msgs' : m \notin msgs =>
       m.kind # "RequestVote" /\ (m.kind = "RequestVoteReply" => ~m.vote_granted)

\* The step's leaders and requests come from elections already held.
LeadStep ==
  /\ msgs \subseteq msgs'
  /\ \A m \in msgs' : m \notin msgs /\ m.kind = "AppendEntries" => Elected(m.from, m.term)
  /\ \A i \in Server :
       /\ leader_term'[i] # 0 => Elected(i, leader_term'[i])
       /\ role'[i] = "Candidate" =>
            \E m \in msgs' : /\ m.kind = "RequestVote" /\ m.from = i
                             /\ m.term = election_term'[i]
       /\ \A p \in Server :
            peers'[i][p].pending # NoRequest => peers'[i][p].pending \in msgs'

\* A vote backed before a step is backed after it.
LEMMA StandsForGood ==
  ASSUME TypeOK, NEW j \in Server, NEW t \in Term, NEW c \in Server,
         TypeOK', VoteStep(j), VoteStands(j, t, c)
  PROVE  VoteStands(j, t, c)'
<1>1. current_term[j] \in Nat /\ current_term'[j] \in Nat /\ t \in Nat
  BY DEF TypeOK, Term
<1>2. c # Nobody
  BY ServerAssumption
<1> QED
  BY <1>1, <1>2 DEF VoteStep, VoteStands

\* Steps without votes keep the votes backed and unique.
LEMMA NoVotesPreserve ==
  ASSUME TypeOK, TypeOK', VotesBacked, VotesUnique, NoVotes
  PROVE  VotesBacked' /\ VotesUnique'
<1>1. VotesBacked'
  <2> SUFFICES ASSUME NEW m \in msgs'
               PROVE  /\ m.kind = "RequestVote" =>
                           m.from # m.to /\ VoteStands(m.from, m.term, m.from)'
                      /\ m.kind = "RequestVoteReply" /\ m.vote_granted =>
                           m.from # m.to /\ VoteStands(m.from, m.term, m.to)'
    BY DEF VotesBacked
  <2>1. m.from \in Server /\ m.to \in Server /\ m.term \in Term
    BY MessageKinds DEF TypeOK
  <2>2. CASE m \in msgs
    BY <2>1, <2>2, StandsForGood DEF VotesBacked, NoVotes
  <2>3. CASE m \notin msgs
    BY <2>3 DEF NoVotes
  <2> QED
    BY <2>2, <2>3
<1>2. VotesUnique'
  BY DEF VotesUnique, NoVotes
<1> QED
  BY <1>1, <1>2

\* Elections are not forgotten.
LEMMA ElectedForGood ==
  ASSUME msgs \subseteq msgs', NEW c, NEW t, Elected(c, t)
  PROVE  Elected(c, t)'
BY DEF Elected

\* Such a step keeps all leaders elected.
LEMMA LeadStepPreserves ==
  ASSUME LeadersElected, LeadStep
  PROVE  LeadersElected'
<1>1. \A c, t : Elected(c, t) => Elected(c, t)'
  BY ElectedForGood DEF LeadStep
<1>2. ASSUME NEW m \in msgs', m.kind = "AppendEntries"
      PROVE  Elected(m.from, m.term)'
  <2>1. Elected(m.from, m.term)
    BY <1>2 DEF LeadersElected, LeadStep
  <2> QED
    BY <1>1, <2>1
<1>3. ASSUME NEW i \in Server, leader_term'[i] # 0
      PROVE  Elected(i, leader_term[i])'
  <2>1. Elected(i, leader_term'[i])
    BY <1>3 DEF LeadStep
  <2> QED
    BY <2>1 DEF Elected, LeadStep
<1> QED
  BY <1>2, <1>3 DEF LeadersElected, LeadStep

-----------------------------------------------------------------------------
(* The shared parts of the handlers.                                       *)

\* Raising the term is a vote step.
LEMMA AdvanceIsVoteStep ==
  ASSUME TypeOK, NEW i \in Server, NEW term \in Term, advance_term(i, term)
  PROVE  \A j \in Server : VoteStep(j)
BY DEF TypeOK, advance_term, VoteStep, Term

\* Dropping a leadership makes no leader and leaves nothing outstanding.
LEMMA DropLeads ==
  ASSUME TypeOK, LeadersElected, msgs \subseteq msgs', NEW i \in Server, NEW hint,
         drop_leadership(i, hint)
  PROVE  \A j \in Server :
           /\ leader_term'[j] # 0 => Elected(j, leader_term'[j])
           /\ \A p \in Server :
                peers'[j][p].pending # NoRequest => peers'[j][p].pending \in msgs'
<1> SUFFICES ASSUME NEW j \in Server
             PROVE  /\ leader_term'[j] # 0 => Elected(j, leader_term'[j])
                    /\ \A p \in Server :
                         peers'[j][p].pending # NoRequest => peers'[j][p].pending \in msgs'
  OBVIOUS
<1>1. CASE j = i
  <2>1. leader_term'[j] = 0 /\ peers'[j] = [p \in Server |-> NoProgress]
    BY <1>1 DEF drop_leadership, TypeOK
  <2> QED
    BY <2>1 DEF NoProgress
<1>2. CASE j # i
  <2>1. leader_term'[j] = leader_term[j] /\ peers'[j] = peers[j]
    BY <1>2 DEF drop_leadership, TypeOK
  <2> QED
    BY <2>1 DEF LeadersElected
<1> QED
  BY <1>1, <1>2

\* A leader that keeps its object makes no other leader.
LEMMA KeepLeads ==
  ASSUME TypeOK, LeadersElected, msgs \subseteq msgs', UNCHANGED <<leader_term, peers>>
  PROVE  \A j \in Server :
           /\ leader_term'[j] # 0 => Elected(j, leader_term'[j])
           /\ \A p \in Server :
                peers'[j][p].pending # NoRequest => peers'[j][p].pending \in msgs'
BY DEF LeadersElected

\* Nobody becomes a candidate.
NoCandidate ==
  \A j \in Server : role'[j] = "Candidate" =>
    role[j] = "Candidate" /\ election_term'[j] = election_term[j]

\* The candidates' requests are still there.
LEMMA CandidatesAsked ==
  ASSUME LeadersElected, msgs \subseteq msgs', NoCandidate
  PROVE  \A j \in Server : role'[j] = "Candidate" =>
           \E m \in msgs' : /\ m.kind = "RequestVote" /\ m.from = j
                            /\ m.term = election_term'[j]
BY DEF LeadersElected, NoCandidate

\* Requests queued by an elected leader are requests of an elected leader, and
\* what is outstanding afterwards has been sent.
LEMMA QueueLeads ==
  ASSUME TypeOK, LeadersElected, NEW i \in Server, NEW term, Elected(i, term),
         NEW lg, NEW commit, NEW ps \in [Server -> PeerState], NEW S \in SUBSET Server,
         \A p \in Server : ps[p].pending # NoRequest => ps[p].pending \in msgs,
         peers' = [peers EXCEPT ![i] = Queued(i, term, lg, commit, ps, S)],
         msgs \subseteq msgs', Requests(peers'[i], S) \subseteq msgs'
  PROVE  /\ \A m \in Requests(peers'[i], S) : m \notin msgs =>
              m.kind = "AppendEntries" /\ Elected(m.from, m.term)
         /\ \A j, p \in Server :
              peers'[j][p].pending # NoRequest => peers'[j][p].pending \in msgs'
<1> DEFINE q == Queued(i, term, lg, commit, ps, S)
<1>1. peers'[i] = q
  BY DEF TypeOK
<1>2. ASSUME NEW p \in S
      PROVE  \/ q[p].pending \in msgs
             \/ /\ q[p].pending.kind = "AppendEntries"
                /\ q[p].pending.from = i /\ q[p].pending.term = term
  <2>1. CASE ps[p].pending = NoRequest
    <3>1. q[p] = [ps[p] EXCEPT !.pending =
                    make_request(i, p, term, lg, commit, ps[p].next_index)]
      BY <2>1 DEF Queued
    <3>2. ps[p] \in PeerState
      OBVIOUS
    <3>3. q[p].pending = make_request(i, p, term, lg, commit, ps[p].next_index)
      BY <3>1, <3>2 DEF PeerState
    <3> HIDE DEF q
    <3> QED
      BY <3>3 DEF make_request
  <2>2. CASE ps[p].pending # NoRequest
    BY <2>2 DEF Queued
  <2> QED
    BY <2>1, <2>2
<1>3. \A p \in Server : p \notin S => q[p] = ps[p]
  BY DEF Queued
<1> HIDE DEF q
<1>4. \A m \in Requests(peers'[i], S) : m \notin msgs =>
        m.kind = "AppendEntries" /\ Elected(m.from, m.term)
  BY <1>1, <1>2 DEF Requests
<1>5. ASSUME NEW j \in Server, NEW p \in Server, peers'[j][p].pending # NoRequest
      PROVE  peers'[j][p].pending \in msgs'
  <2>1. CASE j = i /\ p \in S
    BY <1>1, <2>1 DEF Requests
  <2>2. CASE j = i /\ p \notin S
    BY <1>1, <1>3, <1>5, <2>2
  <2>3. CASE j # i
    BY <1>5, <2>3 DEF TypeOK, LeadersElected
  <2> QED
    BY <2>1, <2>2, <2>3
<1> QED
  BY <1>4, <1>5

\* So are the probes of an elected leader.
LEMMA ProbesLead ==
  ASSUME NEW i \in Server, NEW term, Elected(i, term), NEW rounds
  PROVE  \A m \in Probes(i, term, rounds) :
           m.kind = "AppendEntries" /\ Elected(m.from, m.term)
BY DEF Probes, ReadProbe

-----------------------------------------------------------------------------
(* Steps in which nobody stands and nobody is elected.                     *)

\* What such a step does.
Quiet ==
  /\ \A j \in Server : VoteStep(j)
  /\ msgs \subseteq msgs'
  /\ NoCandidate
  /\ \A m \in msgs' : m \notin msgs =>
       \/ m.kind = "AppendEntries" /\ Elected(m.from, m.term)
       \/ m.kind = "AppendEntriesReply"
       \/ m.kind = "RequestVoteReply" /\ ~m.vote_granted
  /\ \A j \in Server :
       /\ leader_term'[j] # 0 => Elected(j, leader_term'[j])
       /\ \A p \in Server :
            peers'[j][p].pending # NoRequest => peers'[j][p].pending \in msgs'

\* Such a step keeps the invariant.
LEMMA QuietPreserves ==
  ASSUME TypeOK, TypeOK', ElectionInv, Quiet
  PROVE  ElectionInv'
<1> USE DEF ElectionInv
<1>1. NoVotes
  BY DEF Quiet, NoVotes
<1>2. LeadStep
  <2>1. \A j \in Server : role'[j] = "Candidate" =>
          \E m \in msgs' : /\ m.kind = "RequestVote" /\ m.from = j
                           /\ m.term = election_term'[j]
    BY CandidatesAsked DEF Quiet
  <2> QED
    BY <2>1 DEF Quiet, LeadStep
<1> QED
  BY <1>1, <1>2, NoVotesPreserve, LeadStepPreserves

\* The metadata stays.
LEMMA KeptVotes ==
  ASSUME TypeOK, UNCHANGED metadata
  PROVE  \A j \in Server : VoteStep(j)
BY DEF metadata, VoteStep

\* Following again makes no candidate.
LEMMA FollowerStands ==
  ASSUME TypeOK, NEW i \in Server, become_follower(i)
  PROVE  NoCandidate
BY DEF become_follower, NoCandidate, TypeOK

\* Nothing happens to the roles.
LEMMA KeptRoles ==
  ASSUME UNCHANGED election
  PROVE  NoCandidate
BY DEF election, NoCandidate

\* A leader that can act was elected in its term.
LEMMA ActiveElected ==
  ASSUME LeadersElected, NEW i \in Server, Active(i)
  PROVE  Elected(i, leader_term[i])
BY DEF LeadersElected, Active

\* A stopping node becomes no leader and sends nothing.
LEMMA StopQuiet ==
  ASSUME TypeOK, ElectionInv, NEW i \in Server, NEW error, stop(i, error),
         UNCHANGED msgs, NoCandidate, \A j \in Server : VoteStep(j)
  PROVE  Quiet
BY DropLeads DEF stop, Quiet, ElectionInv

\* Nor does one that only gives up its leadership.
LEMMA DropQuiet ==
  ASSUME TypeOK, ElectionInv, NEW i \in Server, NEW hint, drop_leadership(i, hint),
         UNCHANGED msgs, NoCandidate, \A j \in Server : VoteStep(j)
  PROVE  Quiet
BY DropLeads DEF Quiet, ElectionInv

\* An elected leader queues its requests.
LEMMA QueueQuiet ==
  ASSUME TypeOK, ElectionInv, NEW i \in Server, Active(i),
         NEW lg, NEW commit, NEW ps \in [Server -> PeerState], NEW S \in SUBSET Server,
         \A p \in Server : ps[p].pending # NoRequest => ps[p].pending \in msgs,
         peers' = [peers EXCEPT ![i] = Queued(i, leader_term[i], lg, commit, ps, S)],
         NEW rounds,
         \/ msgs' = msgs \cup Requests(peers'[i], S)
         \/ msgs' = msgs \cup Requests(peers'[i], S) \cup Probes(i, leader_term[i], rounds),
         UNCHANGED leader_term, UNCHANGED election, UNCHANGED metadata
  PROVE  Quiet
<1>1. Elected(i, leader_term[i])
  BY ActiveElected DEF ElectionInv
<1>2. msgs \subseteq msgs' /\ Requests(peers'[i], S) \subseteq msgs'
  OBVIOUS
<1>3. /\ \A m \in Requests(peers'[i], S) : m \notin msgs =>
           m.kind = "AppendEntries" /\ Elected(m.from, m.term)
      /\ \A j, p \in Server :
           peers'[j][p].pending # NoRequest => peers'[j][p].pending \in msgs'
  BY <1>1, <1>2, QueueLeads DEF ElectionInv
<1>4. \A m \in Probes(i, leader_term[i], rounds) :
        m.kind = "AppendEntries" /\ Elected(m.from, m.term)
  BY <1>1, ProbesLead
<1>5. NoCandidate /\ \A j \in Server : VoteStep(j)
  BY KeptRoles, KeptVotes
<1>6. \A j \in Server : leader_term'[j] # 0 => Elected(j, leader_term'[j])
  BY DEF ElectionInv, LeadersElected
<1> QED
  BY <1>2, <1>3, <1>4, <1>5, <1>6 DEF Quiet

-----------------------------------------------------------------------------
(* The actions, one after the other.                                       *)

\* election_term_exhausted: the node stops.
LEMMA ExhaustedQuiet ==
  ASSUME TypeOK, ElectionInv, NEW i \in Server, election_term_exhausted(i)
  PROVE  Quiet
<1>1. NoCandidate
  BY FollowerStands, KeptRoles DEF election_term_exhausted
<1>2. \A j \in Server : VoteStep(j)
  BY KeptVotes DEF election_term_exhausted, metadata
<1> QED
  BY <1>1, <1>2, StopQuiet DEF election_term_exhausted

\* on_heartbeat_timeout: requests and probes of an elected leader.
LEMMA HeartbeatQuiet ==
  ASSUME TypeOK, ElectionInv, NEW i \in Server, on_heartbeat_timeout(i)
  PROVE  Quiet
<1> DEFINE ok == CanQueue(log[i], commit_index[i], peers[i], Peers(i))
<1>1. UNCHANGED metadata /\ UNCHANGED election
  BY DEF on_heartbeat_timeout, metadata, election
<1>2. NoCandidate /\ \A j \in Server : VoteStep(j)
  BY <1>1, KeptRoles, KeptVotes
<1>3. CASE ~Active(i)
  BY <1>2, <1>3, DropQuiet DEF on_heartbeat_timeout
<1>4. CASE Active(i) /\ ~ok
  BY <1>2, <1>4, StopQuiet DEF on_heartbeat_timeout
<1>5. CASE Active(i) /\ ok
  <2>1. /\ peers' = [peers EXCEPT ![i] =
              Queued(i, leader_term[i], log[i], commit_index[i], peers[i], Peers(i))]
        /\ msgs' = msgs \cup Requests(peers'[i], Peers(i))
                        \cup Probes(i, leader_term[i], read_rounds[i])
        /\ UNCHANGED leader_term
    BY <1>5 DEF on_heartbeat_timeout
  <2>2. /\ peers[i] \in [Server -> PeerState] /\ Peers(i) \in SUBSET Server
        /\ \A p \in Server : peers[i][p].pending # NoRequest => peers[i][p].pending \in msgs
    BY DEF TypeOK, Peers, ElectionInv, LeadersElected
  <2> HIDE DEF ok
  <2> QED
    BY <1>1, <1>5, <2>1, <2>2, QueueQuiet
<1> QED
  BY <1>3, <1>4, <1>5

\* propose: requests of an elected leader.
LEMMA ProposeQuiet ==
  ASSUME TypeOK, ElectionInv, NEW i \in Server, NEW command, propose(i, command)
  PROVE  Quiet
<1> DEFINE grown == Append(log[i], [term |-> leader_term[i], command |-> command])
           full == last_index(log[i]) >= MaxIndex
           ok == CanQueue(grown, commit_index[i], peers[i], Peers(i))
<1>1. UNCHANGED metadata /\ UNCHANGED election /\ Active(i)
  BY DEF propose, metadata, election
<1>2. NoCandidate /\ \A j \in Server : VoteStep(j)
  BY <1>1, KeptRoles, KeptVotes
<1>3. CASE full \/ ~ok
  <2>1. stop(i, "InconsistentState") /\ UNCHANGED msgs
    BY <1>3 DEF propose
  <2> QED
    BY <1>2, <2>1, StopQuiet
<1>4. CASE ~full /\ ok
  <2>1. /\ peers' = [peers EXCEPT ![i] =
              Queued(i, leader_term[i], grown, commit_index[i], peers[i], Peers(i))]
        /\ msgs' = msgs \cup Requests(peers'[i], Peers(i))
        /\ UNCHANGED leader_term
    BY <1>4 DEF propose
  <2>2. /\ peers[i] \in [Server -> PeerState] /\ Peers(i) \in SUBSET Server
        /\ \A p \in Server : peers[i][p].pending # NoRequest => peers[i][p].pending \in msgs
    BY DEF TypeOK, Peers, ElectionInv, LeadersElected
  <2> HIDE DEF ok, full, grown
  <2> QED
    BY <1>1, <2>1, <2>2, QueueQuiet
<1> QED
  BY <1>3, <1>4

\* A leader that keeps its progress and sends nothing but probes.
LEMMA ProbeQuiet ==
  ASSUME TypeOK, ElectionInv, NEW i \in Server, NEW rounds,
         \/ UNCHANGED msgs
         \/ Active(i) /\ msgs' = msgs \cup Probes(i, leader_term[i], rounds),
         UNCHANGED <<leader_term, peers>>, UNCHANGED election, UNCHANGED metadata
  PROVE  Quiet
<1>1. NoCandidate /\ \A j \in Server : VoteStep(j)
  BY KeptRoles, KeptVotes
<1>2. msgs \subseteq msgs'
  OBVIOUS
<1>3. \A j \in Server :
        /\ leader_term'[j] # 0 => Elected(j, leader_term'[j])
        /\ \A p \in Server :
             peers'[j][p].pending # NoRequest => peers'[j][p].pending \in msgs'
  BY <1>2, KeepLeads DEF ElectionInv
<1>4. \A m \in msgs' : m \notin msgs => m.kind = "AppendEntries" /\ Elected(m.from, m.term)
  BY ProbesLead, ActiveElected DEF ElectionInv
<1> QED
  BY <1>1, <1>2, <1>3, <1>4 DEF Quiet

\* read_barrier: at most probes.
LEMMA ReadBarrierQuiet ==
  ASSUME TypeOK, ElectionInv, NEW i \in Server, read_barrier(i)
  PROVE  Quiet
<1>1. UNCHANGED metadata /\ UNCHANGED election /\ Active(i)
  BY DEF read_barrier, metadata, election
<1>2. CASE next_read_id[i] = 0
  BY <1>1, <1>2, StopQuiet, KeptRoles, KeptVotes DEF read_barrier
<1>3. CASE next_read_id[i] # 0
  <2>1. /\ UNCHANGED <<leader_term, peers>>
        /\ \/ UNCHANGED msgs
           \/ \E rounds : msgs' = msgs \cup Probes(i, leader_term[i], rounds)
    BY <1>3 DEF read_barrier
  <2> QED
    BY <1>1, <2>1, ProbeQuiet
<1> QED
  BY <1>2, <1>3

\* vote_reply_steps_down and vote_reply_recorded: a candidate gives up or counts.
LEMMA VoteReplyQuiet ==
  ASSUME TypeOK, ElectionInv, NEW m \in msgs,
         vote_reply_steps_down(m.to, m) \/ vote_reply_recorded(m.to, m)
  PROVE  Quiet
<1>1. m.to \in Server /\ m.term \in Term
  BY MessageKinds DEF TypeOK
<1>2. CASE vote_reply_steps_down(m.to, m)
  <2>1. NoCandidate
    BY <1>1, <1>2, FollowerStands DEF vote_reply_steps_down
  <2>2. \A j \in Server : VoteStep(j)
    BY <1>1, <1>2, KeptVotes, AdvanceIsVoteStep DEF vote_reply_steps_down
  <2> QED
    BY <1>1, <1>2, <2>1, <2>2, DropQuiet DEF vote_reply_steps_down
<1>3. CASE vote_reply_recorded(m.to, m)
  <2>1. /\ NoCandidate /\ UNCHANGED metadata /\ UNCHANGED <<leader_term, peers>>
        /\ UNCHANGED msgs
    BY <1>3 DEF vote_reply_recorded, NoCandidate, metadata, leader
  <2> QED
    BY <2>1, KeptVotes, KeepLeads DEF Quiet, ElectionInv
<1> QED
  BY <1>2, <1>3

\* The node answers a request for entries.
LEMMA AnswerQuiet ==
  ASSUME TypeOK, ElectionInv, NEW i \in Server, NEW m, NEW term, NEW success,
         msgs' = msgs \cup {AppendReply(i, m, term, success)},
         NoCandidate, \A j \in Server : VoteStep(j),
         \/ UNCHANGED <<leader_term, peers>>
         \/ \E hint : drop_leadership(i, hint)
  PROVE  Quiet
<1>1. msgs \subseteq msgs'
  OBVIOUS
<1>2. \A n \in msgs' : n \notin msgs => n.kind = "AppendEntriesReply"
  BY DEF AppendReply
<1>3. \A j \in Server :
        /\ leader_term'[j] # 0 => Elected(j, leader_term'[j])
        /\ \A p \in Server :
             peers'[j][p].pending # NoRequest => peers'[j][p].pending \in msgs'
  BY <1>1, KeepLeads, DropLeads DEF ElectionInv
<1> QED
  BY <1>1, <1>2, <1>3 DEF Quiet

\* append_entries_stale: a refusal and nothing else.
LEMMA StaleQuiet ==
  ASSUME TypeOK, ElectionInv, NEW m \in msgs, append_entries_stale(m.to, m)
  PROVE  Quiet
<1>1. m.to \in Server
  BY MessageKinds DEF TypeOK
<1>2. /\ msgs' = msgs \cup {AppendReply(m.to, m, current_term[m.to], FALSE)}
      /\ UNCHANGED metadata /\ UNCHANGED election /\ UNCHANGED <<leader_term, peers>>
  BY DEF append_entries_stale, metadata, election, leader
<1> QED
  BY <1>1, <1>2, KeptRoles, KeptVotes, AnswerQuiet

\* append_entries_rejected: the term may rise, the leadership may go.
LEMMA RejectedQuiet ==
  ASSUME TypeOK, ElectionInv, NEW m \in msgs, append_entries_rejected(m.to, m)
  PROVE  Quiet
<1> DEFINE i == m.to
<1>1. i \in Server /\ m.term \in Term
  BY MessageKinds DEF TypeOK
<1>2. \A j \in Server : VoteStep(j)
  BY <1>1, AdvanceIsVoteStep DEF append_entries_rejected
<1>3. CASE InvalidRequest(i, m)
  <2>1. NoCandidate /\ UNCHANGED msgs
    BY <1>3, KeptRoles DEF append_entries_rejected
  <2>2. CASE m.term > current_term[i]
    BY <1>1, <1>2, <1>3, <2>1, <2>2, DropQuiet DEF append_entries_rejected
  <2>3. CASE ~(m.term > current_term[i])
    <3>1. UNCHANGED <<leader_term, peers>>
      BY <1>3, <2>3 DEF append_entries_rejected, leader
    <3> QED
      BY <1>2, <2>1, <3>1, KeepLeads DEF Quiet, ElectionInv
  <2> QED
    BY <2>2, <2>3
<1>4. CASE ~InvalidRequest(i, m)
  <2>1. /\ become_follower(i) /\ drop_leadership(i, m.from)
        /\ msgs' = msgs \cup {AppendReply(i, m, m.term, FALSE)}
    BY <1>4 DEF append_entries_rejected
  <2> QED
    BY <1>1, <1>2, <2>1, FollowerStands, AnswerQuiet
<1> QED
  BY <1>3, <1>4

\* append_entries_accepted: the same with a success, or the node stops.
LEMMA AcceptedQuiet ==
  ASSUME TypeOK, ElectionInv, NEW m \in msgs, append_entries_accepted(m.to, m)
  PROVE  Quiet
<1> DEFINE i == m.to
           conflict == CommittedConflict(log[i], commit_index[i], m)
           applies == CanApply(log'[i], applied[i], commit_index'[i])
<1>1. i \in Server /\ m.term \in Term
  BY MessageKinds DEF TypeOK
<1>2. \A j \in Server : VoteStep(j)
  BY <1>1, AdvanceIsVoteStep DEF append_entries_accepted
<1>3. CASE conflict
  <2>1. stop(i, "InconsistentState") /\ UNCHANGED election /\ UNCHANGED msgs
    BY <1>3 DEF append_entries_accepted, election
  <2> QED
    BY <1>1, <1>2, <2>1, KeptRoles, StopQuiet
<1>4. CASE ~conflict /\ ~applies
  <2>1. stop(i, "InconsistentState") /\ become_follower(i) /\ UNCHANGED msgs
    BY <1>4 DEF append_entries_accepted
  <2> QED
    BY <1>1, <1>2, <2>1, FollowerStands, StopQuiet
<1>5. CASE ~conflict /\ applies
  <2>1. /\ become_follower(i) /\ drop_leadership(i, m.from)
        /\ msgs' = msgs \cup {AppendReply(i, m, m.term, TRUE)}
    BY <1>5 DEF append_entries_accepted
  <2> QED
    BY <1>1, <1>2, <2>1, FollowerStands, AnswerQuiet
<1> QED
  BY <1>3, <1>4, <1>5

\* append_reply_steps_down: the leadership goes with the term.
LEMMA AppendReplyStepsDownQuiet ==
  ASSUME TypeOK, ElectionInv, NEW m \in msgs, append_reply_steps_down(m.to, m)
  PROVE  Quiet
<1>1. m.to \in Server /\ m.term \in Term
  BY MessageKinds DEF TypeOK
<1>2. NoCandidate
  BY KeptRoles DEF append_reply_steps_down, election
<1>3. \A j \in Server : VoteStep(j)
  BY <1>1, AdvanceIsVoteStep DEF append_reply_steps_down
<1> QED
  BY <1>1, <1>2, <1>3, DropQuiet DEF append_reply_steps_down

\* append_reply_ready_read: a read round is closed, or the node stops.
LEMMA ReadyReadQuiet ==
  ASSUME TypeOK, ElectionInv, NEW m \in msgs, append_reply_ready_read(m.to, m)
  PROVE  Quiet
<1>1. m.to \in Server
  BY MessageKinds DEF TypeOK
<1>2. UNCHANGED metadata /\ UNCHANGED election /\ UNCHANGED msgs
  BY DEF append_reply_ready_read, metadata, election
<1>3. stop(m.to, "InconsistentState") \/ UNCHANGED <<leader_term, peers>>
  BY DEF append_reply_ready_read
<1> QED
  BY <1>1, <1>2, <1>3, KeptRoles, KeptVotes, StopQuiet, ProbeQuiet

\* Restart: nobody leads or stands after it.
LEMMA RestartQuiet ==
  ASSUME TypeOK, ElectionInv, NEW i \in Server, Restart(i)
  PROVE  Quiet
BY FollowerStands, KeptVotes, DropQuiet DEF Restart, metadata

\* append_reply_failed: one request of an elected leader, or the node stops.
LEMMA AppendReplyFailedQuiet ==
  ASSUME TypeOK, ElectionInv, NEW m \in msgs, append_reply_failed(m.to, m)
  PROVE  Quiet
<1> DEFINE i == m.to
           p == m.from
           moved == [peers[i] EXCEPT ![p].next_index = @ - 1, ![p].pending = NoRequest]
           stuck == \/ peers[i][p].next_index <= peers[i][p].match_index + 1
                    \/ ~CanQueue(log[i], commit_index[i], moved, {p})
<1>1. i \in Server /\ p \in Server
  BY MessageKinds DEF TypeOK
<1>2. UNCHANGED metadata /\ UNCHANGED election /\ Active(i)
  BY DEF append_reply_failed, metadata, election, Answers
<1>3. CASE stuck
  <2>1. stop(i, "InconsistentState") /\ UNCHANGED msgs
    BY <1>3 DEF append_reply_failed
  <2> QED
    BY <1>1, <1>2, <2>1, KeptRoles, KeptVotes, StopQuiet
<1>4. CASE ~stuck
  <2>1. /\ peers' = [peers EXCEPT ![i] =
              Queued(i, leader_term[i], log[i], commit_index[i], moved, {p})]
        /\ msgs' = msgs \cup Requests(peers'[i], {p})
        /\ UNCHANGED leader_term
    BY <1>4 DEF append_reply_failed
  <2>2. /\ peers[i] \in [Server -> PeerState] /\ peers[i][p] \in PeerState
        /\ peers[i][p].next_index \in Nat /\ peers[i][p].match_index \in Nat
    BY <1>1, PeerType
  <2>3. peers[i][p].next_index - 1 \in Nat
    BY <1>4, <2>2
  <2>4. moved \in [Server -> PeerState] /\ {p} \in SUBSET Server
    BY <1>1, <2>2, <2>3, MovedType
  <2>5. \A q \in Server : moved[q].pending # NoRequest => moved[q].pending \in msgs
    <3>1. \A q \in Server : q # p => moved[q] = peers[i][q]
      BY <2>2
    <3>2. moved[p].pending = NoRequest
      BY <1>1, <2>2 DEF PeerState
    <3> HIDE DEF moved
    <3> QED
      BY <1>1, <3>1, <3>2 DEF ElectionInv, LeadersElected
  <2> HIDE DEF moved, stuck
  <2> QED
    BY <1>1, <1>2, <2>1, <2>4, <2>5, QueueQuiet
<1> QED
  BY <1>3, <1>4

\* What is outstanding once a success is recorded was sent.
LEMMA AcknowledgedSent ==
  ASSUME TypeOK, LeadersElected, NEW m \in msgs
  PROVE  \A q \in Server : Acknowledged(m.to, m)[q].pending # NoRequest =>
           Acknowledged(m.to, m)[q].pending \in msgs
<1>1. m.to \in Server /\ m.from \in Server
  BY MessageKinds DEF TypeOK
<1>2. peers[m.to] \in [Server -> PeerState]
  BY <1>1 DEF TypeOK
<1>3. \A q \in Server : q # m.from => Acknowledged(m.to, m)[q] = peers[m.to][q]
  BY <1>1, <1>2 DEF Acknowledged
<1>4. Acknowledged(m.to, m)[m.from].pending = NoRequest
  BY <1>1, <1>2 DEF Acknowledged
<1> QED
  BY <1>1, <1>3, <1>4 DEF LeadersElected

\* append_reply_recorded: at most one request of an elected leader.
LEMMA AppendReplyRecordedQuiet ==
  ASSUME TypeOK, ElectionInv, NEW m \in msgs, append_reply_recorded(m.to, m)
  PROVE  Quiet
<1> DEFINE i == m.to
           p == m.from
           acked == Acknowledged(i, m)
           done == acked[p].next_index > last_index(log[i])
           ok == CanQueue(log[i], commit_index[i], acked, {p})
<1>1. i \in Server /\ p \in Server /\ {p} \in SUBSET Server
  BY MessageKinds DEF TypeOK
<1>2. UNCHANGED metadata /\ UNCHANGED election /\ Active(i)
  BY DEF append_reply_recorded, metadata, election, Answers
<1>3. acked \in [Server -> PeerState]
  BY AcknowledgedType DEF append_reply_recorded
<1>4. \A q \in Server : acked[q].pending # NoRequest => acked[q].pending \in msgs
  BY AcknowledgedSent DEF ElectionInv
<1>5. CASE done
  <2>1. /\ peers' = [peers EXCEPT ![i] = acked] /\ UNCHANGED leader_term
        /\ UNCHANGED msgs
    BY <1>5 DEF append_reply_recorded
  <2>2. \A j, q \in Server :
          peers'[j][q].pending # NoRequest => peers'[j][q].pending \in msgs'
    <3> SUFFICES ASSUME NEW j \in Server, NEW q \in Server, peers'[j][q].pending # NoRequest
                 PROVE  peers'[j][q].pending \in msgs'
      OBVIOUS
    <3> HIDE DEF acked, done
    <3>1. CASE j = i
      BY <1>1, <1>4, <2>1, <3>1 DEF TypeOK
    <3>2. CASE j # i
      BY <1>1, <2>1, <3>2 DEF TypeOK, ElectionInv, LeadersElected
    <3> QED
      BY <3>1, <3>2
  <2>3. NoCandidate /\ \A j \in Server : VoteStep(j)
    BY <1>2, KeptRoles, KeptVotes
  <2>4. \A j \in Server : leader_term'[j] # 0 => Elected(j, leader_term'[j])
    BY <2>1 DEF ElectionInv, LeadersElected
  <2> QED
    BY <2>1, <2>2, <2>3, <2>4 DEF Quiet
<1>6. CASE ~done /\ ~ok
  <2>1. stop(i, "InconsistentState") /\ UNCHANGED msgs
    BY <1>6 DEF append_reply_recorded
  <2> QED
    BY <1>1, <1>2, <2>1, KeptRoles, KeptVotes, StopQuiet
<1>7. CASE ~done /\ ok
  <2>1. /\ peers' = [peers EXCEPT ![i] =
              Queued(i, leader_term[i], log[i], commit_index[i], acked, {p})]
        /\ msgs' = msgs \cup Requests(peers'[i], {p})
        /\ UNCHANGED leader_term
    BY <1>7 DEF append_reply_recorded
  <2> HIDE DEF acked, done, ok
  <2> QED
    BY <1>1, <1>2, <1>3, <1>4, <2>1, QueueQuiet
<1> QED
  BY <1>5, <1>6, <1>7

\* append_reply_committed: requests and probes of an elected leader.
LEMMA AppendReplyCommittedQuiet ==
  ASSUME TypeOK, ElectionInv, NEW m \in msgs, append_reply_committed(m.to, m)
  PROVE  Quiet
<1> DEFINE i == m.to
           acked == Acknowledged(i, m)
<1>1. i \in Server /\ Peers(i) \in SUBSET Server
  BY MessageKinds DEF TypeOK, Peers
<1>2. UNCHANGED metadata /\ UNCHANGED election /\ Active(i)
  BY DEF append_reply_committed, metadata, election, Answers
<1>3. acked \in [Server -> PeerState]
  BY AcknowledgedType DEF append_reply_committed
<1>4. \A q \in Server : acked[q].pending # NoRequest => acked[q].pending \in msgs
  BY AcknowledgedSent DEF ElectionInv
<1>5. PICK commit \in NewCommits(i, m) :
        \/ stop(i, "InconsistentState") /\ UNCHANGED msgs
        \/ /\ peers' = [peers EXCEPT ![i] =
                 Queued(i, leader_term[i], log[i], commit, acked, Peers(i))]
           /\ \/ msgs' = msgs \cup Requests(peers'[i], Peers(i))
                            \cup Probes(i, leader_term[i], NewlyStarted(read_rounds[i], commit))
              \/ msgs' = msgs \cup Requests(peers'[i], Peers(i))
           /\ UNCHANGED leader_term
  BY DEF append_reply_committed
<1> HIDE DEF acked
<1>6. CASE stop(i, "InconsistentState") /\ UNCHANGED msgs
  BY <1>1, <1>2, <1>6, KeptRoles, KeptVotes, StopQuiet
<1>7. CASE ~(stop(i, "InconsistentState") /\ UNCHANGED msgs)
  BY <1>1, <1>2, <1>3, <1>4, <1>5, <1>7, QueueQuiet
<1> QED
  BY <1>6, <1>7

\* A failed write leaves the old vote, a vote where there was none, or a later
\* term behind.
LEMMA WriteFailsQuiet ==
  ASSUME TypeOK, ElectionInv, NEW i \in Server, NEW term \in Term, NEW vote, NEW lg,
         WriteFails(i, term, vote, lg),
         \/ term > current_term[i]
         \/ term = current_term[i] /\ (vote = voted_for[i] \/ voted_for[i] = Nobody)
  PROVE  Quiet
<1>1. NoCandidate
  BY KeptRoles DEF WriteFails, election
<1>2. \A j \in Server : VoteStep(j)
  BY DEF WriteFails, VoteStep, TypeOK, Term
<1> QED
  BY <1>1, <1>2, StopQuiet DEF WriteFails

\* The failures are such writes.
LEMMA FailureQuiet ==
  ASSUME TypeOK, ElectionInv, NEW i \in Server, Failure(i)
  PROVE  Quiet
<1>1. current_term[i] \in Term /\ current_term[i] \in Nat
  BY DEF TypeOK, Term
<1>2. CASE election_write_fails(i)
  <2>1. current_term[i] + 1 \in Term /\ current_term[i] + 1 > current_term[i]
    BY <1>1, <1>2, BoundAssumption DEF election_write_fails, CanCampaign, Term
  <2> QED
    BY <1>1, <1>2, <2>1, WriteFailsQuiet DEF election_write_fails
<1>3. ASSUME NEW command \in Command, proposal_write_fails(i, command) PROVE Quiet
  BY <1>1, <1>3, WriteFailsQuiet DEF proposal_write_fails
<1>4. ASSUME NEW m \in msgs, m.to = i, term_write_fails(i, m) PROVE Quiet
  <2>1. m.term \in Term
    BY MessageKinds DEF TypeOK
  <2> QED
    BY <1>1, <1>4, <2>1, WriteFailsQuiet DEF term_write_fails
<1>5. ASSUME NEW m \in msgs, m.to = i, vote_write_fails(i, m) PROVE Quiet
  <2>1. m.term \in Term /\ m.term \in Nat
    BY MessageKinds DEF TypeOK, Term
  <2>2. \/ m.term > current_term[i]
        \/ m.term = current_term[i] /\ (m.from = voted_for[i] \/ voted_for[i] = Nobody)
    BY <1>1, <1>5, <2>1 DEF vote_write_fails, Grants
  <2> QED
    BY <1>5, <2>1, <2>2, WriteFailsQuiet DEF vote_write_fails
<1>6. ASSUME NEW m \in msgs, m.to = i, append_write_fails(i, m) PROVE Quiet
  <2>1. m.term \in Term /\ m.term \in Nat
    BY MessageKinds DEF TypeOK, Term
  <2>2. PICK lg \in PartialLogs(log[i], m) :
          WriteFails(i, m.term,
                     IF m.term > current_term[i] THEN Nobody ELSE voted_for[i], lg)
    BY <1>6 DEF append_write_fails
  <2>3. m.term >= current_term[i]
    BY <1>6 DEF append_write_fails
  <2>4. \/ m.term > current_term[i]
        \/ /\ m.term = current_term[i]
           /\ (IF m.term > current_term[i] THEN Nobody ELSE voted_for[i]) = voted_for[i]
    BY <1>1, <2>1, <2>3
  <2> QED
    BY <2>1, <2>2, <2>4, WriteFailsQuiet
<1>7. ASSUME NEW m \in msgs, m.to = i, noop_write_fails(i, m) PROVE Quiet
  BY <1>1, <1>7, WriteFailsQuiet DEF noop_write_fails
<1> QED
  BY <1>2, <1>3, <1>4, <1>5, <1>6, <1>7 DEF Failure

\* vote_reply_becomes_leader: the reply itself and the candidacy elect the node.
LEMMA BecomesLeaderQuiet ==
  ASSUME TypeOK, ElectionInv, NEW m \in msgs, vote_reply_becomes_leader(m.to, m)
  PROVE  Quiet
<1> DEFINE i == m.to
           made == [p \in Server |-> [NoProgress EXCEPT !.next_index = last_index(log[i]) + 1]]
<1>1. i \in Server /\ Peers(i) \in SUBSET Server
  BY MessageKinds DEF TypeOK, Peers
<1>2. UNCHANGED metadata /\ \A j \in Server : VoteStep(j)
  BY KeptVotes DEF vote_reply_becomes_leader, metadata
<1>3. NoCandidate
  BY <1>1 DEF vote_reply_becomes_leader, NoCandidate, TypeOK
<1>4. CASE CannotLead(i)
  <2>1. stop(i, "InconsistentState") /\ UNCHANGED msgs
    BY <1>4 DEF vote_reply_becomes_leader
  <2> QED
    BY <1>1, <1>2, <1>3, <2>1, StopQuiet
<1>5. CASE ~CannotLead(i)
  <2>1. /\ leader_term' = [leader_term EXCEPT ![i] = current_term[i]]
        /\ peers' = [peers EXCEPT ![i] =
              Queued(i, current_term[i], log'[i], commit_index[i], made, Peers(i))]
        /\ msgs' = msgs \cup Requests(peers'[i], Peers(i))
    BY <1>5 DEF vote_reply_becomes_leader
  <2>2. Elected(i, current_term[i])
    <3>1. /\ role[i] = "Candidate" /\ election_term[i] = current_term[i]
          /\ m.kind = "RequestVoteReply" /\ m.vote_granted /\ m.term = current_term[i]
      BY DEF vote_reply_becomes_leader, WinsElection, FreshVoteReply, Role
    <3>2. PICK n \in msgs : n.kind = "RequestVote" /\ n.from = i /\ n.term = current_term[i]
      BY <1>1, <3>1 DEF ElectionInv, LeadersElected
    <3> QED
      BY <3>1, <3>2 DEF Elected
  <2>3. made \in [Server -> PeerState] /\ \A p \in Server : made[p].pending = NoRequest
    <3>1. last_index(log[i]) + 1 \in Nat
      BY <1>1, LenProperties DEF TypeOK, last_index
    <3> QED
      BY <3>1 DEF NoProgress, PeerState
  <2> HIDE DEF made
  <2>4. /\ \A n \in Requests(peers'[i], Peers(i)) : n \notin msgs =>
             n.kind = "AppendEntries" /\ Elected(n.from, n.term)
        /\ \A j, p \in Server :
             peers'[j][p].pending # NoRequest => peers'[j][p].pending \in msgs'
    BY <1>1, <2>1, <2>2, <2>3, QueueLeads DEF ElectionInv
  <2>5. \A j \in Server : leader_term'[j] # 0 => Elected(j, leader_term'[j])
    BY <1>1, <2>1, <2>2 DEF TypeOK, ElectionInv, LeadersElected
  <2> QED
    BY <1>2, <1>3, <2>1, <2>4, <2>5 DEF Quiet
<1> QED
  BY <1>4, <1>5

\* on_election_timeout: the new candidacy is in a term the node never voted in.
LEMMA TimeoutElection ==
  ASSUME TypeOK, TypeOK', ElectionInv, NEW i \in Server, on_election_timeout(i)
  PROVE  ElectionInv'
<1> DEFINE term == current_term[i] + 1
<1>1. /\ current_term[i] \in Nat /\ term > current_term[i]
      /\ current_term' = [current_term EXCEPT ![i] = term]
      /\ voted_for' = [voted_for EXCEPT ![i] = i]
      /\ role' = [role EXCEPT ![i] = "Candidate"]
      /\ election_term' = [election_term EXCEPT ![i] = term]
      /\ drop_leadership(i, Nobody)
  BY DEF on_election_timeout, TypeOK, Term
<1>2. /\ msgs \subseteq msgs'
      /\ \A m \in msgs' : m \notin msgs =>
           m.kind = "RequestVote" /\ m.from = i /\ m.to # i /\ m.term = term
      /\ \E m \in msgs' : m.kind = "RequestVote" /\ m.from = i /\ m.term = term
  <2>1. PICK p \in Server : p # i
    BY ServerAssumption
  <2> DEFINE ask(q) == [kind |-> "RequestVote", from |-> i, to |-> q, term |-> term,
                        last_log_index |-> last_index(log[i]),
                        last_log_term |-> last_term(log[i])]
  <2>2. msgs' = msgs \cup {ask(q) : q \in Peers(i)}
    BY DEF on_election_timeout
  <2>3. ask(p) \in msgs' /\ ask(p).kind = "RequestVote" /\ ask(p).from = i /\ ask(p).term = term
    BY <2>1, <2>2 DEF Peers
  <2>4. \A q : /\ ask(q).kind = "RequestVote" /\ ask(q).from = i /\ ask(q).to = q
               /\ ask(q).term = term
    OBVIOUS
  <2> HIDE DEF ask
  <2>5. \A m \in msgs' : m \notin msgs =>
          m.kind = "RequestVote" /\ m.from = i /\ m.to # i /\ m.term = term
    BY <2>2, <2>4 DEF Peers
  <2> QED
    BY <2>2, <2>3, <2>5
<1>3. \A j \in Server : VoteStep(j)
  BY <1>1 DEF VoteStep, TypeOK
<1> HIDE DEF term
<1>4. VotesBacked'
  <2> SUFFICES ASSUME NEW m \in msgs'
               PROVE  /\ m.kind = "RequestVote" =>
                           m.from # m.to /\ VoteStands(m.from, m.term, m.from)'
                      /\ m.kind = "RequestVoteReply" /\ m.vote_granted =>
                           m.from # m.to /\ VoteStands(m.from, m.term, m.to)'
    BY DEF VotesBacked
  <2>1. m.from \in Server /\ m.to \in Server /\ m.term \in Term
    BY MessageKinds DEF TypeOK
  <2>2. CASE m \in msgs
    BY <1>3, <2>1, <2>2, StandsForGood DEF ElectionInv, VotesBacked
  <2>3. CASE m \notin msgs
    <3>1. m.kind = "RequestVote" /\ m.from = i /\ m.to # i /\ m.term = term
      BY <1>2, <2>3
    <3>2. current_term'[i] = term /\ voted_for'[i] = i
      BY <1>1 DEF TypeOK
    <3> QED
      BY <3>1, <3>2 DEF VoteStands
  <2> QED
    BY <2>2, <2>3
<1>5. VotesUnique'
  <2> SUFFICES ASSUME NEW m \in msgs', NEW n \in msgs', m.kind = "RequestVoteReply",
                      m.vote_granted, m.from = n.from, m.term = n.term
               PROVE  /\ n.kind # "RequestVote"
                      /\ n.kind = "RequestVoteReply" /\ n.vote_granted => m.to = n.to
    BY DEF VotesUnique
  <2>1. m \in msgs
    BY <1>2
  <2>2. CASE n \in msgs
    BY <2>1, <2>2 DEF ElectionInv, VotesUnique
  <2>3. CASE n \notin msgs
    <3>1. m.from = i /\ m.term = term
      BY <1>2, <2>3
    <3>2. VoteStands(i, term, m.to)
      BY <2>1, <3>1 DEF ElectionInv, VotesBacked
    <3> QED
      BY <1>1, <3>2 DEF VoteStands, term
  <2> QED
    BY <2>2, <2>3
<1>6. LeadStep
  <2>1. \A j \in Server :
          /\ leader_term'[j] # 0 => Elected(j, leader_term'[j])
          /\ \A p \in Server :
               peers'[j][p].pending # NoRequest => peers'[j][p].pending \in msgs'
    BY <1>1, <1>2, DropLeads DEF ElectionInv
  <2>2. \A j \in Server : role'[j] = "Candidate" =>
          \E m \in msgs' : m.kind = "RequestVote" /\ m.from = j /\ m.term = election_term'[j]
    <3>1. election_term'[i] = term
      BY <1>1 DEF TypeOK
    <3>2. \A j \in Server : j # i =>
            role'[j] = role[j] /\ election_term'[j] = election_term[j]
      BY <1>1 DEF TypeOK
    <3> QED
      BY <1>2, <3>1, <3>2 DEF ElectionInv, LeadersElected
  <2> QED
    BY <1>2, <2>1, <2>2 DEF LeadStep
<1> QED
  BY <1>4, <1>5, <1>6, LeadStepPreserves DEF ElectionInv

\* on_request_vote: a granted vote agrees with every vote given in its term.
LEMMA RequestVoteElection ==
  ASSUME TypeOK, TypeOK', ElectionInv, NEW m \in msgs, on_request_vote(m.to, m)
  PROVE  ElectionInv'
<1> DEFINE i == m.to
           c == m.from
           reply == [kind |-> "RequestVoteReply", from |-> i, to |-> c,
                     term |-> current_term'[i], vote_granted |-> Grants(i, m)]
<1>1. /\ i \in Server /\ c \in Server /\ m.term \in Nat /\ current_term[i] \in Nat
      /\ m.kind = "RequestVote"
  <2>1. i \in Server /\ c \in Server /\ m.term \in Term
    BY MessageKinds DEF TypeOK
  <2>2. current_term[i] \in Term
    BY <2>1 DEF TypeOK
  <2>3. m.kind = "RequestVote"
    BY Zenon DEF on_request_vote, ToVote
  <2> QED
    BY <2>1, <2>2, <2>3 DEF Term
<1>2. /\ current_term' = [current_term EXCEPT ![i] = IF m.term > @ THEN m.term ELSE @]
      /\ voted_for' = [voted_for EXCEPT ![i] =
           IF Grants(i, m) THEN c
           ELSE IF m.term > current_term[i] THEN Nobody ELSE @]
      /\ msgs' = msgs \cup {reply}
      /\ UNCHANGED election
  <2>1. UNCHANGED election
    BY DEF on_request_vote, election
  <2>2. msgs' = msgs \cup {reply}
    BY Zenon DEF on_request_vote
  <2>3. current_term' = [current_term EXCEPT ![i] = IF m.term > @ THEN m.term ELSE @]
    BY DEF on_request_vote
  <2>4. voted_for' = [voted_for EXCEPT ![i] =
           IF Grants(i, m) THEN c
           ELSE IF m.term > current_term[i] THEN Nobody ELSE @]
    BY DEF on_request_vote
  <2> QED
    BY <2>1, <2>2, <2>3, <2>4
<1>3. \/ drop_leadership(i, Nobody)
      \/ UNCHANGED <<leader_term, peers>>
  BY DEF on_request_vote, leader
<1>4. \A j \in Server : VoteStep(j)
  <2>1. \A j \in Server : j # i =>
          current_term'[j] = current_term[j] /\ voted_for'[j] = voted_for[j]
    BY <1>2 DEF TypeOK
  <2>2. /\ current_term'[i] = IF m.term > current_term[i] THEN m.term ELSE current_term[i]
        /\ voted_for'[i] = IF Grants(i, m) THEN c
             ELSE IF m.term > current_term[i] THEN Nobody ELSE voted_for[i]
    BY <1>1, <1>2 DEF TypeOK
  <2>3. Grants(i, m) /\ m.term = current_term[i] => voted_for[i] \in {Nobody, c}
    BY DEF Grants
  <2>4. Grants(i, m) => m.term >= current_term[i]
    BY DEF Grants
  <2> QED
    BY <1>1, <2>1, <2>2, <2>3, <2>4 DEF VoteStep
<1>5. \A j \in Server :
        /\ leader_term'[j] # 0 => Elected(j, leader_term'[j])
        /\ \A p \in Server :
             peers'[j][p].pending # NoRequest => peers'[j][p].pending \in msgs'
  BY <1>1, <1>2, <1>3, DropLeads, KeepLeads DEF ElectionInv
<1>6. NoCandidate
  BY <1>2, KeptRoles
<1>7. CASE ~Grants(i, m)
  <2>1. Quiet
    BY <1>2, <1>4, <1>5, <1>6, <1>7 DEF Quiet
  <2> QED
    BY <2>1, QuietPreserves
<1>8. CASE Grants(i, m)
  <2>1. /\ current_term'[i] = m.term /\ voted_for'[i] = c /\ m.term >= current_term[i]
        /\ m.term = current_term[i] => voted_for[i] \in {Nobody, c}
    <3>1. voted_for'[i] = c
      BY <1>1, <1>2, <1>8 DEF TypeOK
    <3>2. current_term'[i] = IF m.term > current_term[i] THEN m.term ELSE current_term[i]
      BY <1>1, <1>2 DEF TypeOK
    <3>3. /\ m.term >= current_term[i]
          /\ m.term = current_term[i] => voted_for[i] \in {Nobody, c}
      BY <1>8 DEF Grants
    <3> QED
      BY <1>1, <3>1, <3>2, <3>3
  <2>2. c # i
    BY <1>1 DEF ElectionInv, VotesBacked
  <2>3. /\ reply.kind = "RequestVoteReply" /\ reply.vote_granted /\ reply.from = i
        /\ reply.to = c /\ reply.term = m.term
    BY <1>8, <2>1
  <2> HIDE DEF reply
  \* The voter had not voted in this term, or for this candidate.
  <2>4. ASSUME NEW d \in Server, VoteStands(i, m.term, d) PROVE d = c
    BY <1>1, <2>1, <2>4, ServerAssumption DEF VoteStands
  <2>5. VotesBacked'
    <3> SUFFICES ASSUME NEW n \in msgs'
                 PROVE  /\ n.kind = "RequestVote" =>
                             n.from # n.to /\ VoteStands(n.from, n.term, n.from)'
                        /\ n.kind = "RequestVoteReply" /\ n.vote_granted =>
                             n.from # n.to /\ VoteStands(n.from, n.term, n.to)'
      BY DEF VotesBacked
    <3>1. n.from \in Server /\ n.to \in Server /\ n.term \in Term
      BY MessageKinds DEF TypeOK
    <3>2. CASE n \in msgs
      BY <1>4, <3>1, <3>2, StandsForGood DEF ElectionInv, VotesBacked
    <3>3. CASE n = reply
      BY <2>1, <2>2, <2>3, <3>3 DEF VoteStands
    <3> QED
      BY <1>2, <3>2, <3>3
  <2>6. VotesUnique'
    <3> SUFFICES ASSUME NEW n \in msgs', NEW o \in msgs', n.kind = "RequestVoteReply",
                        n.vote_granted, n.from = o.from, n.term = o.term
                 PROVE  /\ o.kind # "RequestVote"
                        /\ o.kind = "RequestVoteReply" /\ o.vote_granted => n.to = o.to
      BY DEF VotesUnique
    <3>1. n.to \in Server /\ o.to \in Server /\ o.from \in Server
      BY MessageKinds DEF TypeOK
    <3>2. CASE n \in msgs /\ o \in msgs
      BY <3>2 DEF ElectionInv, VotesUnique
    <3>3. CASE n = reply /\ o = reply
      BY <2>3, <3>3
    <3>4. CASE n = reply /\ o \in msgs
      <4>1. ~(o.kind = "RequestVote")
        BY <2>2, <2>3, <2>4, <3>1, <3>4 DEF ElectionInv, VotesBacked
      <4>2. o.kind = "RequestVoteReply" /\ o.vote_granted => o.to = c
        BY <2>3, <2>4, <3>1, <3>4 DEF ElectionInv, VotesBacked
      <4> QED
        BY <2>3, <3>4, <4>1, <4>2
    <3>5. CASE n \in msgs /\ o = reply
      <4>1. n.to = c
        BY <2>3, <2>4, <3>1, <3>5 DEF ElectionInv, VotesBacked
      <4> QED
        BY <2>3, <3>5, <4>1
    <3> QED
      BY <1>2, <3>2, <3>3, <3>4, <3>5
  <2>7. LeadStep
    <3>1. \A j \in Server : role'[j] = "Candidate" =>
            \E n \in msgs' : n.kind = "RequestVote" /\ n.from = j /\ n.term = election_term'[j]
      BY <1>2, <1>6, CandidatesAsked DEF ElectionInv
    <3> QED
      BY <1>2, <1>5, <2>3, <3>1 DEF LeadStep
  <2> QED
    BY <2>5, <2>6, <2>7, LeadStepPreserves DEF ElectionInv
<1> QED
  BY <1>7, <1>8

-----------------------------------------------------------------------------

\* Nobody has stood yet.
LEMMA ElectionInit == Init => ElectionInv
BY DEF Init, ElectionInv, VotesBacked, VotesUnique, LeadersElected, NoProgress

\* Every action preserves the invariant of the election.
LEMMA ElectionNext == TypeOK /\ TypeOK' /\ ElectionInv /\ [Next]_vars => ElectionInv'
<1> SUFFICES ASSUME TypeOK, TypeOK', ElectionInv, [Next]_vars PROVE ElectionInv'
  OBVIOUS
<1>1. ASSUME NEW i \in Server, LocalStep(i) PROVE ElectionInv'
  BY <1>1, TimeoutElection, ExhaustedQuiet, HeartbeatQuiet, ProposeQuiet,
     ReadBarrierQuiet, QuietPreserves DEF LocalStep
<1>2. ASSUME NEW m \in msgs, Receive(m.to, m) PROVE ElectionInv'
  BY <1>2, RequestVoteElection, VoteReplyQuiet, BecomesLeaderQuiet, StaleQuiet,
     RejectedQuiet, AcceptedQuiet, AppendReplyStepsDownQuiet, AppendReplyFailedQuiet,
     AppendReplyRecordedQuiet, AppendReplyCommittedQuiet, ReadyReadQuiet, QuietPreserves
  DEF Receive
<1>3. CASE UNCHANGED vars
  <2>1. UNCHANGED <<current_term, voted_for, role, election_term, leader_term, peers, msgs>>
    BY <1>3 DEF vars, metadata, election, leader
  <2>2. Quiet
    BY <2>1 DEF Quiet, VoteStep, NoCandidate, ElectionInv, LeadersElected
  <2> QED
    BY <2>2, QuietPreserves
<1> QED
  BY <1>1, <1>2, <1>3, FailureQuiet, RestartQuiet, QuietPreserves DEF Next

\* Two nodes elected in one term would share a voter: of three nodes, one stood and
\* did not vote for the other, and the third voted once.
LEMMA OneElected ==
  ASSUME TypeOK, VotesBacked, VotesUnique,
         NEW c \in Server, NEW d \in Server, NEW t, Elected(c, t), Elected(d, t)
  PROVE  c = d
<1> SUFFICES ASSUME c # d PROVE FALSE
  OBVIOUS
<1>1. PICK m \in msgs : m.kind = "RequestVote" /\ m.from = c /\ m.term = t
  BY DEF Elected
<1>2. PICK n \in msgs : n.kind = "RequestVote" /\ n.from = d /\ n.term = t
  BY DEF Elected
<1>3. PICK v \in msgs : v.kind = "RequestVoteReply" /\ v.vote_granted /\ v.to = c /\ v.term = t
  BY DEF Elected
<1>4. PICK w \in msgs : w.kind = "RequestVoteReply" /\ w.vote_granted /\ w.to = d /\ w.term = t
  BY DEF Elected
<1>5. v.from \in Server /\ w.from \in Server
  BY MessageKinds DEF TypeOK
<1>6. v.from # c /\ v.from # d
  BY <1>2, <1>3 DEF VotesBacked, VotesUnique
<1>7. w.from # d /\ w.from # c
  BY <1>1, <1>4 DEF VotesBacked, VotesUnique
<1>8. v.from = w.from
  BY <1>5, <1>6, <1>7, ServerAssumption
<1> QED
  BY <1>3, <1>4, <1>8 DEF VotesUnique

\* The invariant is strong enough.
LEMMA ElectionInvImpliesSafety == TypeOK /\ ElectionInv => ElectionSafety
<1> SUFFICES ASSUME TypeOK, ElectionInv, NEW m \in msgs, NEW n \in msgs,
                    m.kind = "AppendEntries", n.kind = "AppendEntries", m.term = n.term
             PROVE  m.from = n.from
  BY DEF ElectionSafety
<1>1. m.from \in Server /\ n.from \in Server
  BY MessageKinds DEF TypeOK
<1>2. Elected(m.from, m.term) /\ Elected(n.from, m.term)
  BY DEF ElectionInv, LeadersElected
<1> QED
  BY <1>1, <1>2, OneElected DEF ElectionInv

\* Every vote stays backed by the voter's disk and every leader has a majority of
\* votes behind it, through any crash, failed write, loss or duplication.
THEOREM ElectionInvariant == Spec => []ElectionInv
<1>1. Init => ElectionInv
  BY ElectionInit
<1>2. TypeOK /\ TypeOK' /\ ElectionInv /\ [Next]_vars => ElectionInv'
  BY ElectionNext
<1> QED
  BY <1>1, <1>2, TypeCorrect, PTL DEF Spec

\* No two nodes ever send entries as leaders of the same term.
THEOREM ElectionSafe == Spec => []ElectionSafety
<1>1. TypeOK /\ ElectionInv => ElectionSafety
  BY ElectionInvImpliesSafety
<1> QED
  BY <1>1, TypeCorrect, ElectionInvariant, PTL

-----------------------------------------------------------------------------
(* Logs.                                                                   *)

\* A nonempty set of naturals has a least member.
LEMMA LeastMember ==
  ASSUME NEW T \in SUBSET Nat, T # {}
  PROVE  \E x \in T : \A y \in T : x <= y
<1> DEFINE R == OpToRel(<, Nat)
<1>1. IsWellFoundedOn(R, Nat)
  BY NatLessThanWellFounded
<1>2. \A x, y \in Nat : <<y, x>> \in R <=> y < x
  BY DEF OpToRel
<1> HIDE DEF R
<1>3. PICK x \in T : \A y \in T : ~(<<y, x>> \in R)
  BY <1>1, WFMin
<1>4. \A y \in T : ~(y < x)
  BY <1>2, <1>3
<1> QED
  BY <1>4

\* A batch that does not agree with the log has a first entry that does not.
LEMMA FirstDisagreement ==
  ASSUME NEW lg, NEW m, NEW n \in Nat, ~Agrees(lg, m, n)
  PROVE  \E k \in 1..n : Agrees(lg, m, k - 1) /\ ~Agrees(lg, m, k)
<1> DEFINE T == {k \in 1..n : ~has_entry(lg, m.prev_log_index + k, m.entries[k].term)}
<1>1. T \in SUBSET Nat /\ T # {}
  BY DEF Agrees
<1>2. PICK k \in T : \A y \in T : k <= y
  BY <1>1, LeastMember
<1>3. Agrees(lg, m, k - 1)
  BY <1>2 DEF Agrees
<1>4. ~Agrees(lg, m, k)
  BY <1>2 DEF Agrees
<1> QED
  BY <1>2, <1>3, <1>4

\* The log that a truncation and the first n entries of a batch leave.
LEMMA SpliceEntries ==
  ASSUME NEW lg \in Seq(Entry), NEW m \in AppendEntries, previous_matches(lg, m),
         NEW n \in 0..Len(m.entries)
  PROVE  /\ Splice(lg, m, n) \in Seq(Entry)
         /\ Len(Splice(lg, m, n)) = m.prev_log_index + n
         /\ m.prev_log_index <= Len(lg)
         /\ \A k \in 1..m.prev_log_index : Splice(lg, m, n)[k] = lg[k]
         /\ \A k \in 1..n : Splice(lg, m, n)[m.prev_log_index + k] = m.entries[k]
<1>1. m.prev_log_index \in Nat /\ m.entries \in Seq(Entry) /\ Len(m.entries) \in Nat
  BY LenProperties DEF AppendEntries
<1>2. m.prev_log_index <= Len(lg) /\ Len(lg) \in Nat
  BY <1>1, LenProperties DEF previous_matches, has_entry
<1> DEFINE a == SubSeq(lg, 1, m.prev_log_index)
           b == SubSeq(m.entries, 1, n)
           prev == m.prev_log_index
           s == Splice(lg, m, n)
<1>3. a \in Seq(Entry) /\ Len(a) = prev /\ \A k \in 1..prev : a[k] = lg[k]
  <2>1. \A k \in 1..prev : lg[k] \in Entry
    BY <1>1, <1>2, ElementOfSeq
  <2> QED
    BY <1>1, <2>1, SubSeqProperties, 1 \in Int, prev \in Int
<1>4. b \in Seq(Entry) /\ Len(b) = n /\ \A k \in 1..n : b[k] = m.entries[k]
  <2>1. \A k \in 1..n : m.entries[k] \in Entry
    BY <1>1, ElementOfSeq
  <2> QED
    BY <1>1, <2>1, SubSeqProperties, 1 \in Int, n \in Int
<1> HIDE DEF a, b, s
<1>5. /\ a \o b \in Seq(Entry) /\ Len(a \o b) = prev + n
      /\ \A k \in 1..(prev + n) : (a \o b)[k] = IF k <= prev THEN a[k] ELSE b[k - prev]
  <2>1. /\ a \o b \in Seq(Entry) /\ Len(a \o b) = Len(a) + Len(b)
        /\ \A k \in 1..(Len(a) + Len(b)) :
             (a \o b)[k] = IF k <= Len(a) THEN a[k] ELSE b[k - Len(a)]
    BY <1>3, <1>4, ConcatProperties
  <2> QED
    BY <1>3, <1>4, <2>1
<1>6. s = a \o b
  BY DEF a, b, s, Splice
<1>7. \A k \in 1..prev : s[k] = lg[k]
  BY <1>1, <1>3, <1>5, <1>6
<1>8. ASSUME NEW k \in 1..n PROVE s[prev + k] = m.entries[k]
  <2>1. prev + k \in 1..(prev + n) /\ ~(prev + k <= prev) /\ (prev + k) - prev = k
    BY <1>1
  <2>2. s[prev + k] = b[(prev + k) - prev]
    BY <1>5, <1>6, <2>1
  <2> QED
    BY <1>4, <2>1, <2>2
<1> QED
  BY <1>2, <1>5, <1>6, <1>7, <1>8 DEF s

\* MergedLog is one of the logs PartialLogs allows.
LEMMA MergedIsPartial ==
  ASSUME NEW lg \in Seq(Entry), NEW m \in AppendEntries
  PROVE  MergedLog(lg, m) \in PartialLogs(lg, m)
<1>1. m.entries \in Seq(Entry) /\ Len(m.entries) \in Nat
  BY LenProperties DEF AppendEntries
<1>2. SubSeq(m.entries, 1, Len(m.entries)) = m.entries
  BY <1>1, SubSeqFull
<1>3. Len(m.entries) \in {n \in 0..Len(m.entries) :
                            n = Len(m.entries) \/ ~Agrees(lg, m, n + 1)}
  BY <1>1
<1>4. SubSeq(lg, 1, m.prev_log_index) \o m.entries \in PartialLogs(lg, m)
  BY <1>2, <1>3 DEF PartialLogs
<1> QED
  BY <1>4 DEF MergedLog, PartialLogs

\* A log cut short in the middle of a batch reaches the first disagreement.
LEMMA PartialShape ==
  ASSUME NEW lg \in Seq(Entry), NEW m \in AppendEntries, NEW s \in PartialLogs(lg, m),
         s # lg, ~Agrees(lg, m, Len(m.entries))
  PROVE  \E n \in 0..Len(m.entries), d \in 1..Len(m.entries) :
           /\ s = Splice(lg, m, n)
           /\ d <= n + 1 /\ Agrees(lg, m, d - 1) /\ ~Agrees(lg, m, d)
<1>1. Len(m.entries) \in Nat
  BY LenProperties DEF AppendEntries
<1>2. PICK n \in {n \in 0..Len(m.entries) :
                   n = Len(m.entries) \/ ~Agrees(lg, m, n + 1)} :
        s = Splice(lg, m, n)
  BY DEF PartialLogs, Splice
<1>3. n \in 0..Len(m.entries) /\ (n = Len(m.entries) \/ ~Agrees(lg, m, n + 1))
  BY <1>2
<1>4. CASE n = Len(m.entries)
  <2>1. PICK d \in 1..Len(m.entries) : Agrees(lg, m, d - 1) /\ ~Agrees(lg, m, d)
    BY <1>1, FirstDisagreement
  <2>2. d <= n + 1
    BY <1>1, <1>4, <2>1
  <2> QED
    BY <1>2, <1>3, <2>1, <2>2
<1>5. CASE n # Len(m.entries)
  <2>1. n + 1 \in Nat /\ ~Agrees(lg, m, n + 1)
    BY <1>1, <1>3, <1>5
  <2>2. PICK d \in 1..(n + 1) : Agrees(lg, m, d - 1) /\ ~Agrees(lg, m, d)
    BY <2>1, FirstDisagreement
  <2>3. d \in 1..Len(m.entries) /\ d <= n + 1
    BY <1>1, <1>3, <1>5, <2>2
  <2> QED
    BY <1>2, <1>3, <2>2, <2>3
<1> QED
  BY <1>4, <1>5

\* The entries passed over before the first disagreement are the log's own.
LEMMA AgreedEntries ==
  ASSUME NEW lg \in Seq(Entry), NEW m \in AppendEntries, ~CommandMismatch(lg, m),
         NEW n \in Nat, n <= Len(m.entries), Agrees(lg, m, n), NEW k \in 1..n
  PROVE  m.prev_log_index + k \in 1..Len(lg) /\ lg[m.prev_log_index + k] = m.entries[k]
<1> DEFINE prev == m.prev_log_index
<1>1. prev \in Nat /\ m.entries \in Seq(Entry) /\ Len(m.entries) \in Nat
  BY LenProperties DEF AppendEntries
<1>2. k \in 1..Len(m.entries) /\ Agrees(lg, m, k)
  BY <1>1 DEF Agrees
<1>3. prev + k \in 1..Len(lg) /\ lg[prev + k].term = m.entries[k].term
  BY <1>2 DEF Agrees, has_entry
<1>4. lg[prev + k].command = m.entries[k].command
  BY <1>2 DEF CommandMismatch
<1>5. lg[prev + k] \in Entry /\ m.entries[k] \in Entry
  BY <1>1, <1>2, <1>3, ElementOfSeq
<1>6. \A x, y \in Entry : x.term = y.term /\ x.command = y.command => x = y
  BY DEF Entry
<1> QED
  BY <1>3, <1>4, <1>5, <1>6

\* A merge that overwrites nothing committed keeps everything committed, also when
\* it is cut short.
LEMMA PartialKeeps ==
  ASSUME NEW lg \in Seq(Entry), NEW m \in AppendEntries, previous_matches(lg, m),
         ~CommandMismatch(lg, m), NEW commit \in 0..Len(lg),
         ~CommittedConflict(lg, commit, m), NEW s \in PartialLogs(lg, m),
         s = lg \/ ~Agrees(lg, m, Len(m.entries))
  PROVE  Pfx(s, lg, commit)
<1> DEFINE prev == m.prev_log_index
<1>1. /\ prev \in Nat /\ m.entries \in Seq(Entry) /\ Len(m.entries) \in Nat
      /\ Len(lg) \in Nat
  BY LenProperties DEF AppendEntries
<1>2. CASE s = lg
  BY <1>1, <1>2 DEF Pfx
<1>3. CASE s # lg
  <2>1. PICK n \in 0..Len(m.entries), d \in 1..Len(m.entries) :
          /\ s = Splice(lg, m, n)
          /\ d <= n + 1 /\ Agrees(lg, m, d - 1) /\ ~Agrees(lg, m, d)
    BY <1>3, PartialShape
  <2>2. commit < prev + d
    <3>1. ~(prev + d <= Len(lg) /\ prev + d <= commit)
      BY <2>1 DEF CommittedConflict
    <3> QED
      BY <1>1, <2>1, <3>1
  <2>3. /\ Len(s) = prev + n
        /\ \A k \in 1..prev : s[k] = lg[k]
        /\ \A k \in 1..n : s[prev + k] = m.entries[k]
    BY <2>1, SpliceEntries
  <2>4. \A k \in 1..(d - 1) : lg[prev + k] = m.entries[k]
    <3>1. d - 1 \in Nat /\ d - 1 <= Len(m.entries)
      BY <1>1, <2>1
    <3> QED
      BY <2>1, <3>1, AgreedEntries
  <2>5. commit <= Len(s)
    BY <1>1, <2>1, <2>2, <2>3
  <2>6. ASSUME NEW k \in 1..commit PROVE s[k] = lg[k]
    <3>1. CASE k <= prev
      BY <1>1, <2>3, <3>1
    <3>2. CASE k > prev
      <4>1. k - prev \in 1..(d - 1) /\ k - prev \in 1..n /\ prev + (k - prev) = k
        BY <1>1, <2>1, <2>2, <3>2
      <4> QED
        BY <2>3, <2>4, <4>1
    <3> QED
      BY <1>1, <3>1, <3>2
  <2> QED
    BY <2>5, <2>6 DEF Pfx
<1> QED
  BY <1>2, <1>3

\* After a merge the whole batch is in the log.
LEMMA MergedHoldsBatch ==
  ASSUME NEW lg \in Seq(Entry), NEW m \in AppendEntries, previous_matches(lg, m),
         ~CommandMismatch(lg, m)
  PROVE  /\ matched_index(m) \in Nat /\ matched_index(m) <= Len(MergedLog(lg, m))
         /\ \A k \in 1..m.prev_log_index : MergedLog(lg, m)[k] = lg[k]
         /\ \A k \in 1..Len(m.entries) :
              MergedLog(lg, m)[m.prev_log_index + k] = m.entries[k]
<1> DEFINE prev == m.prev_log_index
           n == Len(m.entries)
<1>1. /\ prev \in Nat /\ m.entries \in Seq(Entry) /\ n \in Nat /\ Len(lg) \in Nat
  BY LenProperties DEF AppendEntries
<1>2. prev <= Len(lg)
  BY <1>1 DEF previous_matches, has_entry
<1>3. CASE Agrees(lg, m, n)
  <2>1. MergedLog(lg, m) = lg
    BY <1>3 DEF MergedLog
  <2>2. \A k \in 1..n : prev + k \in 1..Len(lg) /\ lg[prev + k] = m.entries[k]
    BY <1>1, <1>3, AgreedEntries
  <2>3. prev + n <= Len(lg)
    <3>1. CASE n = 0
      BY <1>1, <1>2, <3>1
    <3>2. CASE n # 0
      <4>1. n \in 1..n
        BY <1>1, <3>2
      <4> QED
        BY <1>1, <2>2, <4>1
    <3> QED
      BY <3>1, <3>2
  <2> QED
    BY <1>1, <2>1, <2>2, <2>3 DEF matched_index
<1>4. CASE ~Agrees(lg, m, n)
  <2>1. MergedLog(lg, m) = Splice(lg, m, n)
    BY <1>1, <1>4, SubSeqFull DEF MergedLog, Splice
  <2>2. n \in 0..n
    BY <1>1
  <2>3. /\ Len(MergedLog(lg, m)) = prev + n
        /\ \A k \in 1..prev : MergedLog(lg, m)[k] = lg[k]
        /\ \A k \in 1..n : MergedLog(lg, m)[prev + k] = m.entries[k]
    BY <2>1, <2>2, SpliceEntries
  <2> QED
    BY <1>1, <2>3 DEF matched_index
<1> QED
  BY <1>3, <1>4

-----------------------------------------------------------------------------
(* A step is a step of one node.                                           *)

\* Nothing changes at the other nodes.
Frame(i) ==
  \A j \in Server : j # i =>
    /\ current_term'[j] = current_term[j] /\ voted_for'[j] = voted_for[j]
    /\ log'[j] = log[j] /\ commit_index'[j] = commit_index[j]
    /\ applied'[j] = applied[j] /\ known_leader'[j] = known_leader[j]
    /\ next_read_id'[j] = next_read_id[j] /\ stopped'[j] = stopped[j]
    /\ role'[j] = role[j] /\ election_term'[j] = election_term[j]
    /\ leader_term'[j] = leader_term[j] /\ peers'[j] = peers[j]
    /\ read_rounds'[j] = read_rounds[j]

\* So what is known of them is still true.
LEMMA FrameKeeps ==
  ASSUME NEW i \in Server, NEW j \in Server, j # i, Frame(i), NodeOK(j)
  PROVE  NodeOK(j)'
BY DEF Frame, NodeOK, LeaderAt, RoleAt, CommitAt, ProgressAt, ReadAt, Live, Role

\* What a leader's reads may do: a waiting one gets an index or keeps it, one with
\* the next id joins, some leave.
ReadsStep(i) ==
  /\ leader_term[i] = leader_term'[i]
  /\ \/ next_read_id'[i] = next_read_id[i]
     \/ next_read_id[i] # 0 /\ next_read_id'[i] = NextReadId(next_read_id[i])
  /\ \A r \in read_rounds'[i] :
       \/ \E q \in read_rounds[i] : q.id = r.id /\ (q.index # 0 => q.index = r.index)
       \/ /\ r.id = next_read_id[i] /\ next_read_id[i] # 0
          /\ next_read_id'[i] = NextReadId(next_read_id[i])

\* A request of node i after the step.
NewRequest(i, m) ==
  /\ m.from = i /\ m.to # i
  /\ m.term = leader_term'[i] /\ leader_term'[i] # 0
  /\ FromLog(m, log'[i]) /\ m.leader_commit <= commit_index'[i]
  /\ m.read_context # 0 =>
       /\ m.prev_log_index = 0 /\ m.entries = <<>> /\ m.leader_commit # 0
       /\ \E r \in read_rounds'[i] : r.id = m.read_context /\ r.index = m.leader_commit

\* Candidacies begin in a new term; a leadership goes on or begins with a candidacy.
SentStep(i) ==
  /\ msgs \subseteq msgs'
  /\ current_term'[i] >= current_term[i]
  /\ Standing(i)' => \/ Standing(i) /\ election_term'[i] = election_term[i]
                     \/ election_term'[i] > current_term[i]
  /\ \A m \in msgs' : m.kind = "AppendEntries" => m \in msgs \/ NewRequest(i, m)
  /\ leader_term'[i] # 0 =>
       \/ ReadsStep(i)
       \/ /\ Standing(i) /\ election_term[i] = leader_term'[i]
          /\ read_rounds'[i] = {}

\* No vote is asked for or given, and nothing is acknowledged.
Calm ==
  \A m \in msgs' : m \notin msgs =>
    m.kind # "RequestVote" /\ ~Granted(m) /\ ~Success(m)

\* A leader learns of its peers only what they have told it.
MatchStep(i) ==
  leader_term'[i] # 0 =>
    /\ leader_term'[i] = leader_term[i]
    /\ \A p \in Peers(i) :
         \/ peers'[i][p].match_index = peers[i][p].match_index
         \/ Replied(p, leader_term[i], peers'[i][p].match_index)

-----------------------------------------------------------------------------
(* The kinds of steps, as far as logs, votes and commitment are concerned. *)

\* Nothing is written, voted or committed; a restart forgets what was committed.
Rests(i) ==
  /\ Calm /\ MatchStep(i) /\ UNCHANGED log
  /\ \/ /\ commit_index'[i] = commit_index[i] /\ applied'[i] = applied[i]
        /\ Live(i)' => Live(i)
     \/ commit_index'[i] = 0 /\ applied'[i] = <<>> /\ leader_term'[i] = 0

\* A leader commits an entry of its own term that a peer has acknowledged.
Commits(i) ==
  /\ Calm /\ MatchStep(i) /\ UNCHANGED log /\ leader_term'[i] # 0
  /\ commit_index'[i] \in (commit_index[i] + 1)..Len(log[i])
  /\ log[i][commit_index'[i]].term = leader_term[i]
  /\ \E p \in Peers(i) : peers'[i][p].match_index >= commit_index'[i]

\* A node stands in a new term.
Campaigns(i) ==
  /\ Live(i) /\ UNCHANGED <<log, commit_index, applied>>
  /\ leader_term'[i] = 0
  /\ current_term'[i] = current_term[i] + 1
  /\ election_term'[i] = current_term'[i]
  /\ \A m \in msgs' : m \notin msgs =>
       /\ m.kind = "RequestVote" /\ m.from = i /\ m.term = current_term'[i]
       /\ m.last_log_index = Len(log[i]) /\ m.last_log_term = last_term(log[i])

\* A node gives its vote to the sender of m.
Votes(i, m) ==
  /\ Live(i) /\ UNCHANGED <<log, commit_index, applied>>
  /\ leader_term'[i] # 0 => UNCHANGED <<leader_term, peers>>
  /\ m.kind = "RequestVote" /\ m.to = i /\ candidate_log_is_up_to_date(m, log[i])
  /\ current_term'[i] = m.term
  /\ \A n \in msgs' : n \notin msgs =>
       n.kind = "RequestVoteReply" /\ n.from = i /\ n.to = m.from /\ n.term = m.term

\* The leader of a term, or the candidate that has just won it, writes an entry.
Grows(i, e) ==
  /\ Calm /\ UNCHANGED <<commit_index, applied, current_term>>
  /\ e \in Entry /\ e.term = current_term[i]
  /\ log' = [log EXCEPT ![i] = Append(log[i], e)]
  /\ ~Standing(i)'
  /\ \/ leader_term[i] = e.term /\ MatchStep(i)
     \/ /\ Standing(i) /\ election_term[i] = e.term
        /\ \E v \in msgs : Granted(v) /\ v.to = i /\ v.term = e.term
        /\ leader_term'[i] # 0 =>
             /\ leader_term'[i] = e.term
             /\ \A p \in Peers(i) : peers'[i][p].match_index = 0

\* A follower takes the entries of m, or part of them when the write fails.
Takes(i, m) ==
  /\ Live(i) /\ m.kind = "AppendEntries" /\ m.to = i
  /\ m.term >= current_term[i] /\ current_term'[i] = m.term
  /\ previous_matches(log[i], m)
  /\ log'[i] \in PartialLogs(log[i], m)
  /\ log'[i] = log[i] \/ ~Agrees(log[i], m, Len(m.entries))
  /\ leader_term'[i] = 0 /\ ~Standing(i)'
  /\ \/ /\ ~Live(i)' /\ UNCHANGED <<msgs, commit_index, applied>>
     \/ /\ Live(i)' /\ log'[i] = MergedLog(log[i], m)
        /\ commit_index'[i] = FollowerCommit(commit_index[i], m)
        /\ ~InvalidRequest(i, m)
        /\ \A r \in msgs' : r \notin msgs => r = AppendReply(i, m, m.term, TRUE)

StepOf(i) ==
  /\ Frame(i) /\ SentStep(i)
  /\ \/ Rests(i) \/ Commits(i) \/ Campaigns(i)
     \/ \E m \in msgs : Votes(i, m) \/ Takes(i, m)
     \/ \E e \in Entry : Grows(i, e)

\* Such a step of node i preserves what is known of the requests sent.
LEMMA SentPreserves ==
  ASSUME TypeOK, TypeOK', NodeInv, NEW i \in Server, Frame(i), SentStep(i), NodeOK(i)'
  PROVE  NodeInv'
<1>1. ASSUME NEW j \in Server PROVE NodeOK(j)'
  BY FrameKeeps DEF NodeInv
<1>2. ASSUME NEW m \in msgs', m.kind = "AppendEntries" PROVE SentOK(m)'
  <2>1. m \in AppendEntries /\ m.from \in Server /\ m.term \in Nat /\ m.read_context \in Nat
    <3>1. m \in AppendEntries
      BY <1>2, MessageKinds DEF TypeOK
    <3> QED
      BY <3>1 DEF AppendEntries, Term
  <2>2. CASE m \in msgs /\ m.from # i
    <3>1. SentOK(m)
      BY <1>2, <2>2 DEF NodeInv
    <3> QED
      BY <2>1, <2>2, <3>1 DEF Frame, SentOK, Standing, Live
  <2>3. CASE m \in msgs /\ m.from = i
    <3>1. SentOK(m)
      BY <1>2, <2>3 DEF NodeInv
    <3>2. /\ current_term[i] \in Nat /\ current_term'[i] \in Nat /\ election_term'[i] \in Nat
          /\ leader_term'[i] \in Nat
      BY DEF TypeOK, Term
    <3>3. current_term'[i] >= m.term
      BY <2>1, <2>3, <3>1, <3>2 DEF SentOK, SentStep
    <3>4. ~(Standing(i)' /\ election_term'[i] = m.term)
      BY <2>1, <2>3, <3>1, <3>2 DEF SentOK, SentStep
    <3>5. ASSUME m.read_context # 0, leader_term'[i] = m.term
          PROVE  /\ next_read_id'[i] # 0 => m.read_context < next_read_id'[i]
                 /\ \A r \in read_rounds'[i] :
                      r.id = m.read_context => r.index = m.leader_commit
      <4>1. ReadsStep(i)
        BY <2>3, <3>1, <3>5 DEF SentOK, SentStep
      <4>2. /\ next_read_id[i] # 0 => m.read_context < next_read_id[i]
            /\ \A r \in read_rounds[i] : r.id = m.read_context => r.index = m.leader_commit
            /\ m.leader_commit # 0
        BY <2>3, <3>1, <3>5, <4>1 DEF SentOK, ReadsStep
      <4>3. next_read_id[i] \in 0..MaxReadId /\ MaxReadId \in Nat
        BY BoundAssumption DEF TypeOK
      <4>4. next_read_id'[i] # 0 /\ next_read_id[i] # 0 => next_read_id'[i] >= next_read_id[i]
        BY SMTT(30), <4>1, <4>3 DEF ReadsStep, NextReadId
      <4>5. next_read_id[i] = 0 => next_read_id'[i] = 0
        BY <4>1 DEF ReadsStep
      <4>6. next_read_id'[i] \in Nat
        BY DEF TypeOK
      <4> QED
        BY <2>1, <4>1, <4>2, <4>3, <4>4, <4>5, <4>6 DEF ReadsStep
    <3> QED
      BY <2>3, <3>1, <3>3, <3>4, <3>5 DEF SentOK
  <2>4. CASE m \notin msgs
    <3>1. NewRequest(i, m)
      BY <1>2, <2>4 DEF SentStep
    <3>2. LeaderAt(i)' /\ ReadAt(i)'
      BY <1>1 DEF NodeOK
    <3>3. role'[i] = "Leader" /\ current_term'[i] = m.term
      BY <3>1, <3>2 DEF NewRequest, LeaderAt
    <3> QED
      BY <2>1, <3>1, <3>2, <3>3 DEF NewRequest, ReadAt, SentOK, Standing
  <2> QED
    BY <2>2, <2>3, <2>4
<1> QED
  BY <1>1, <1>2 DEF NodeInv

-----------------------------------------------------------------------------
(* The shared parts of the handlers.                                       *)

\* make_request copies a part of the log, and the term of the entry before it.
LEMMA RequestFromLog ==
  ASSUME NEW i, NEW p, NEW term, NEW lg \in Seq(Entry), NEW commit,
         NEW next \in 1..(Len(lg) + 1), NEW m,
         m = make_request(i, p, term, lg, commit, next)
  PROVE  /\ m.kind = "AppendEntries" /\ m.from = i /\ m.to = p /\ m.term = term
         /\ m.leader_commit = commit /\ m.read_context = 0
         /\ FromLog(m, lg)
<1> DEFINE last == IF next + MaxBatch - 1 <= Len(lg) THEN next + MaxBatch - 1 ELSE Len(lg)
           part == SubSeq(lg, next, last)
<1>1. Len(lg) \in Nat /\ last \in Nat /\ last <= Len(lg) /\ next <= last + 1
  BY BoundAssumption, LenProperties
<1>2. \A k \in next..last : lg[k] \in Entry
  BY <1>1, ElementOfSeq
<1>3. /\ Len(part) = IF next <= last THEN last - next + 1 ELSE 0
      /\ \A k \in 1..(last - next + 1) : part[k] = lg[next + k - 1]
  BY <1>1, <1>2, SubSeqProperties, next \in Int, last \in Int
<1>4. /\ m.kind = "AppendEntries" /\ m.from = i /\ m.to = p /\ m.term = term
      /\ m.leader_commit = commit /\ m.read_context = 0
      /\ m.prev_log_index = next - 1 /\ m.entries = part
      /\ m.prev_log_term = IF next = 1 THEN 0 ELSE lg[next - 1].term
  BY DEF make_request
<1> HIDE DEF last, part
<1>5. Len(part) = last - next + 1 /\ (next - 1) + Len(part) <= Len(lg)
  BY <1>1, <1>3
<1>6. ASSUME NEW k \in 1..Len(part) PROVE part[k] = lg[(next - 1) + k]
  <2>1. next + k - 1 = (next - 1) + k
    BY <1>1, <1>5
  <2> QED
    BY <1>3, <1>5, <2>1
<1>7. next = 1 <=> next - 1 = 0
  BY <1>1
<1> QED
  BY <1>4, <1>5, <1>6, <1>7 DEF FromLog, matched_index

\* Queueing for tracked peers keeps them tracked; what is sent is the leader's.
LEMMA QueueTracks ==
  ASSUME NEW i \in Server, NEW term, NEW lg \in Seq(Entry), NEW commit,
         NEW ps \in [Server -> PeerState], NEW S \in SUBSET Peers(i),
         \A p \in Peers(i) : Tracks(i, p, term, lg, ps[p])
  PROVE  /\ \A p \in Peers(i) :
              Tracks(i, p, term, lg, Queued(i, term, lg, commit, ps, S)[p])
         /\ \A m \in Requests(Queued(i, term, lg, commit, ps, S), S) :
              /\ m.from = i /\ m.to # i /\ m.term = term /\ m.read_context = 0
              /\ m \in Requests(ps, S) \/ (m.leader_commit = commit /\ FromLog(m, lg))
<1> DEFINE q == Queued(i, term, lg, commit, ps, S)
<1>1. ASSUME NEW p \in Peers(i)
      PROVE  /\ Tracks(i, p, term, lg, q[p])
             /\ p \in S => /\ q[p].pending # NoRequest
                           /\ \/ q[p].pending = ps[p].pending
                              \/ /\ q[p].pending.leader_commit = commit
                                 /\ FromLog(q[p].pending, lg)
  <2>1. p \in Server /\ ps[p] \in PeerState /\ Tracks(i, p, term, lg, ps[p])
    BY DEF Peers
  <2>2. CASE p \in S /\ ps[p].pending = NoRequest
    <3> DEFINE m == make_request(i, p, term, lg, commit, ps[p].next_index)
    <3>1. ps[p].next_index \in 1..(Len(lg) + 1)
      BY <2>1, LenProperties DEF Tracks, PeerState
    <3>2. /\ m.kind = "AppendEntries" /\ m.from = i /\ m.to = p /\ m.term = term
          /\ m.leader_commit = commit /\ m.read_context = 0 /\ FromLog(m, lg)
      BY <3>1, RequestFromLog
    <3> HIDE DEF m
    <3>3. q[p] = [ps[p] EXCEPT !.pending = m]
      BY <2>1, <2>2 DEF Queued, m
    <3>4. /\ q[p].pending = m /\ q[p].next_index = ps[p].next_index
          /\ q[p].match_index = ps[p].match_index
      BY <2>1, <3>3 DEF PeerState
    <3>5. m # NoRequest
      BY <3>2 DEF NoRequest
    <3> QED
      BY <2>1, <3>2, <3>4, <3>5 DEF Tracks, FromLog
  <2>3. CASE ~(p \in S /\ ps[p].pending = NoRequest)
    <3>1. q[p] = ps[p]
      BY <2>1, <2>3 DEF Queued
    <3> QED
      BY <2>1, <2>3, <3>1
  <2> QED
    BY <2>2, <2>3
<1> HIDE DEF q
<1>2. ASSUME NEW m \in Requests(q, S)
      PROVE  /\ m.from = i /\ m.to # i /\ m.term = term /\ m.read_context = 0
             /\ m \in Requests(ps, S) \/ (m.leader_commit = commit /\ FromLog(m, lg))
  <2>1. PICK p \in S : m = q[p].pending
    BY DEF Requests
  <2>2. p \in Peers(i) /\ p # i
    BY DEF Peers
  <2>3. Tracks(i, p, term, lg, q[p]) /\ q[p].pending # NoRequest
    BY <1>1, <2>2
  <2>4. m.from = i /\ m.to = p /\ m.term = term /\ m.read_context = 0
    BY <2>1, <2>3 DEF Tracks
  <2> QED
    BY <1>1, <2>1, <2>2, <2>4 DEF Requests
<1> QED
  BY <1>1, <1>2 DEF q

\* Probes are the leader's and carry the index of a read of theirs.
LEMMA ProbesRead ==
  ASSUME NEW i, NEW term, NEW rounds, NEW m \in Probes(i, term, rounds)
  PROVE  /\ m.from = i /\ m.to # i /\ m.term = term
         /\ m.prev_log_index = 0 /\ m.prev_log_term = 0 /\ m.entries = <<>>
         /\ m.leader_commit # 0
         /\ \E r \in rounds : r.id = m.read_context /\ r.index = m.leader_commit
<1>1. PICK p \in Peers(i), r \in {q \in rounds : q.index # 0} : m = ReadProbe(i, p, term, r)
  BY DEF Probes
<1>2. p # i
  BY DEF Peers
<1> QED
  BY <1>1, <1>2 DEF ReadProbe

\* A node that stops has no leader object, and the rest of it hardly matters.
LEMMA StopNode ==
  ASSUME TypeOK, TypeOK', NodeInv, NEW i \in Server, NEW error \in Errors, stop(i, error),
         \A j \in Server : j # i =>
           /\ current_term'[j] = current_term[j] /\ voted_for'[j] = voted_for[j]
           /\ log'[j] = log[j] /\ commit_index'[j] = commit_index[j]
           /\ applied'[j] = applied[j] /\ next_read_id'[j] = next_read_id[j]
           /\ role'[j] = role[j] /\ election_term'[j] = election_term[j],
         current_term'[i] >= current_term[i],
         election_term'[i] = election_term[i] \/ election_term'[i] = 0,
         UNCHANGED msgs
  PROVE  NodeInv' /\ Frame(i) /\ SentStep(i)
<1>1. leader_term'[i] = 0 /\ read_rounds'[i] = {} /\ stopped'[i] # "None"
  BY DEF stop, drop_leadership, TypeOK, Errors
<1>2. Frame(i)
  BY DEF stop, drop_leadership, TypeOK, Frame
<1>3. election_term'[i] <= current_term'[i]
  <2>1. election_term[i] \in Nat /\ current_term[i] \in Nat /\ current_term'[i] \in Nat
    BY DEF TypeOK, Term
  <2> QED
    BY <2>1 DEF NodeInv, NodeOK, RoleAt
<1>4. NodeOK(i)'
  BY <1>1, <1>3 DEF NodeOK, LeaderAt, RoleAt, CommitAt, ProgressAt, ReadAt, Live
<1>5. SentStep(i)
  BY <1>1 DEF SentStep, Standing, Live
<1> QED
  BY <1>2, <1>4, <1>5, SentPreserves

\* A node that loses its leader object and runs on does not lead.
LEMMA DropNode ==
  ASSUME TypeOK, TypeOK', NodeInv, NEW i \in Server, Frame(i),
         leader_term'[i] = 0, read_rounds'[i] = {},
         current_term'[i] >= current_term[i],
         \/ role'[i] = "Follower" /\ election_term'[i] = 0
         \/ /\ role'[i] = role[i] /\ election_term'[i] = election_term[i]
            /\ Role(i)' # "Leader" /\ (Live(i)' => Live(i)),
         CommitAt(i)', msgs \subseteq msgs',
         \A m \in msgs' : m.kind = "AppendEntries" => m \in msgs
  PROVE  NodeInv' /\ SentStep(i)
<1>1. current_term'[i] \in Nat /\ current_term[i] \in Nat /\ election_term[i] \in Nat
  BY DEF TypeOK, Term
<1>2. RoleAt(i)'
  BY <1>1 DEF NodeInv, NodeOK, RoleAt, Role
<1>3. NodeOK(i)'
  BY <1>2 DEF NodeOK, LeaderAt, ProgressAt, ReadAt
<1>4. SentStep(i)
  BY DEF SentStep, Standing
<1> QED
  BY <1>3, <1>4, SentPreserves

\* A leader that stays one.
LEMMA LeadNode ==
  ASSUME TypeOK, TypeOK', NodeInv, NEW i \in Server, Frame(i), leader_term[i] # 0,
         UNCHANGED <<metadata, election, known_leader, stopped, leader_term>>,
         CommitAt(i)', ProgressAt(i)', ReadAt(i)', ReadsStep(i), msgs \subseteq msgs',
         \A m \in msgs' : m.kind = "AppendEntries" => m \in msgs \/ NewRequest(i, m)
  PROVE  NodeInv' /\ SentStep(i)
<1> USE DEF metadata, election
<1>1. NodeOK(i)'
  BY DEF NodeInv, NodeOK, LeaderAt, RoleAt, Role, Live
<1>2. current_term'[i] >= current_term[i]
  BY DEF TypeOK, Term
<1>3. SentStep(i)
  BY <1>2 DEF SentStep, Standing, Live
<1> QED
  BY <1>1, <1>3, SentPreserves

-----------------------------------------------------------------------------
(* Each action preserves the invariant and is a step of one of the kinds.  *)

\* A node that keeps its log and what it has applied from it.
LEMMA CommitStays ==
  ASSUME NodeInv, NEW i \in Server, log'[i] = log[i],
         commit_index'[i] = commit_index[i], applied'[i] = applied[i],
         Live(i)' => Live(i)
  PROVE  CommitAt(i)'
BY DEF NodeInv, NodeOK, CommitAt

\* Stopping without a write is a step of rest.
LEMMA StopRests ==
  ASSUME TypeOK, TypeOK', NodeInv, NEW i \in Server, NEW error \in Errors, stop(i, error),
         UNCHANGED <<log, commit_index, applied, next_read_id, msgs>>,
         \A j \in Server : j # i =>
           /\ current_term'[j] = current_term[j] /\ voted_for'[j] = voted_for[j]
           /\ role'[j] = role[j] /\ election_term'[j] = election_term[j],
         current_term'[i] >= current_term[i],
         election_term'[i] = election_term[i] \/ election_term'[i] = 0
  PROVE  NodeInv' /\ StepOf(i)
<1>1. NodeInv' /\ Frame(i) /\ SentStep(i)
  BY StopNode
<1>2. leader_term'[i] = 0 /\ ~Live(i)'
  BY DEF stop, drop_leadership, TypeOK, Errors, Live
<1>3. Rests(i)
  BY <1>2 DEF Rests, Calm, MatchStep
<1> QED
  BY <1>1, <1>3 DEF StepOf

\* on_election_timeout.
LEMMA TimeoutNode ==
  ASSUME TypeOK, TypeOK', NodeInv, NEW i \in Server, on_election_timeout(i)
  PROVE  NodeInv' /\ StepOf(i)
<1>1. current_term[i] \in Nat
  BY DEF TypeOK, Term
<1>2. /\ current_term'[i] = current_term[i] + 1 /\ election_term'[i] = current_term[i] + 1
      /\ role'[i] = "Candidate" /\ leader_term'[i] = 0 /\ read_rounds'[i] = {}
      /\ UNCHANGED <<log, commit_index, applied, next_read_id, stopped>>
      /\ Live(i)
  BY DEF on_election_timeout, CanCampaign, drop_leadership, TypeOK
<1>3. Frame(i)
  BY DEF on_election_timeout, drop_leadership, TypeOK, Frame
<1>4. /\ msgs \subseteq msgs'
      /\ \A m \in msgs' : m \notin msgs =>
           /\ m.kind = "RequestVote" /\ m.from = i /\ m.term = current_term[i] + 1
           /\ m.last_log_index = Len(log[i]) /\ m.last_log_term = last_term(log[i])
  BY DEF on_election_timeout, last_index
<1>5. NodeOK(i)'
  <2>1. CommitAt(i)'
    BY <1>2, CommitStays
  <2> QED
    BY <1>1, <1>2, <2>1 DEF NodeOK, LeaderAt, RoleAt, Role, ProgressAt, ReadAt
<1>6. SentStep(i)
  BY <1>1, <1>2, <1>4 DEF SentStep
<1>7. Campaigns(i)
  BY <1>2, <1>4 DEF Campaigns
<1> QED
  BY <1>3, <1>5, <1>6, <1>7, SentPreserves DEF StepOf

\* An election timeout at the last term.
LEMMA ExhaustedNode ==
  ASSUME TypeOK, TypeOK', NodeInv, NEW i \in Server, election_term_exhausted(i)
  PROVE  NodeInv' /\ StepOf(i)
<1> USE DEF metadata, election
<1>1. stop(i, "TermExhausted") /\ "TermExhausted" \in Errors
  BY DEF election_term_exhausted, Errors
<1>2. /\ UNCHANGED <<log, commit_index, applied, next_read_id, msgs>>
      /\ \A j \in Server : j # i =>
           /\ current_term'[j] = current_term[j] /\ voted_for'[j] = voted_for[j]
           /\ role'[j] = role[j] /\ election_term'[j] = election_term[j]
      /\ current_term'[i] = current_term[i]
      /\ election_term'[i] = election_term[i] \/ election_term'[i] = 0
  BY DEF election_term_exhausted, become_follower, TypeOK
<1>3. current_term'[i] >= current_term[i]
  BY <1>2 DEF TypeOK, Term
<1> QED
  BY <1>1, <1>2, <1>3, StopRests

\* A leader queues for the peers in S and sends that and the probes of these rounds
\* of its own.
Sends(i, ps, S, rounds) ==
  /\ rounds \subseteq read_rounds'[i]
  /\ peers' = [peers EXCEPT ![i] =
       Queued(i, leader_term'[i], log'[i], commit_index'[i], ps, S)]
  /\ msgs' = msgs \cup Requests(peers'[i], S) \cup Probes(i, leader_term'[i], rounds)

\* A leader sends what it has queued and its probes.
LEMMA SendsRequests ==
  ASSUME TypeOK, TypeOK', NEW i \in Server, leader_term'[i] # 0,
         NEW ps \in [Server -> PeerState], NEW S \in SUBSET Peers(i),
         ps[i].pending = NoRequest,
         \A p \in Peers(i) : Tracks(i, p, leader_term'[i], log'[i], ps[p]),
         \A p \in Peers(i) : ps[p].pending # NoRequest => ps[p].pending \in msgs,
         NEW rounds, Sends(i, ps, S, rounds), ReadAt(i)'
  PROVE  /\ ProgressAt(i)' /\ Calm /\ msgs \subseteq msgs'
         /\ \A m \in msgs' : m.kind = "AppendEntries" => m \in msgs \/ NewRequest(i, m)
         /\ \A p \in Peers(i) : peers'[i][p].match_index = ps[p].match_index
<1>0. PICK term, lg, commit : term = leader_term'[i] /\ lg = log'[i] /\ commit = commit_index'[i]
  OBVIOUS
<1>a. /\ leader_term'[i] = term /\ log'[i] = lg /\ commit_index'[i] = commit
      /\ term # 0 /\ lg \in Seq(Entry) /\ commit \in Nat
      /\ \A p \in Peers(i) : Tracks(i, p, term, lg, ps[p])
  BY <1>0 DEF TypeOK
<1>b. /\ peers' = [peers EXCEPT ![i] = Queued(i, term, lg, commit, ps, S)]
      /\ msgs' = msgs \cup Requests(peers'[i], S) \cup Probes(i, term, rounds)
      /\ rounds \subseteq read_rounds'[i]
  BY <1>a DEF Sends
<1> DEFINE q == Queued(i, term, lg, commit, ps, S)
<1>1. peers'[i] = q
  BY <1>b DEF TypeOK
<1>2. /\ \A p \in Peers(i) : Tracks(i, p, term, lg, q[p])
      /\ \A m \in Requests(q, S) :
           /\ m.from = i /\ m.to # i /\ m.term = term /\ m.read_context = 0
           /\ m \in Requests(ps, S) \/ (m.leader_commit = commit /\ FromLog(m, lg))
  <2>1. lg \in Seq(Entry) /\ \A p \in Peers(i) : Tracks(i, p, term, lg, ps[p])
    BY <1>a
  <2> QED
    BY ONLY <2>1, QueueTracks, i \in Server, ps \in [Server -> PeerState],
            S \in SUBSET Peers(i)
<1>3. \A p \in Peers(i) : q[p].match_index = ps[p].match_index
  <2> SUFFICES ASSUME NEW p \in Peers(i) PROVE q[p].match_index = ps[p].match_index
    OBVIOUS
  <2>1. p \in Server /\ ps[p] \in PeerState
    BY DEF Peers
  <2> QED
    BY <2>1 DEF Queued, PeerState
<1>9. q[i].pending = NoRequest
  BY DEF Queued, Peers
<1> HIDE DEF q
<1>4. ProgressAt(i)'
  BY <1>a, <1>1, <1>2, <1>9 DEF ProgressAt
<1>5. ASSUME NEW m \in Requests(q, S), m \notin msgs PROVE NewRequest(i, m) /\ m.kind = "AppendEntries"
  <2>1. PICK p \in S : m = q[p].pending
    BY DEF Requests
  <2>2. p \in Peers(i) /\ p \in Server /\ ps[p] \in PeerState
    BY DEF Peers
  <2>3. /\ m.kind = "AppendEntries" /\ m.leader_commit = commit /\ FromLog(m, lg)
    <3>1. ps[p].pending # NoRequest => q[p] = ps[p]
      BY <2>2 DEF q, Queued
    <3>2. ps[p].pending = NoRequest
      BY <1>5, <2>1, <2>2, <3>1
    <3>3. q[p].pending = make_request(i, p, term, lg, commit, ps[p].next_index)
      BY <2>2, <3>2 DEF q, Queued, PeerState
    <3>4. ps[p].next_index \in 1..(Len(lg) + 1)
      BY <1>a, <2>2, LenProperties DEF Tracks, PeerState
    <3> QED
      BY <1>a, <2>1, <3>3, <3>4, RequestFromLog
  <2>4. m.leader_commit <= commit_index'[i]
    BY <1>a, <2>3
  <2> QED
    BY <1>a, <1>2, <2>3, <2>4 DEF NewRequest
<1>6. ASSUME NEW m \in Probes(i, term, rounds)
      PROVE  NewRequest(i, m) /\ m.kind = "AppendEntries"
  <2>1. /\ m.from = i /\ m.to # i /\ m.term = term
        /\ m.prev_log_index = 0 /\ m.prev_log_term = 0 /\ m.entries = <<>>
        /\ m.leader_commit # 0
        /\ \E r \in rounds : r.id = m.read_context /\ r.index = m.leader_commit
    BY ProbesRead
  <2>2. m.kind = "AppendEntries"
    BY DEF Probes, ReadProbe
  <2>3. PICK r \in read_rounds'[i] : r.id = m.read_context /\ r.index = m.leader_commit
    BY <1>b, <2>1
  <2>4. m.leader_commit <= commit_index'[i]
    BY <2>3 DEF ReadAt
  <2>5. FromLog(m, lg)
    BY <1>a, <2>1, LenProperties DEF FromLog, matched_index
  <2> QED
    BY <1>a, <2>1, <2>2, <2>3, <2>4, <2>5 DEF NewRequest
<1>7. \A m \in msgs' : m \notin msgs => NewRequest(i, m) /\ m.kind = "AppendEntries"
  BY <1>b, <1>1, <1>5, <1>6
<1>8. Calm
  BY <1>7 DEF Calm, Granted, Success
<1> QED
  BY <1>b, <1>1, <1>3, <1>4, <1>7, <1>8

\* What a running leader may rely on.
LEMMA LeaderFacts ==
  ASSUME TypeOK, ElectionInv, NodeInv, NEW i \in Server, leader_term[i] # 0
  PROVE  /\ log[i] \in Seq(Entry) /\ commit_index[i] \in Nat /\ applied[i] \in Seq(Entry)
         /\ peers[i] \in [Server -> PeerState] /\ leader_term[i] \in Term
         /\ Peers(i) \in SUBSET Peers(i) /\ Peers(i) \in SUBSET Server
         /\ \A p \in Peers(i) : Tracks(i, p, leader_term[i], log[i], peers[i][p])
         /\ \A p \in Peers(i) : peers[i][p].pending # NoRequest => peers[i][p].pending \in msgs
         /\ peers[i][i].pending = NoRequest
         /\ Active(i) /\ Live(i) /\ current_term[i] = leader_term[i]
         /\ Len(applied[i]) = commit_index[i] /\ commit_index[i] <= Len(log[i])
         /\ CommitAt(i) /\ ReadAt(i)
<1>1. LeaderAt(i) /\ ProgressAt(i) /\ CommitAt(i) /\ ReadAt(i)
  BY DEF NodeInv, NodeOK
<1>2. Active(i) /\ Live(i) /\ current_term[i] = leader_term[i]
  BY <1>1 DEF LeaderAt, Active, Role
<1>3. /\ log[i] \in Seq(Entry) /\ commit_index[i] \in Nat /\ applied[i] \in Seq(Entry)
      /\ peers[i] \in [Server -> PeerState] /\ leader_term[i] \in Term
      /\ Peers(i) \in SUBSET Server
  BY DEF TypeOK, Peers
<1>4. \A p \in Peers(i) : peers[i][p].pending # NoRequest => peers[i][p].pending \in msgs
  BY DEF ElectionInv, LeadersElected, Peers
<1> QED
  BY <1>1, <1>2, <1>3, <1>4 DEF ProgressAt, CommitAt, Pfx

\* A leader with tracked peers can always queue.
LEMMA CanAlwaysQueue ==
  ASSUME NEW i \in Server, NEW term, NEW lg \in Seq(Entry), NEW commit \in Nat,
         commit <= Len(lg), NEW ps \in [Server -> PeerState], NEW S \in SUBSET Peers(i),
         \A p \in Peers(i) : Tracks(i, p, term, lg, ps[p])
  PROVE  CanQueue(lg, commit, ps, S)
<1> SUFFICES ASSUME NEW p \in S PROVE ps[p].next_index \in 1..(Len(lg) + 1)
  BY DEF CanQueue
<1>1. p \in Peers(i) /\ ps[p] \in PeerState /\ Len(lg) \in Nat
  BY LenProperties DEF Peers
<1> QED
  BY <1>1 DEF Tracks, PeerState

\* A leader that only sends keeps its reads.
LEMMA SameReads ==
  ASSUME NodeInv, NEW i \in Server, leader_term'[i] = leader_term[i],
         read_rounds'[i] = read_rounds[i], next_read_id'[i] = next_read_id[i],
         commit_index'[i] = commit_index[i]
  PROVE  ReadAt(i)' /\ ReadsStep(i)
BY DEF NodeInv, NodeOK, ReadAt, ReadsStep

\* on_heartbeat_timeout: the leader object is always active, and can always queue.
LEMMA HeartbeatNode ==
  ASSUME TypeOK, TypeOK', ElectionInv, NodeInv, NEW i \in Server, on_heartbeat_timeout(i)
  PROVE  NodeInv' /\ StepOf(i)
<1> USE DEF metadata, election
<1>1. leader_term[i] # 0
  BY DEF on_heartbeat_timeout
<1>2. /\ log[i] \in Seq(Entry) /\ commit_index[i] \in Nat /\ peers[i] \in [Server -> PeerState]
      /\ Peers(i) \in SUBSET Peers(i) /\ commit_index[i] <= Len(log[i]) /\ Active(i)
      /\ peers[i][i].pending = NoRequest
      /\ \A p \in Peers(i) : Tracks(i, p, leader_term[i], log[i], peers[i][p])
      /\ \A p \in Peers(i) : peers[i][p].pending # NoRequest => peers[i][p].pending \in msgs
  BY <1>1, LeaderFacts
<1>3. CanQueue(log[i], commit_index[i], peers[i], Peers(i))
  BY ONLY <1>2, CanAlwaysQueue, i \in Server
<1>4. /\ peers' = [peers EXCEPT ![i] =
            Queued(i, leader_term[i], log[i], commit_index[i], peers[i], Peers(i))]
      /\ msgs' = msgs \cup Requests(peers'[i], Peers(i))
                      \cup Probes(i, leader_term[i], read_rounds'[i])
      /\ UNCHANGED <<leader_term, read_rounds, known_leader, stopped>>
      /\ UNCHANGED <<metadata, log, election, commit_index, applied, next_read_id>>
  BY <1>2, <1>3 DEF on_heartbeat_timeout
<1>5. Frame(i)
  BY <1>4 DEF Frame, TypeOK
<1>6. ReadAt(i)' /\ ReadsStep(i)
  BY <1>4, SameReads
<1>7. /\ ProgressAt(i)' /\ Calm /\ msgs \subseteq msgs'
      /\ \A m \in msgs' : m.kind = "AppendEntries" => m \in msgs \/ NewRequest(i, m)
      /\ \A p \in Peers(i) : peers'[i][p].match_index = peers[i][p].match_index
  <2>1. log'[i] = log[i] /\ commit_index'[i] = commit_index[i] /\ leader_term'[i] = leader_term[i]
    BY <1>4
  <2>2. Sends(i, peers[i], Peers(i), read_rounds'[i])
    BY <1>4, <2>1 DEF Sends
  <2> QED
    BY ONLY <1>1, <1>2, <1>6, <2>1, <2>2, SendsRequests, TypeOK, TypeOK', i \in Server
<1>8. CommitAt(i)'
  BY <1>4, CommitStays DEF Live
<1>9. NodeInv' /\ SentStep(i)
  BY <1>1, <1>4, <1>5, <1>6, <1>7, <1>8, LeadNode
<1>10. Rests(i)
  BY <1>4, <1>7 DEF Rests, Live, MatchStep
<1> QED
  BY <1>5, <1>9, <1>10 DEF StepOf

\* on_request_vote: a leader never votes for another node in its term.
LEMMA RequestVoteNode ==
  ASSUME TypeOK, TypeOK', ElectionInv, NodeInv, NEW m \in msgs, on_request_vote(m.to, m)
  PROVE  NodeInv' /\ StepOf(m.to)
<1> DEFINE i == m.to
<1> USE DEF metadata, election, leader, node
<1>1. m.from \in Server /\ m.term \in Nat /\ i \in Server /\ m.kind = "RequestVote" /\ Live(i)
  <2>1. m.from \in Server /\ m.to \in Server /\ m.term \in Nat
    BY SMTT(30), MessageKinds DEF TypeOK, Term
  <2>2. m.kind = "RequestVote" /\ Live(m.to)
    BY DEF on_request_vote, ToVote
  <2> QED
    BY <2>1, <2>2
<1>2. m.from # i
  BY <1>1 DEF ElectionInv, VotesBacked
<1>3. /\ current_term'[i] = IF m.term > current_term[i] THEN m.term ELSE current_term[i]
      /\ voted_for'[i] = IF Grants(i, m) THEN m.from
                         ELSE IF m.term > current_term[i] THEN Nobody ELSE voted_for[i]
      /\ UNCHANGED <<log, election, commit_index, applied, next_read_id, stopped>>
  BY <1>1 DEF on_request_vote, TypeOK
<1>4. /\ m.term > current_term[i] => leader_term'[i] = 0 /\ read_rounds'[i] = {}
      /\ ~(m.term > current_term[i]) => UNCHANGED <<leader, known_leader>>
  BY <1>1 DEF on_request_vote, drop_leadership, TypeOK
<1>5. Frame(i)
  BY SMTT(30), <1>1 DEF on_request_vote, drop_leadership, TypeOK, Frame
<1>6. /\ msgs \subseteq msgs'
      /\ \A n \in msgs' : n \notin msgs =>
           /\ n.kind = "RequestVoteReply" /\ n.from = i /\ n.to = m.from
           /\ n.term = current_term'[i] /\ n.vote_granted = Grants(i, m)
  BY <1>1 DEF on_request_vote
<1>7. current_term[i] \in Nat /\ election_term[i] \in Nat /\ i # Nobody
  <2>1. current_term[i] \in Nat /\ election_term[i] \in Nat
    BY <1>1 DEF TypeOK, Term
  <2> QED
    BY <1>1, <2>1, ServerAssumption
<1>8. current_term'[i] >= current_term[i]
  BY <1>1, <1>3, <1>7
<1> HIDE DEF i
<1>9. CommitAt(i)'
  BY <1>1, <1>3, CommitStays DEF Live
<1>10. /\ LeaderAt(i) /\ RoleAt(i) /\ ReadAt(i) /\ ProgressAt(i)
  BY <1>1 DEF NodeInv, NodeOK
<1>11. \A n \in msgs' : n.kind = "AppendEntries" => n \in msgs
  BY <1>6
<1>12. NodeInv' /\ SentStep(i)
  <2>1. CASE m.term > current_term[i]
    <3>1. Role(i)' # "Leader"
      BY <1>1, <1>3, <1>7, <1>10, <2>1 DEF RoleAt, Role
    <3> QED
      BY <1>1, <1>3, <1>4, <1>5, <1>6, <1>8, <1>9, <1>11, <2>1, <3>1, DropNode DEF Live
  <2>2. CASE ~(m.term > current_term[i]) /\ leader_term[i] = 0
    <3>1. Role(i)' # "Leader"
      BY <1>1, <1>2, <1>3, <1>10, <2>2 DEF RoleAt, Role
    <3>2. leader_term'[i] = 0 /\ read_rounds'[i] = {}
      BY <1>4, <1>10, <2>2 DEF ReadAt
    <3> QED
      BY <1>1, <1>3, <1>5, <1>6, <1>8, <1>9, <1>11, <3>1, <3>2, DropNode DEF Live
  <2>3. CASE ~(m.term > current_term[i]) /\ leader_term[i] # 0
    <3>1. ~Grants(i, m)
      BY <1>1, <1>2, <1>7, <1>10, <2>3 DEF Grants, LeaderAt
    <3>2. current_term'[i] = current_term[i] /\ voted_for'[i] = voted_for[i]
      BY <1>3, <2>3, <3>1
    <3>3. UNCHANGED metadata
      <4>1. /\ current_term' = [current_term EXCEPT ![i] = current_term'[i]]
            /\ voted_for' = [voted_for EXCEPT ![i] = voted_for'[i]]
        BY <1>1 DEF on_request_vote, TypeOK, i
      <4> QED
        BY <3>2, <4>1 DEF TypeOK
    <3>4. ReadAt(i)' /\ ReadsStep(i) /\ ProgressAt(i)'
      BY <1>1, <1>3, <1>4, <1>10, <2>3, SameReads DEF ProgressAt
    <3> QED
      BY <1>1, <1>3, <1>4, <1>5, <1>6, <1>9, <1>11, <2>3, <3>3, <3>4, LeadNode
  <2> QED
    BY <2>1, <2>2, <2>3
<1>13. Rests(i) \/ Votes(i, m)
  <2>1. CASE Grants(i, m)
    <3>1. candidate_log_is_up_to_date(m, log[i]) /\ current_term'[i] = m.term
      BY <1>1, <1>3, <1>7, <2>1 DEF Grants
    <3>2. leader_term'[i] # 0 => UNCHANGED <<leader_term, peers>>
      BY <1>4
    <3> QED
      BY <1>1, <1>3, <1>6, <3>1, <3>2 DEF Votes, i
  <2>2. CASE ~Grants(i, m)
    <3>1. Calm
      BY <1>6, <2>2 DEF Calm, Granted, Success
    <3>2. MatchStep(i)
      BY <1>4 DEF MatchStep
    <3> QED
      BY <1>3, <3>1, <3>2 DEF Rests, Live
  <2> QED
    BY <2>1, <2>2
<1> QED
  BY <1>5, <1>12, <1>13 DEF StepOf, i

\* Giving up in a running node is a step of rest.
LEMMA FollowerRests ==
  ASSUME TypeOK, TypeOK', NodeInv, NEW i \in Server, Frame(i), Live(i),
         NEW hint, become_follower(i), drop_leadership(i, hint),
         current_term'[i] >= current_term[i],
         UNCHANGED <<log, commit_index, applied, stopped>>, msgs \subseteq msgs', Calm,
         \A m \in msgs' : m.kind = "AppendEntries" => m \in msgs
  PROVE  NodeInv' /\ StepOf(i)
<1>1. /\ leader_term'[i] = 0 /\ read_rounds'[i] = {}
      /\ role'[i] = "Follower" /\ election_term'[i] = 0
  BY DEF become_follower, drop_leadership, TypeOK
<1>2. CommitAt(i)'
  BY CommitStays
<1>3. NodeInv' /\ SentStep(i)
  BY <1>1, <1>2, DropNode
<1>4. Rests(i)
  BY <1>1 DEF Rests, MatchStep
<1> QED
  BY <1>3, <1>4 DEF StepOf

\* A vote reply that makes no leader.
LEMMA VoteReplyNode ==
  ASSUME TypeOK, TypeOK', NodeInv, NEW m \in msgs,
         vote_reply_steps_down(m.to, m) \/ vote_reply_recorded(m.to, m)
  PROVE  NodeInv' /\ StepOf(m.to)
<1> DEFINE i == m.to
<1> USE DEF metadata, election, leader, node
<1>1. m.from \in Server /\ m.term \in Nat /\ i \in Server /\ current_term[i] \in Nat
  BY SMTT(30), MessageKinds DEF TypeOK, Term
<1>2. CASE vote_reply_steps_down(i, m)
  <2>1. /\ Live(i) /\ become_follower(i) /\ drop_leadership(i, Nobody)
        /\ UNCHANGED <<log, commit_index, applied, next_read_id, stopped, msgs>>
    BY <1>2 DEF vote_reply_steps_down
  <2>2. Frame(i)
    BY SMTT(30), <1>1, <1>2
    DEF vote_reply_steps_down, become_follower, drop_leadership, advance_term,
                      TypeOK, Frame
  <2>3. current_term'[i] >= current_term[i]
    BY <1>1, <1>2 DEF vote_reply_steps_down, advance_term, TypeOK
  <2>4. Calm
    BY <2>1 DEF Calm
  <2> QED
    BY <1>1, <2>1, <2>2, <2>3, <2>4, FollowerRests
<1>3. CASE vote_reply_recorded(i, m)
  <2>1. /\ UNCHANGED <<metadata, log, node, role, election_term, leader, msgs>>
        /\ Live(i) /\ Role(i) = "Candidate"
    BY <1>3 DEF vote_reply_recorded, FreshVoteReply
  <2>2. Frame(i)
    BY <2>1 DEF Frame
  <2>3. leader_term[i] = 0 /\ read_rounds[i] = {}
    BY <1>1, <2>1 DEF NodeInv, NodeOK, LeaderAt, ReadAt, Role
  <2>4. Role(i)' # "Leader" /\ current_term'[i] >= current_term[i]
    BY <1>1, <2>1 DEF Role
  <2>5. CommitAt(i)'
    BY <1>1, <2>1, CommitStays
  <2>6. NodeInv' /\ SentStep(i)
    BY <1>1, <2>1, <2>2, <2>3, <2>4, <2>5, DropNode DEF Live
  <2>7. Rests(i)
    BY <2>1, <2>3 DEF Rests, Calm, MatchStep
  <2> QED
    BY <2>2, <2>6, <2>7 DEF StepOf
<1> QED
  BY <1>2, <1>3

\* A longer log still holds what is committed.
LEMMA CommitGrows ==
  ASSUME TypeOK, NodeInv, NEW i \in Server, NEW e \in Entry, log'[i] = Append(log[i], e),
         commit_index'[i] = commit_index[i], applied'[i] = applied[i], Live(i)' => Live(i)
  PROVE  CommitAt(i)'
<1>1. log[i] \in Seq(Entry) /\ Len(log[i]) \in Nat /\ commit_index[i] \in Nat
  BY LenProperties DEF TypeOK
<1>2. /\ Len(log'[i]) = Len(log[i]) + 1
      /\ \A k \in 1..Len(log[i]) : log'[i][k] = log[i][k]
  BY <1>1, AppendProperties
<1> QED
  BY <1>1, <1>2 DEF NodeInv, NodeOK, CommitAt, Pfx

\* Peers stay tracked when the log grows.
LEMMA TracksGrown ==
  ASSUME NEW i, NEW p, NEW term, NEW lg \in Seq(Entry), NEW e \in Entry,
         NEW s \in PeerState, Tracks(i, p, term, lg, s)
  PROVE  Tracks(i, p, term, Append(lg, e), s)
<1>1. Len(lg) \in Nat /\ Len(Append(lg, e)) = Len(lg) + 1
  BY LenProperties, AppendProperties
<1>2. s.next_index \in Nat /\ s.pending \in AppendEntries \cup {NoRequest}
  BY DEF PeerState
<1>3. s.pending # NoRequest => matched_index(s.pending) \in Nat
  BY <1>2, LenProperties DEF matched_index, AppendEntries
<1> QED
  BY <1>1, <1>2, <1>3 DEF Tracks

\* A vote reply that makes the majority: the leader object begins with the no-op.
LEMMA BecomesLeaderNode ==
  ASSUME TypeOK, TypeOK', ElectionInv, NodeInv, NEW m \in msgs,
         vote_reply_becomes_leader(m.to, m)
  PROVE  NodeInv' /\ StepOf(m.to)
<1> DEFINE i == m.to
           e == [term |-> current_term[i], command |-> NoOp]
           made == [p \in Server |-> [NoProgress EXCEPT !.next_index = last_index(log[i]) + 1]]
<1> USE DEF metadata, election, leader, node
<1>1. i \in Server
  BY MessageKinds DEF TypeOK
<1>2. /\ Live(i) /\ role[i] = "Candidate" /\ current_term[i] = election_term[i]
      /\ voted_for[i] = i /\ m.kind = "RequestVoteReply" /\ m.vote_granted
      /\ m.term = election_term[i]
  BY DEF vote_reply_becomes_leader, WinsElection, FreshVoteReply, Role
<1>3. /\ role' = [role EXCEPT ![i] = "Leader"]
      /\ UNCHANGED <<metadata, election_term, commit_index, applied, next_read_id>>
  BY DEF vote_reply_becomes_leader
<1>4. current_term[i] \in Term /\ current_term[i] \in Nat /\ current_term'[i] >= current_term[i]
  BY <1>1, <1>3 DEF TypeOK, Term
<1>5. leader_term[i] = 0 /\ read_rounds[i] = {}
  BY <1>1, <1>2 DEF NodeInv, NodeOK, LeaderAt, ReadAt
<1>6. CASE CannotLead(i)
  <2>1. /\ stop(i, "InconsistentState") /\ UNCHANGED <<log, msgs>>
        /\ "InconsistentState" \in Errors
    BY <1>6 DEF vote_reply_becomes_leader, Errors
  <2>2. \A j \in Server : j # i =>
           /\ current_term'[j] = current_term[j] /\ voted_for'[j] = voted_for[j]
           /\ role'[j] = role[j] /\ election_term'[j] = election_term[j]
    BY <1>3 DEF TypeOK
  <2> QED
    BY <1>1, <1>3, <1>4, <2>1, <2>2, StopRests
<1>7. CASE ~CannotLead(i)
  <2>1. /\ log' = [log EXCEPT ![i] = Append(log[i], e)]
        /\ leader_term' = [leader_term EXCEPT ![i] = current_term[i]]
        /\ peers' = [peers EXCEPT ![i] =
              Queued(i, current_term[i], log'[i], commit_index[i], made, Peers(i))]
        /\ known_leader' = [known_leader EXCEPT ![i] = i]
        /\ msgs' = msgs \cup Requests(peers'[i], Peers(i))
        /\ UNCHANGED <<read_rounds, stopped>>
    BY <1>7 DEF vote_reply_becomes_leader
  <2>2. /\ log[i] \in Seq(Entry) /\ Len(log[i]) \in Nat /\ current_term[i] # 0
    BY <1>1, <1>7, LenProperties DEF TypeOK, CannotLead
  <2>3. e \in Entry /\ e.term = current_term[i]
    BY <1>4, <2>2 DEF Entry, Term
  <2>4. /\ log'[i] = Append(log[i], e) /\ leader_term'[i] = current_term[i]
        /\ role'[i] = "Leader" /\ known_leader'[i] = i /\ read_rounds'[i] = {}
    BY <1>1, <1>3, <1>5, <2>1 DEF TypeOK
  <2>5. Frame(i)
    BY <1>3, <2>1 DEF Frame, TypeOK
  <2>6. made \in [Server -> PeerState] /\ \A p \in Server : made[p].match_index = 0
                                            /\ made[p].pending = NoRequest
                                            /\ made[p].next_index = Len(log[i]) + 1
    BY <2>2 DEF NoProgress, PeerState, last_index
  <2>7. Sends(i, made, Peers(i), {})
    <3>1. Probes(i, leader_term'[i], {}) = {}
      BY DEF Probes
    <3> QED
      BY <1>3, <2>1, <2>4, <3>1 DEF Sends
  <2> HIDE DEF i, e, made
  <2>8. \A p \in Peers(i) : Tracks(i, p, leader_term'[i], log'[i], made[p])
    <3>1. Len(log'[i]) = Len(log[i]) + 1
      BY <2>2, <2>3, <2>4, AppendProperties
    <3>2. \A p \in Peers(i) : p \in Server
      BY DEF Peers
    <3> QED
      BY <2>2, <2>6, <3>1, <3>2 DEF Tracks
  <2>9. ReadAt(i)'
    BY <2>4 DEF ReadAt
  <2>10. /\ ProgressAt(i)' /\ Calm /\ msgs \subseteq msgs'
         /\ \A n \in msgs' : n.kind = "AppendEntries" => n \in msgs \/ NewRequest(i, n)
         /\ \A p \in Peers(i) : peers'[i][p].match_index = made[p].match_index
    <3>1. leader_term'[i] # 0 /\ Peers(i) \in SUBSET Peers(i)
      BY <2>2, <2>4
    <3>2. /\ \A p \in Peers(i) : made[p].pending # NoRequest => made[p].pending \in msgs
          /\ made[i].pending = NoRequest
      BY <1>1, <2>6 DEF Peers
    <3> QED
      BY ONLY <1>1, <2>6, <2>7, <2>8, <2>9, <3>1, <3>2, SendsRequests, TypeOK, TypeOK'
  <2>11. CommitAt(i)'
    BY <1>1, <1>3, <2>1, <2>3, <2>4, CommitGrows DEF Live
  <2>12. NodeOK(i)'
    <3>1. LeaderAt(i)' /\ RoleAt(i)'
      BY <1>2, <1>3, <1>4, <2>1, <2>2, <2>4 DEF LeaderAt, RoleAt, Live, Role
    <3> QED
      BY <2>9, <2>10, <2>11, <3>1 DEF NodeOK
  <2>13. SentStep(i)
    BY <1>2, <1>4, <2>4, <2>10 DEF SentStep, Standing
  <2>14. Grows(i, e)
    <3>1. ~Standing(i)' /\ Standing(i) /\ election_term[i] = e.term
      BY <1>2, <2>3, <2>4 DEF Standing
    <3>2. Granted(m) /\ m.to = i /\ m.term = e.term
      BY <1>2, <2>3 DEF Granted, i
    <3>3. \A p \in Peers(i) : peers'[i][p].match_index = 0
      BY <2>6, <2>10 DEF Peers
    <3> QED
      BY <1>3, <2>1, <2>3, <2>4, <2>10, <3>1, <3>2, <3>3 DEF Grows
  <2>15. NodeInv'
    BY <1>1, <2>5, <2>12, <2>13, SentPreserves
  <2> QED
    BY <2>3, <2>5, <2>13, <2>14, <2>15 DEF StepOf, i
<1> QED
  BY <1>6, <1>7

\* A node that only answers.
LEMMA AnswersRest ==
  ASSUME TypeOK, TypeOK', NodeInv, NEW i \in Server,
         UNCHANGED <<metadata, log, node, election, leader>>, msgs \subseteq msgs', Calm,
         \A n \in msgs' : n.kind = "AppendEntries" => n \in msgs
  PROVE  NodeInv' /\ StepOf(i)
<1> USE DEF metadata, election, leader, node
<1>1. Frame(i)
  BY DEF Frame
<1>2. NodeOK(i)'
  BY DEF NodeInv, NodeOK, LeaderAt, RoleAt, CommitAt, ProgressAt, ReadAt, Live, Role
<1>3. current_term'[i] >= current_term[i]
  BY DEF TypeOK, Term
<1>4. SentStep(i)
  BY <1>3 DEF SentStep, ReadsStep, Standing, Live
<1>5. Rests(i)
  BY DEF Rests, Live, MatchStep
<1> QED
  BY <1>1, <1>2, <1>4, <1>5, SentPreserves DEF StepOf

\* A request of an older term.
LEMMA StaleNode ==
  ASSUME TypeOK, TypeOK', NodeInv, NEW m \in msgs, append_entries_stale(m.to, m)
  PROVE  NodeInv' /\ StepOf(m.to)
<1>1. m.to \in Server
  BY MessageKinds DEF TypeOK
<1>2. UNCHANGED <<metadata, log, node, election, leader>>
  BY DEF append_entries_stale
<1>3. \A n \in msgs' : n \notin msgs => n.kind = "AppendEntriesReply" /\ ~n.success
  BY DEF append_entries_stale, AppendReply
<1>4. /\ msgs \subseteq msgs' /\ Calm
      /\ \A n \in msgs' : n.kind = "AppendEntries" => n \in msgs
  BY <1>3 DEF Calm, Granted, Success, append_entries_stale
<1> QED
  BY <1>1, <1>2, <1>4, AnswersRest

\* A node that leaves its leadership for a newer term and keeps its stored role.
LEMMA NewerTermRests ==
  ASSUME TypeOK, TypeOK', NodeInv, NEW i \in Server, Live(i), NEW hint,
         drop_leadership(i, hint), NEW term \in Term, term > current_term[i],
         advance_term(i, term),
         UNCHANGED <<log, election, commit_index, applied, next_read_id, stopped, msgs>>
  PROVE  NodeInv' /\ StepOf(i)
<1> USE DEF election
<1>1. leader_term'[i] = 0 /\ read_rounds'[i] = {} /\ current_term'[i] = term
      /\ voted_for'[i] = Nobody
  BY DEF drop_leadership, advance_term, TypeOK
<1>2. Frame(i)
  BY DEF drop_leadership, advance_term, TypeOK, Frame
<1>3. current_term'[i] >= current_term[i]
  BY <1>1 DEF TypeOK, Term
<1>4. Role(i)' # "Leader"
  <2>1. i # Nobody
    BY ServerAssumption
  <2> QED
    BY <1>1, <2>1 DEF Role
<1>5. CommitAt(i)'
  BY CommitStays DEF Live
<1>6. NodeInv' /\ SentStep(i)
  BY <1>1, <1>2, <1>3, <1>4, <1>5, DropNode DEF Live
<1>7. Rests(i)
  BY <1>1 DEF Rests, Calm, MatchStep
<1> QED
  BY <1>2, <1>6, <1>7 DEF StepOf

\* A request that is refused or dropped.
LEMMA RejectedNode ==
  ASSUME TypeOK, TypeOK', NodeInv, NEW m \in msgs, append_entries_rejected(m.to, m)
  PROVE  NodeInv' /\ StepOf(m.to)
<1> DEFINE i == m.to
<1> USE DEF metadata, election, leader, node
<1>1. i \in Server /\ m.term \in Term
  BY MessageKinds DEF TypeOK
<1>2. /\ Live(i) /\ advance_term(i, m.term) /\ m.term >= current_term[i]
      /\ UNCHANGED <<log, commit_index, applied, next_read_id, stopped>>
  BY DEF append_entries_rejected, ToAppend
<1>3. current_term[i] \in Nat /\ m.term \in Nat
  BY SMTT(30), <1>1 DEF TypeOK, Term
<1>4. CASE InvalidRequest(i, m) /\ m.term > current_term[i]
  <2>1. drop_leadership(i, Nobody) /\ UNCHANGED <<election, msgs>>
    BY <1>4 DEF append_entries_rejected
  <2> QED
    BY <1>1, <1>2, <1>4, <2>1, NewerTermRests
<1>5. CASE InvalidRequest(i, m) /\ ~(m.term > current_term[i])
  <2>1. UNCHANGED <<leader, known_leader, election, msgs>>
    BY <1>5 DEF append_entries_rejected
  <2>2. UNCHANGED metadata
    BY <1>1, <1>2, <1>5 DEF advance_term, TypeOK
  <2>3. msgs \subseteq msgs' /\ Calm /\ \A n \in msgs' : n.kind = "AppendEntries" => n \in msgs
    BY <2>1 DEF Calm
  <2> QED
    BY <1>1, <1>2, <2>1, <2>2, <2>3, AnswersRest
<1>6. CASE ~InvalidRequest(i, m)
  <2>1. /\ become_follower(i) /\ drop_leadership(i, m.from)
        /\ msgs' = msgs \cup {AppendReply(i, m, m.term, FALSE)}
    BY <1>6 DEF append_entries_rejected
  <2>2. Frame(i)
    BY <1>1, <1>2, <2>1 DEF become_follower, drop_leadership, advance_term, TypeOK, Frame
  <2>3. current_term'[i] >= current_term[i]
    BY <1>1, <1>2, <1>3 DEF advance_term, TypeOK
  <2>4. \A n \in msgs' : n \notin msgs => n.kind = "AppendEntriesReply" /\ ~n.success
    BY <2>1 DEF AppendReply
  <2>5. msgs \subseteq msgs' /\ Calm /\ \A n \in msgs' : n.kind = "AppendEntries" => n \in msgs
    BY <2>1, <2>4 DEF Calm, Granted, Success
  <2> QED
    BY <1>1, <1>2, <2>1, <2>2, <2>3, <2>5, FollowerRests
<1> QED
  BY <1>4, <1>5, <1>6

\* A reply of a newer term.
LEMMA ReplyStepsDownNode ==
  ASSUME TypeOK, TypeOK', NodeInv, NEW m \in msgs, append_reply_steps_down(m.to, m)
  PROVE  NodeInv' /\ StepOf(m.to)
<1>1. m.to \in Server /\ m.term \in Term
  BY MessageKinds DEF TypeOK
<1> QED
  BY <1>1, NewerTermRests DEF append_reply_steps_down, ToAppendReply

\* Applying feeds the state machine the log up to the commit index.
LEMMA ApplyPrefix ==
  ASSUME NEW lg \in Seq(Entry), NEW ap \in Seq(Entry), NEW commit \in Nat,
         CanApply(lg, ap, commit), Pfx(ap, lg, Len(ap))
  PROVE  /\ Len(apply_committed(lg, ap, commit)) = commit
         /\ Pfx(apply_committed(lg, ap, commit), lg, commit)
<1> DEFINE a == Len(ap)
           rest == SubSeq(lg, a + 1, commit)
<1>1. a \in Nat /\ Len(lg) \in Nat /\ commit <= Len(lg) /\ a <= commit
  BY LenProperties DEF CanApply
<1>2. \A k \in (a + 1)..commit : lg[k] \in Entry
  BY <1>1, ElementOfSeq
<1>3. /\ rest \in Seq(Entry) /\ Len(rest) = commit - a
      /\ \A k \in 1..(commit - a) : rest[k] = lg[a + k]
  <2>1. /\ rest \in Seq(Entry) /\ Len(rest) = IF a + 1 <= commit THEN commit - (a + 1) + 1 ELSE 0
        /\ \A k \in 1..(commit - (a + 1) + 1) : rest[k] = lg[(a + 1) + k - 1]
    BY <1>1, <1>2, SubSeqProperties, a + 1 \in Int, commit \in Int
  <2>2. commit - (a + 1) + 1 = commit - a /\ \A k \in Nat : (a + 1) + k - 1 = a + k
    BY <1>1
  <2>3. \A k \in 1..(commit - a) : k \in Nat
    BY <1>1
  <2>4. Len(rest) = commit - a
    BY <1>1, <2>1
  <2> QED
    BY <2>1, <2>2, <2>3, <2>4
<1> HIDE DEF rest
<1>4. /\ Len(ap \o rest) = commit
      /\ \A k \in 1..commit : (ap \o rest)[k] = IF k <= a THEN ap[k] ELSE rest[k - a]
  <2>1. /\ Len(ap \o rest) = Len(ap) + Len(rest)
        /\ \A k \in 1..(Len(ap) + Len(rest)) :
             (ap \o rest)[k] = IF k <= Len(ap) THEN ap[k] ELSE rest[k - Len(ap)]
    BY <1>3, ConcatProperties
  <2>2. Len(ap) + Len(rest) = commit
    BY <1>1, <1>3
  <2> QED
    BY <2>1, <2>2
<1>5. ASSUME NEW k \in 1..commit PROVE (ap \o rest)[k] = lg[k]
  <2>1. CASE k <= a
    BY <1>1, <1>4, <2>1 DEF Pfx
  <2>2. CASE ~(k <= a)
    <3>1. k - a \in 1..(commit - a) /\ a + (k - a) = k
      BY <1>1, <2>2
    <3> QED
      BY <1>3, <1>4, <2>2, <3>1
  <2> QED
    BY <2>1, <2>2
<1> QED
  BY SMTT(30), <1>1, <1>4, <1>5 DEF apply_committed, Pfx, rest

\* The commit index a follower arrives at stays within what it has and goes up.
LEMMA FollowerCommitBounds ==
  ASSUME NEW commit \in Nat, NEW m \in AppendEntries, NEW n \in Nat, commit <= n,
         matched_index(m) <= n
  PROVE  /\ FollowerCommit(commit, m) \in Nat /\ FollowerCommit(commit, m) <= n
         /\ commit <= FollowerCommit(commit, m)
         /\ \/ FollowerCommit(commit, m) = commit
            \/ FollowerCommit(commit, m) <= m.leader_commit
               /\ FollowerCommit(commit, m) <= matched_index(m)
<1>1. m.leader_commit \in Nat /\ matched_index(m) \in Nat
  BY LenProperties DEF AppendEntries, matched_index
<1> QED
  BY <1>1 DEF FollowerCommit

\* A request whose entries fit.
LEMMA AcceptedNode ==
  ASSUME TypeOK, TypeOK', NodeInv, NEW m \in msgs, append_entries_accepted(m.to, m)
  PROVE  NodeInv' /\ StepOf(m.to)
<1> DEFINE i == m.to
           new == MergedLog(log[i], m)
           commit == FollowerCommit(commit_index[i], m)
<1> USE DEF metadata, election, leader, node
<1>1. i \in Server /\ m.from \in Server /\ m.term \in Term /\ m \in AppendEntries
      /\ m.kind = "AppendEntries"
  BY MessageKinds DEF TypeOK, append_entries_accepted, ToAppend
<1>2. /\ Live(i) /\ m.term >= current_term[i] /\ ~InvalidRequest(i, m)
      /\ previous_matches(log[i], m) /\ advance_term(i, m.term) /\ UNCHANGED next_read_id
  BY DEF append_entries_accepted, ToAppend
<1>3. /\ log[i] \in Seq(Entry) /\ commit_index[i] \in Nat /\ Len(log[i]) \in Nat
      /\ applied[i] \in Seq(Entry) /\ current_term[i] \in Nat /\ m.term \in Nat
  <2>1. /\ log[i] \in Seq(Entry) /\ commit_index[i] \in Nat /\ applied[i] \in Seq(Entry)
        /\ current_term[i] \in Term
    BY <1>1 DEF TypeOK
  <2>2. \A t \in Term : t \in Nat
    BY DEF Term
  <2> QED
    BY <1>1, <2>1, <2>2, LenProperties
<1>4. /\ current_term'[i] = m.term /\ current_term'[i] >= current_term[i]
      /\ \A j \in Server : j # i =>
           current_term'[j] = current_term[j] /\ voted_for'[j] = voted_for[j]
  BY <1>1, <1>2, <1>3 DEF advance_term, TypeOK
<1>5. CASE CommittedConflict(log[i], commit_index[i], m)
  <2>1. /\ stop(i, "InconsistentState") /\ "InconsistentState" \in Errors
        /\ UNCHANGED <<log, commit_index, applied, election, msgs>>
    BY <1>5 DEF append_entries_accepted, Errors
  <2> QED
    BY <1>1, <1>2, <1>4, <2>1, StopRests
<1>6. CASE ~CommittedConflict(log[i], commit_index[i], m)
  <2>1. /\ log' = [log EXCEPT ![i] = new]
        /\ commit_index' = [commit_index EXCEPT ![i] = commit]
        /\ become_follower(i)
    BY <1>6 DEF append_entries_accepted
  <2>2. log'[i] = new /\ commit_index'[i] = commit
    BY <1>1, <2>1 DEF TypeOK
  <2>3. /\ ~CommandMismatch(log[i], m) /\ commit_index[i] \in 0..Len(log[i])
    BY <1>2, <1>3 DEF InvalidRequest, last_index
  <2>4. new \in PartialLogs(log[i], m) /\ (new = log[i] \/ ~Agrees(log[i], m, Len(m.entries)))
        /\ new \in Seq(Entry) /\ Len(new) \in Nat
    BY <1>1, <1>2, <1>3, MergedIsPartial, MergedType, LenProperties DEF MergedLog
  <2> HIDE DEF new
  <2>5. Pfx(new, log[i], commit_index[i])
    BY ONLY <1>1, <1>2, <1>3, <1>6, <2>3, <2>4, PartialKeeps
  <2>6. matched_index(m) <= Len(new)
    BY <1>1, <1>2, <1>3, <2>3, MergedHoldsBatch DEF new
  <2>7. commit \in Nat /\ commit <= Len(new) /\ commit_index[i] <= commit
    <3>1. commit_index[i] <= Len(new)
      BY <2>5 DEF Pfx
    <3> QED
      BY ONLY <1>1, <1>3, <2>4, <2>6, <3>1, FollowerCommitBounds
  <2> HIDE DEF commit
  <2>8. Len(applied[i]) = commit_index[i] /\ Pfx(applied[i], log[i], commit_index[i])
    BY <1>1, <1>2 DEF NodeInv, NodeOK, CommitAt
  <2>9. CanApply(new, applied[i], commit) /\ Pfx(applied[i], new, Len(applied[i]))
    BY <2>5, <2>7, <2>8 DEF CanApply, Pfx
  <2>10. /\ applied' = [applied EXCEPT ![i] = apply_committed(new, applied[i], commit)]
         /\ drop_leadership(i, m.from)
         /\ msgs' = msgs \cup {AppendReply(i, m, m.term, TRUE)}
         /\ UNCHANGED stopped
    <3>1. CanApply(log'[i], applied[i], commit_index'[i])
      BY <2>2, <2>9
    <3> QED
      BY <1>6, <2>2, <3>1 DEF append_entries_accepted
  <2>11. CommitAt(i)'
    <3>1. applied'[i] = apply_committed(new, applied[i], commit)
      BY <1>1, <2>10 DEF TypeOK
    <3>2. /\ Len(apply_committed(new, applied[i], commit)) = commit
          /\ Pfx(apply_committed(new, applied[i], commit), new, commit)
      BY ONLY <1>3, <2>4, <2>7, <2>9, ApplyPrefix
    <3> QED
      BY <2>2, <3>1, <3>2 DEF CommitAt
  <2>12. Frame(i)
    BY <1>2, <1>4, <2>1, <2>10 DEF become_follower, drop_leadership, TypeOK, Frame
  <2>13. /\ leader_term'[i] = 0 /\ read_rounds'[i] = {}
         /\ role'[i] = "Follower" /\ election_term'[i] = 0
    BY <1>1, <2>1, <2>10 DEF become_follower, drop_leadership, TypeOK
  <2>14. /\ msgs \subseteq msgs'
         /\ \A n \in msgs' : n.kind = "AppendEntries" => n \in msgs
    BY <2>10 DEF AppendReply
  <2>15. NodeInv' /\ SentStep(i)
    BY <1>1, <1>4, <2>11, <2>12, <2>13, <2>14, DropNode
  <2>16. Takes(i, m)
    <3>1. ~Standing(i)'
      BY <2>13 DEF Standing
    <3>2. Live(i)'
      BY <1>2, <2>10 DEF Live
    <3> QED
      BY <1>1, <1>2, <1>4, <2>2, <2>4, <2>10, <2>13, <3>1, <3>2 DEF Takes, new, commit
  <2> QED
    BY <2>12, <2>15, <2>16 DEF StepOf
<1> QED
  BY <1>5, <1>6

\* The peer whose answer a leader takes is another node, and is tracked.
LEMMA AnswerFacts ==
  ASSUME TypeOK, ElectionInv, NodeInv, NEW m \in msgs, Answers(m.to, m)
  PROVE  /\ m.to \in Server /\ m.from \in Peers(m.to) /\ leader_term[m.to] # 0
         /\ m.replied_to = peers[m.to][m.from].pending /\ m.replied_to \in AppendEntries
         /\ m.kind = "AppendEntriesReply" /\ m.term = leader_term[m.to]
         /\ matched_index(m.replied_to) \in Nat
         /\ matched_index(m.replied_to) <= Len(log[m.to])
<1> DEFINE i == m.to
           p == m.from
<1>1. i \in Server /\ p \in Server /\ m \in AppendEntriesReply
  BY MessageKinds DEF TypeOK, Answers, ToAppendReply
<1>2. /\ m.replied_to = peers[i][p].pending /\ m.replied_to \in AppendEntries
      /\ leader_term[i] # 0 /\ m.kind = "AppendEntriesReply" /\ m.term = leader_term[i]
  BY <1>1 DEF Answers, ToAppendReply, Active, AppendEntriesReply
<1>3. m.replied_to # NoRequest
  BY <1>2, NoRequestIsNone
<1>4. ProgressAt(i)
  BY <1>1 DEF NodeInv, NodeOK
<1>5. p \in Peers(i)
  BY <1>1, <1>2, <1>3, <1>4 DEF ProgressAt, Peers
<1>6. matched_index(m.replied_to) <= Len(log[i])
  BY <1>2, <1>3, <1>4, <1>5 DEF ProgressAt, Tracks
<1>7. matched_index(m.replied_to) \in Nat
  BY SMTT(30), <1>2, LenProperties DEF AppendEntries, matched_index
<1> QED
  BY <1>1, <1>2, <1>5, <1>6, <1>7

\* A leader keeps leading, with what it now knows of its peers, and sends.
LEMMA LeaderSends ==
  ASSUME TypeOK, TypeOK', ElectionInv, NodeInv, NEW i \in Server, leader_term[i] # 0,
         UNCHANGED <<metadata, election, known_leader, stopped, leader_term>>,
         NEW ps \in [Server -> PeerState], NEW S \in SUBSET Peers(i),
         ps[i].pending = NoRequest,
         \A p \in Peers(i) : Tracks(i, p, leader_term[i], log'[i], ps[p]),
         \A p \in Peers(i) : ps[p].pending # NoRequest => ps[p].pending \in msgs,
         NEW rounds, Sends(i, ps, S, rounds),
         Frame(i), CommitAt(i)', ReadAt(i)', ReadsStep(i)
  PROVE  /\ NodeInv' /\ SentStep(i) /\ Calm
         /\ \A p \in Peers(i) : peers'[i][p].match_index = ps[p].match_index
<1>1. leader_term'[i] # 0 /\ \A p \in Peers(i) : Tracks(i, p, leader_term'[i], log'[i], ps[p])
  OBVIOUS
<1>2. /\ ProgressAt(i)' /\ Calm /\ msgs \subseteq msgs'
      /\ \A m \in msgs' : m.kind = "AppendEntries" => m \in msgs \/ NewRequest(i, m)
      /\ \A p \in Peers(i) : peers'[i][p].match_index = ps[p].match_index
  BY <1>1, SendsRequests
<1> QED
  BY <1>2, LeadNode

\* A refusal: the leader goes back one entry for this peer.
LEMMA FailedNode ==
  ASSUME TypeOK, TypeOK', ElectionInv, NodeInv, NEW m \in msgs, append_reply_failed(m.to, m)
  PROVE  NodeInv' /\ StepOf(m.to)
<1> DEFINE i == m.to
           p == m.from
           moved == [peers[i] EXCEPT ![p].next_index = @ - 1, ![p].pending = NoRequest]
           bad == \/ peers[i][p].next_index <= peers[i][p].match_index + 1
                  \/ ~CanQueue(log[i], commit_index[i], moved, {p})
<1> USE DEF metadata, election
<1>1. /\ i \in Server /\ p \in Peers(i) /\ leader_term[i] # 0
  BY AnswerFacts DEF append_reply_failed
<1>2. UNCHANGED <<metadata, log, election, commit_index, applied, next_read_id>>
  BY DEF append_reply_failed
<1>3. CASE bad
  <2>1. /\ stop(i, "InconsistentState") /\ UNCHANGED msgs /\ "InconsistentState" \in Errors
    BY <1>3 DEF append_reply_failed, Errors
  <2>2. current_term'[i] >= current_term[i]
    BY <1>1, <1>2 DEF TypeOK, Term
  <2> QED
    BY <1>1, <1>2, <2>1, <2>2, StopRests
<1>4. CASE ~bad
  <2>1. /\ peers' = [peers EXCEPT ![i] =
              Queued(i, leader_term[i], log[i], commit_index[i], moved, {p})]
        /\ msgs' = msgs \cup Requests(peers'[i], {p})
        /\ UNCHANGED <<leader_term, read_rounds, known_leader, stopped>>
    BY <1>4 DEF append_reply_failed
  <2>2. Frame(i)
    BY SMTT(60), <1>2, <2>1 DEF Frame, TypeOK
  <2>3. /\ peers[i] \in [Server -> PeerState] /\ p \in Server /\ i # p
        /\ ~(peers[i][p].next_index <= peers[i][p].match_index + 1)
        /\ peers[i][p].next_index \in Nat /\ peers[i][p].match_index \in Nat
    BY ZenonT(60), <1>1, <1>4 DEF TypeOK, Peers, PeerState
  <2>4. /\ \A q \in Peers(i) : Tracks(i, q, leader_term[i], log[i], peers[i][q])
        /\ \A q \in Peers(i) : peers[i][q].pending # NoRequest => peers[i][q].pending \in msgs
        /\ peers[i][i].pending = NoRequest
    BY <1>1, LeaderFacts
  <2>5. /\ moved[p].next_index = peers[i][p].next_index - 1 /\ moved[p].pending = NoRequest
        /\ moved[p].match_index = peers[i][p].match_index
        /\ \A q \in Server : q # p => moved[q] = peers[i][q]
        /\ moved \in [Server -> PeerState]
    BY SMTT(30), <2>3 DEF PeerState
  <2> HIDE DEF moved, i, p
  <2>6. \A q \in Peers(i) : moved[q].match_index = peers[i][q].match_index
    BY <2>5 DEF Peers
  <2>7. Tracks(i, p, leader_term[i], log[i], moved[p])
    <3>1. Len(log[i]) \in Nat
      BY <1>1, LenProperties DEF TypeOK
    <3> QED
      BY <1>1, <2>3, <2>4, <2>5, <3>1 DEF Tracks
  <2>8. \A q \in Peers(i) : Tracks(i, q, leader_term[i], log'[i], moved[q])
    BY <1>2, <2>4, <2>5, <2>7 DEF Peers
  <2>9. /\ \A q \in Peers(i) : moved[q].pending # NoRequest => moved[q].pending \in msgs
        /\ moved[i].pending = NoRequest
    BY <1>1, <2>3, <2>4, <2>5 DEF Peers
  <2>10. Sends(i, moved, {p}, {}) /\ {p} \in SUBSET Peers(i)
    <3>1. Probes(i, leader_term'[i], {}) = {}
      BY DEF Probes
    <3> QED
      BY <1>1, <1>2, <2>1, <3>1 DEF Sends
  <2>11. CommitAt(i)' /\ ReadAt(i)' /\ ReadsStep(i)
    BY <1>1, <1>2, <2>1, CommitStays, SameReads DEF Live
  <2>12. /\ NodeInv' /\ SentStep(i) /\ Calm
         /\ \A q \in Peers(i) : peers'[i][q].match_index = moved[q].match_index
    <3>1. UNCHANGED <<metadata, election, known_leader, stopped, leader_term>>
      BY <1>2, <2>1
    <3> QED
      BY ONLY <1>1, <2>2, <2>5, <2>8, <2>9, <2>10, <2>11, <3>1, LeaderSends,
              TypeOK, TypeOK', ElectionInv, NodeInv
  <2>13. Rests(i)
    BY <1>2, <2>1, <2>6, <2>12 DEF Rests, Live, MatchStep
  <2> QED
    BY <2>2, <2>12, <2>13 DEF StepOf, i
<1> QED
  BY <1>3, <1>4

\* What a recorded success tells of the peers.
LEMMA AcknowledgedTracks ==
  ASSUME TypeOK, ElectionInv, NodeInv, NEW m \in msgs, Answers(m.to, m), m.success
  PROVE  /\ Acknowledged(m.to, m) \in [Server -> PeerState]
         /\ Acknowledged(m.to, m)[m.to].pending = NoRequest
         /\ \A q \in Peers(m.to) :
              /\ Tracks(m.to, q, leader_term[m.to], log[m.to], Acknowledged(m.to, m)[q])
              /\ Acknowledged(m.to, m)[q].pending # NoRequest =>
                   Acknowledged(m.to, m)[q].pending \in msgs
              /\ \/ Acknowledged(m.to, m)[q].match_index = peers[m.to][q].match_index
                 \/ Replied(q, leader_term[m.to], Acknowledged(m.to, m)[q].match_index)
<1> DEFINE i == m.to
           p == m.from
           a == Acknowledged(m.to, m)
           match == IF matched_index(m.replied_to) > peers[i][p].match_index
                      THEN matched_index(m.replied_to) ELSE peers[i][p].match_index
<1>1. /\ i \in Server /\ p \in Peers(i) /\ leader_term[i] # 0
      /\ m.kind = "AppendEntriesReply" /\ m.term = leader_term[i]
      /\ matched_index(m.replied_to) \in Nat /\ matched_index(m.replied_to) <= Len(log[i])
  BY AnswerFacts
<1>2. /\ \A q \in Peers(i) : Tracks(i, q, leader_term[i], log[i], peers[i][q])
      /\ \A q \in Peers(i) : peers[i][q].pending # NoRequest => peers[i][q].pending \in msgs
      /\ peers[i][i].pending = NoRequest
  BY <1>1, LeaderFacts
<1>3. /\ peers[i] \in [Server -> PeerState] /\ p \in Server /\ i # p
      /\ peers[i][p].match_index \in Nat /\ peers[i][p].next_index \in Nat
  BY SMTT(60), <1>1 DEF TypeOK, Peers, PeerState
<1>4. Len(log[i]) \in Nat
  BY <1>1, LenProperties DEF TypeOK
<1>5. a \in [Server -> PeerState]
  BY AcknowledgedType
<1>6. a = [peers[i] EXCEPT ![p] = [next_index |-> match + 1, match_index |-> match,
                                   pending |-> NoRequest]]
  BY DEF Acknowledged
<1>7. match \in Nat /\ match <= Len(log[i])
  BY <1>1, <1>2, <1>3, <1>4 DEF Tracks
<1>8. match = peers[i][p].match_index \/ Replied(p, leader_term[i], match)
  <2>1. CASE matched_index(m.replied_to) > peers[i][p].match_index
    <3>1. match = matched_index(m.replied_to) /\ matched_index(m.replied_to) >= match
      BY <1>1, <2>1
    <3> QED
      BY <1>1, <3>1 DEF Replied, Success
  <2>2. CASE ~(matched_index(m.replied_to) > peers[i][p].match_index)
    BY <2>2
  <2> QED
    BY <2>1, <2>2
<1> HIDE DEF match, a, i, p
<1>9. /\ a[p].next_index = match + 1 /\ a[p].match_index = match /\ a[p].pending = NoRequest
      /\ \A q \in Server : q # p => a[q] = peers[i][q]
  BY <1>3, <1>6
<1>10. Tracks(i, p, leader_term[i], log[i], a[p])
  BY <1>4, <1>7, <1>9 DEF Tracks
<1>11. \A q \in Peers(i) : q \in Server
  BY DEF Peers
<1>12. a[i].pending = NoRequest
  BY <1>1, <1>2, <1>3, <1>9
<1>13. ASSUME NEW q \in Peers(i)
       PROVE  /\ Tracks(i, q, leader_term[i], log[i], a[q])
              /\ a[q].pending # NoRequest => a[q].pending \in msgs
              /\ \/ a[q].match_index = peers[i][q].match_index
                 \/ Replied(q, leader_term[i], a[q].match_index)
  <2>1. CASE q = p
    BY <1>8, <1>9, <1>10, <2>1
  <2>2. CASE q # p
    BY <1>2, <1>9, <1>11, <2>2
  <2> QED
    BY <2>1, <2>2
<1> QED
  BY <1>5, <1>12, <1>13 DEF a, i

\* A success that commits nothing new.
LEMMA RecordedNode ==
  ASSUME TypeOK, TypeOK', ElectionInv, NodeInv, NEW m \in msgs, append_reply_recorded(m.to, m)
  PROVE  NodeInv' /\ StepOf(m.to)
<1> DEFINE i == m.to
           p == m.from
           a == Acknowledged(m.to, m)
           done == a[p].next_index > last_index(log[i])
           ok == CanQueue(log[i], commit_index[i], a, {p})
<1> USE DEF metadata, election
<1>1. /\ i \in Server /\ p \in Peers(i) /\ leader_term[i] # 0 /\ Answers(i, m) /\ m.success
  BY AnswerFacts DEF append_reply_recorded
<1>2. UNCHANGED <<metadata, log, election, commit_index, applied, next_read_id>>
  BY DEF append_reply_recorded
<1>3. /\ a \in [Server -> PeerState] /\ a[i].pending = NoRequest
      /\ \A q \in Peers(i) :
           /\ Tracks(i, q, leader_term[i], log[i], a[q])
           /\ a[q].pending # NoRequest => a[q].pending \in msgs
           /\ \/ a[q].match_index = peers[i][q].match_index
              \/ Replied(q, leader_term[i], a[q].match_index)
  BY <1>1, AcknowledgedTracks
<1>4. CASE done \/ ok
  <2>1. PICK S \in SUBSET Peers(i) :
          peers' = [peers EXCEPT ![i] =
                      Queued(i, leader_term[i], log[i], commit_index[i], a, S)]
          /\ msgs' = msgs \cup Requests(peers'[i], S)
    <3>1. CASE done
      <4>1. peers' = [peers EXCEPT ![i] = a] /\ msgs' = msgs
        BY <3>1 DEF append_reply_recorded
      <4>2. Queued(i, leader_term[i], log[i], commit_index[i], a, {}) = a
        BY <1>3 DEF Queued
      <4>3. Requests(peers'[i], {}) = {}
        BY DEF Requests
      <4> QED
        BY <4>1, <4>2, <4>3, {} \in SUBSET Peers(i)
    <3>2. CASE ok /\ ~done
      <4>1. /\ peers' = [peers EXCEPT ![i] =
                 Queued(i, leader_term[i], log[i], commit_index[i], a, {p})]
            /\ msgs' = msgs \cup Requests(peers'[i], {p})
        BY <3>2 DEF append_reply_recorded
      <4> QED
        BY <1>1, <4>1, {p} \in SUBSET Peers(i)
    <3> QED
      BY <1>4, <3>1, <3>2
  <2>2. UNCHANGED <<leader_term, read_rounds, known_leader, stopped>>
    BY <1>4 DEF append_reply_recorded
  <2> HIDE DEF a, i, p
  <2>3. Frame(i)
    BY <1>2, <2>1, <2>2 DEF Frame, TypeOK
  <2>4. Sends(i, a, S, {})
    <3>1. Probes(i, leader_term'[i], {}) = {}
      BY DEF Probes
    <3> QED
      BY <1>2, <2>1, <2>2, <3>1 DEF Sends
  <2>5. CommitAt(i)' /\ ReadAt(i)' /\ ReadsStep(i)
    BY <1>1, <1>2, <2>2, CommitStays, SameReads DEF Live
  <2>6. /\ NodeInv' /\ SentStep(i) /\ Calm
        /\ \A q \in Peers(i) : peers'[i][q].match_index = a[q].match_index
    <3>1. UNCHANGED <<metadata, election, known_leader, stopped, leader_term>>
      BY <1>2, <2>2
    <3>2. \A q \in Peers(i) : Tracks(i, q, leader_term[i], log'[i], a[q])
      BY <1>2, <1>3
    <3>3. \A q \in Peers(i) : a[q].pending # NoRequest => a[q].pending \in msgs
      BY <1>3
    <3>4. a \in [Server -> PeerState] /\ a[i].pending = NoRequest
      BY <1>3
    <3> QED
      BY ONLY <1>1, <2>1, <2>3, <2>4, <2>5, <3>1, <3>2, <3>3, <3>4, LeaderSends,
              TypeOK, TypeOK', ElectionInv, NodeInv
  <2>7. Rests(i)
    BY <1>2, <1>3, <2>2, <2>6 DEF Rests, Live, MatchStep
  <2> QED
    BY <2>3, <2>6, <2>7 DEF StepOf, i
<1>5. CASE ~done /\ ~ok
  <2>1. /\ stop(i, "InconsistentState") /\ UNCHANGED msgs /\ "InconsistentState" \in Errors
    BY <1>5 DEF append_reply_recorded, Errors
  <2>2. current_term'[i] >= current_term[i]
    BY <1>1, <1>2 DEF TypeOK, Term
  <2> QED
    BY <1>1, <1>2, <2>1, <2>2, StopRests
<1> QED
  BY <1>4, <1>5

\* A started read is one that waited, with its index or the one it now gets.
LEMMA StartedShape ==
  ASSUME NEW rounds \in SUBSET [id : 1..MaxReadId, index : Nat], NEW commit \in Nat,
         NEW r \in StartedRounds(rounds, commit)
  PROVE  \E q \in rounds : /\ q.id = r.id /\ (q.index # 0 => q.index = r.index)
                           /\ r = IF q.index = 0 THEN [q EXCEPT !.index = commit] ELSE q
                           /\ r.index = q.index \/ r.index = commit
<1>1. PICK q \in rounds : r = IF q.index = 0 THEN [q EXCEPT !.index = commit] ELSE q
  BY DEF StartedRounds
<1>2. q \in [id : 1..MaxReadId, index : Nat]
  OBVIOUS
<1>3. q.id = r.id /\ (q.index # 0 => q.index = r.index) /\ (r.index = q.index \/ r.index = commit)
  BY <1>1, <1>2
<1> QED
  BY <1>1, <1>3

\* Waiting reads may be started, and a new one may join, at any commit index.
LEMMA ReadsMove ==
  ASSUME TypeOK, TypeOK', NodeInv, NEW i \in Server, leader_term[i] # 0,
         leader_term'[i] = leader_term[i], commit_index'[i] >= commit_index[i],
         NEW asked,
         \/ asked = read_rounds[i] /\ next_read_id'[i] = next_read_id[i]
         \/ /\ asked = read_rounds[i] \cup {[id |-> next_read_id[i], index |-> 0]}
            /\ next_read_id[i] # 0 /\ next_read_id'[i] = NextReadId(next_read_id[i]),
         read_rounds'[i] \in {asked, StartedRounds(asked, commit_index'[i])}
  PROVE  ReadAt(i)' /\ ReadsStep(i)
<1> DEFINE c == commit_index'[i]
           n == next_read_id[i]
           n2 == next_read_id'[i]
           R == read_rounds[i]
<1>1. c \in Nat /\ commit_index[i] \in Nat /\ n \in 0..MaxReadId /\ n2 \in 0..MaxReadId
      /\ MaxReadId \in Nat /\ R \in SUBSET [id : 1..MaxReadId, index : Nat]
  BY BoundAssumption DEF TypeOK
<1>2. \A r \in R : /\ r.index <= commit_index[i] /\ (n # 0 => r.id < n)
                   /\ \A q \in R : r.id = q.id => r = q
  BY DEF NodeInv, NodeOK, ReadAt
<1>3. n2 = n \/ (n # 0 /\ (n2 = 0 \/ n2 = n + 1))
  BY <1>1 DEF NextReadId
<1>4. asked \in SUBSET [id : 1..MaxReadId, index : Nat]
  BY <1>1
<1>5. \A r \in asked : \/ r \in R
                       \/ /\ r = [id |-> n, index |-> 0] /\ n # 0 /\ n2 = NextReadId(n)
                          /\ (n2 # 0 => n2 = n + 1)
  <2>1. CASE asked = R /\ n2 = n
    BY <2>1
  <2>2. CASE asked = R \cup {[id |-> n, index |-> 0]} /\ n # 0 /\ n2 = NextReadId(n)
    <3>1. n2 # 0 => n2 = n + 1
      BY <1>1, <2>2 DEF NextReadId
    <3> QED
      BY <2>2, <3>1
  <2> QED
    BY <2>1, <2>2
<1> HIDE DEF c, n, n2, R
<1>6. \A r \in asked : /\ r.index <= c /\ (n2 # 0 => r.id < n2)
                       /\ \A q \in asked : r.id = q.id => r = q
  <2> SUFFICES ASSUME NEW r \in asked
               PROVE  /\ r.index <= c /\ (n2 # 0 => r.id < n2)
                      /\ \A q \in asked : r.id = q.id => r = q
    OBVIOUS
  <2>1. r.id \in Nat /\ r.index \in Nat /\ commit_index[i] <= c
    BY <1>1, <1>4 DEF c
  <2>2. CASE r \in R
    <3>1. r.index <= c
      BY <1>1, <1>2, <2>1, <2>2
    <3>2. n2 # 0 => r.id < n2
      BY <1>1, <1>2, <1>3, <2>1, <2>2
    <3>3. n # 0 => r.id # n
      BY <1>1, <1>2, <2>1, <2>2
    <3> QED
      BY <1>2, <1>5, <2>2, <3>1, <3>2, <3>3
  <2>3. CASE r = [id |-> n, index |-> 0] /\ n # 0 /\ (n2 # 0 => n2 = n + 1)
    <3>1. r.index <= c /\ (n2 # 0 => r.id < n2)
      BY <1>1, <2>3
    <3>2. ASSUME NEW q \in asked, q.id = r.id PROVE q = r
      <4>1. q \notin R
        <5>1. q \in R => q.id < n /\ q.id \in Nat
          BY <1>1, <1>2, <2>3
        <5> QED
          BY <1>1, <2>3, <3>2, <5>1
      <4> QED
        BY <1>5, <2>3, <4>1
    <3> QED
      BY <3>1, <3>2
  <2> QED
    BY <1>5, <2>2, <2>3
<1>7. CASE read_rounds'[i] = asked
  <2>1. ReadAt(i)'
    BY <1>6, <1>7 DEF ReadAt, c, n2
  <2>2. \A r \in read_rounds'[i] :
       \/ \E q \in R : q.id = r.id /\ (q.index # 0 => q.index = r.index)
       \/ r.id = n /\ n # 0 /\ n2 = NextReadId(n)
    BY <1>5, <1>7
  <2> QED
    BY <2>1, <2>2 DEF ReadsStep, n, n2, R
<1>8. CASE read_rounds'[i] = StartedRounds(asked, c)
  <2>1. ASSUME NEW r \in read_rounds'[i]
        PROVE  \E q \in asked :
                 /\ q.id = r.id /\ (q.index # 0 => q.index = r.index)
                 /\ r = IF q.index = 0 THEN [q EXCEPT !.index = c] ELSE q
                 /\ r.index = q.index \/ r.index = c
    <3>1. r \in StartedRounds(asked, c)
      BY <1>8, <2>1
    <3> QED
      BY ONLY <1>1, <1>4, <3>1, StartedShape
  <2>2. \A r \in read_rounds'[i] :
       /\ r.index <= c /\ (n2 # 0 => r.id < n2)
       /\ \A q \in read_rounds'[i] : r.id = q.id => r = q
    <3> SUFFICES ASSUME NEW r \in read_rounds'[i]
                 PROVE /\ r.index <= c /\ (n2 # 0 => r.id < n2)
                       /\ \A q \in read_rounds'[i] : r.id = q.id => r = q
      OBVIOUS
    <3>1. PICK x \in asked :
            /\ x.id = r.id
            /\ r = IF x.index = 0 THEN [x EXCEPT !.index = c] ELSE x
            /\ r.index = x.index \/ r.index = c
      BY <2>1
    <3>2. ASSUME NEW q \in read_rounds'[i], r.id = q.id PROVE r = q
      <4>1. PICK y \in asked :
              /\ y.id = q.id
              /\ q = IF y.index = 0 THEN [y EXCEPT !.index = c] ELSE y
        BY <2>1
      <4>2. x = y
        BY <1>6, <3>1, <3>2, <4>1
      <4> QED
        BY <3>1, <4>1, <4>2
    <3>3. r.index <= c
      BY <1>1, <1>6, <3>1
    <3>4. n2 # 0 => r.id < n2
      BY <1>6, <3>1
    <3> QED
      BY <3>2, <3>3, <3>4
  <2>3. ReadAt(i)'
    BY <2>2 DEF ReadAt, c, n2
  <2>4. \A r \in read_rounds'[i] :
       \/ \E q \in R : q.id = r.id /\ (q.index # 0 => q.index = r.index)
       \/ r.id = n /\ n # 0 /\ n2 = NextReadId(n)
    <3> SUFFICES ASSUME NEW r \in read_rounds'[i]
                 PROVE \/ \E q \in R : q.id = r.id /\ (q.index # 0 => q.index = r.index)
                       \/ r.id = n /\ n # 0 /\ n2 = NextReadId(n)
      OBVIOUS
    <3>1. PICK x \in asked : x.id = r.id /\ (x.index # 0 => x.index = r.index)
      BY <2>1
    <3> QED
      BY <1>5, <3>1
  <2> QED
    BY <2>3, <2>4 DEF ReadsStep, n, n2, R
<1> QED
  BY <1>7, <1>8 DEF c

\* A success that lets the leader advance its commit index.
LEMMA CommittedNode ==
  ASSUME TypeOK, TypeOK', ElectionInv, NodeInv, NEW m \in msgs, append_reply_committed(m.to, m)
  PROVE  NodeInv' /\ StepOf(m.to)
<1> DEFINE i == m.to
           a == Acknowledged(m.to, m)
<1> USE DEF metadata, election
<1>1. /\ i \in Server /\ leader_term[i] # 0 /\ Answers(i, m) /\ m.success
  BY AnswerFacts DEF append_reply_committed
<1>2. UNCHANGED <<metadata, log, election, next_read_id>>
  BY DEF append_reply_committed
<1>3. /\ a \in [Server -> PeerState] /\ a[i].pending = NoRequest
      /\ \A q \in Peers(i) :
           /\ Tracks(i, q, leader_term[i], log[i], a[q])
           /\ a[q].pending # NoRequest => a[q].pending \in msgs
           /\ \/ a[q].match_index = peers[i][q].match_index
              \/ Replied(q, leader_term[i], a[q].match_index)
  BY <1>1, AcknowledgedTracks
<1>4. PICK commit \in NewCommits(i, m) :
        /\ commit_index' = [commit_index EXCEPT ![i] = commit]
        /\ IF \/ ~CanApply(log[i], applied[i], commit)
              \/ ~CanQueue(log[i], commit, a, Peers(i))
             THEN stop(i, "InconsistentState") /\ UNCHANGED <<applied, msgs>>
             ELSE /\ applied' = [applied EXCEPT ![i] = apply_committed(log[i], @, commit)]
                  /\ peers' = [peers EXCEPT ![i] =
                       Queued(i, leader_term[i], log[i], commit, a, Peers(i))]
                  /\ IF current_term_committed(log[i], applied'[i], commit, current_term[i])
                       THEN /\ read_rounds' = [read_rounds EXCEPT ![i] =
                                 StartedRounds(@, commit)]
                            /\ msgs' = msgs \cup Requests(peers'[i], Peers(i))
                                 \cup Probes(i, leader_term[i],
                                             NewlyStarted(read_rounds[i], commit))
                       ELSE /\ msgs' = msgs \cup Requests(peers'[i], Peers(i))
                            /\ UNCHANGED read_rounds
                  /\ UNCHANGED <<leader_term, known_leader, stopped>>
  BY DEF append_reply_committed
<1>5. /\ log[i] \in Seq(Entry) /\ commit_index[i] \in Nat /\ applied[i] \in Seq(Entry)
      /\ Len(applied[i]) = commit_index[i] /\ commit_index[i] <= Len(log[i])
      /\ CommitAt(i) /\ Live(i) /\ Len(log[i]) \in Nat /\ Peers(i) \in SUBSET Peers(i)
  BY <1>1, LeaderFacts, LenProperties
<1>6. /\ commit \in (commit_index[i] + 1)..Len(log[i])
      /\ log[i][commit].term = leader_term[i]
      /\ \E q \in Peers(i) : a[q].match_index >= commit
  <2>1. \E q \in Peers(i) : [p \in Server |-> a[p].match_index][q] >= commit
    BY <1>4 DEF NewCommits, Committable
  <2>2. \A q \in Peers(i) : [p \in Server |-> a[p].match_index][q] = a[q].match_index
    BY DEF Peers
  <2> QED
    BY <1>4, <2>1, <2>2 DEF NewCommits, Committable
<1>7. commit \in Nat /\ commit_index[i] <= commit /\ commit <= Len(log[i])
  BY <1>5, <1>6
<1> HIDE DEF a, i
<1>8. CanApply(log[i], applied[i], commit) /\ CanQueue(log[i], commit, a, Peers(i))
  <2>1. CanApply(log[i], applied[i], commit)
    BY <1>5, <1>7 DEF CanApply
  <2>2. \A q \in Peers(i) : Tracks(i, q, leader_term[i], log[i], a[q])
    BY <1>3
  <2>3. a \in [Server -> PeerState]
    BY <1>3
  <2> QED
    BY ONLY <1>1, <1>5, <1>7, <2>1, <2>2, <2>3, CanAlwaysQueue
<1>9. /\ applied' = [applied EXCEPT ![i] = apply_committed(log[i], applied[i], commit)]
      /\ peers' = [peers EXCEPT ![i] = Queued(i, leader_term[i], log[i], commit, a, Peers(i))]
      /\ UNCHANGED <<leader_term, known_leader, stopped>>
  BY <1>4, <1>8
<1>10. \/ /\ read_rounds' = [read_rounds EXCEPT ![i] = StartedRounds(read_rounds[i], commit)]
          /\ msgs' = msgs \cup Requests(peers'[i], Peers(i))
                         \cup Probes(i, leader_term[i], NewlyStarted(read_rounds[i], commit))
       \/ UNCHANGED read_rounds /\ msgs' = msgs \cup Requests(peers'[i], Peers(i))
  BY <1>4, <1>8
<1>11. Frame(i)
  BY <1>2, <1>4, <1>9, <1>10 DEF Frame, TypeOK
<1>12. /\ commit_index'[i] = commit
       /\ applied'[i] = apply_committed(log[i], applied[i], commit)
       /\ log'[i] = log[i] /\ leader_term'[i] = leader_term[i]
       /\ read_rounds'[i] \in {read_rounds[i], StartedRounds(read_rounds[i], commit)}
  BY <1>1, <1>2, <1>4, <1>9, <1>10 DEF TypeOK
<1>13. CommitAt(i)'
  <2>1. Pfx(applied[i], log[i], Len(applied[i]))
    BY <1>5 DEF CommitAt
  <2>2. /\ Len(apply_committed(log[i], applied[i], commit)) = commit
        /\ Pfx(apply_committed(log[i], applied[i], commit), log[i], commit)
    BY ONLY <1>5, <1>7, <1>8, <2>1, ApplyPrefix
  <2> QED
    BY <1>12, <2>2 DEF CommitAt
<1>14. ReadAt(i)' /\ ReadsStep(i)
  <2>1. next_read_id'[i] = next_read_id[i] /\ commit_index'[i] >= commit_index[i]
    BY <1>2, <1>5, <1>7, <1>12
  <2> QED
    BY <1>1, <1>12, <2>1, ReadsMove
<1>15. PICK rounds : Sends(i, a, Peers(i), rounds)
  <2>1. Probes(i, leader_term'[i], {}) = {}
    BY DEF Probes
  <2>2. peers' = [peers EXCEPT ![i] =
                    Queued(i, leader_term'[i], log'[i], commit_index'[i], a, Peers(i))]
    BY <1>9, <1>12
  <2>3. CASE msgs' = msgs \cup Requests(peers'[i], Peers(i))
    <3>1. Sends(i, a, Peers(i), {})
      BY <2>1, <2>2, <2>3 DEF Sends
    <3> QED
      BY <3>1
  <2>4. CASE /\ read_rounds' = [read_rounds EXCEPT ![i] = StartedRounds(read_rounds[i], commit)]
             /\ msgs' = msgs \cup Requests(peers'[i], Peers(i))
                         \cup Probes(i, leader_term[i], NewlyStarted(read_rounds[i], commit))
    <3>1. read_rounds'[i] = StartedRounds(read_rounds[i], commit)
      BY <1>1, <2>4 DEF TypeOK
    <3>2. NewlyStarted(read_rounds[i], commit) \subseteq read_rounds'[i]
      BY <3>1 DEF NewlyStarted
    <3> QED
      BY <1>12, <2>2, <2>4, <3>2 DEF Sends
  <2> QED
    BY <1>10, <2>3, <2>4
<1>16. /\ NodeInv' /\ SentStep(i) /\ Calm
       /\ \A q \in Peers(i) : peers'[i][q].match_index = a[q].match_index
  <2>1. UNCHANGED <<metadata, election, known_leader, stopped, leader_term>>
    BY <1>2, <1>9
  <2>2. \A q \in Peers(i) : Tracks(i, q, leader_term[i], log'[i], a[q])
    BY <1>2, <1>3
  <2>3. \A q \in Peers(i) : a[q].pending # NoRequest => a[q].pending \in msgs
    BY <1>3
  <2>4. a \in [Server -> PeerState] /\ a[i].pending = NoRequest
    BY <1>3
  <2> QED
    BY ONLY <1>1, <1>5, <1>11, <1>13, <1>14, <1>15, <2>1, <2>2, <2>3, <2>4, LeaderSends,
            TypeOK, TypeOK', ElectionInv, NodeInv
<1>17. Commits(i)
  <2>1. MatchStep(i)
    BY <1>3, <1>12, <1>16 DEF MatchStep
  <2>2. \E q \in Peers(i) : peers'[i][q].match_index >= commit_index'[i]
    BY <1>6, <1>12, <1>16
  <2> QED
    BY <1>1, <1>2, <1>6, <1>12, <1>16, <2>1, <2>2 DEF Commits
<1> QED
  BY <1>11, <1>16, <1>17 DEF StepOf, i

\* A read that is handed to the caller.
LEMMA ReadyReadNode ==
  ASSUME TypeOK, TypeOK', ElectionInv, NodeInv, NEW m \in msgs, append_reply_ready_read(m.to, m)
  PROVE  NodeInv' /\ StepOf(m.to)
<1> DEFINE i == m.to
<1> USE DEF metadata, election
<1>1. i \in Server /\ leader_term[i] # 0
  BY MessageKinds DEF TypeOK, append_reply_ready_read
<1>2. UNCHANGED <<metadata, log, election, commit_index, applied, next_read_id, msgs>>
  BY DEF append_reply_ready_read
<1>3. PICK r \in read_rounds[i] :
         IF Len(applied[i]) < r.index
            THEN stop(i, "InconsistentState")
            ELSE /\ read_rounds' = [read_rounds EXCEPT ![i] = @ \ {r}]
                 /\ UNCHANGED <<leader_term, peers, known_leader, stopped>>
  BY DEF append_reply_ready_read
<1>4. CASE Len(applied[i]) < r.index
  <2>1. /\ stop(i, "InconsistentState") /\ "InconsistentState" \in Errors
    BY <1>3, <1>4 DEF Errors
  <2>2. current_term'[i] >= current_term[i]
    BY <1>1, <1>2 DEF TypeOK, Term
  <2> QED
    BY <1>1, <1>2, <2>1, <2>2, StopRests
<1>5. CASE ~(Len(applied[i]) < r.index)
  <2>1. /\ read_rounds' = [read_rounds EXCEPT ![i] = @ \ {r}]
        /\ UNCHANGED <<leader_term, peers, known_leader, stopped>>
    BY <1>3, <1>5
  <2> HIDE DEF i
  <2>2. Frame(i) /\ read_rounds'[i] = read_rounds[i] \ {r}
    BY <1>1, <1>2, <2>1 DEF Frame, TypeOK
  <2>3. CommitAt(i)'
    BY <1>1, <1>2, <2>1, CommitStays DEF Live
  <2>4. /\ ReadAt(i) /\ ProgressAt(i)
    BY <1>1 DEF NodeInv, NodeOK
  <2>5. ReadAt(i)'
    BY <1>1, <1>2, <2>1, <2>2, <2>4 DEF ReadAt
  <2>6. ReadsStep(i)
    BY <1>2, <2>1, <2>2 DEF ReadsStep
  <2>7. ProgressAt(i)'
    BY <1>2, <2>1, <2>4 DEF ProgressAt
  <2>8. NodeInv' /\ SentStep(i)
    BY <1>1, <1>2, <2>1, <2>2, <2>3, <2>5, <2>6, <2>7, LeadNode
  <2>9. Rests(i)
    BY <1>2, <2>1 DEF Rests, Live, Calm, MatchStep
  <2> QED
    BY <2>2, <2>8, <2>9 DEF StepOf, i
<1> QED
  BY <1>4, <1>5

\* A command is appended to the leader's log and sent.
LEMMA ProposeNode ==
  ASSUME TypeOK, TypeOK', ElectionInv, NodeInv, NEW i \in Server, NEW command \in Command,
         propose(i, command)
  PROVE  NodeInv' /\ StepOf(i)
<1> DEFINE e == [term |-> leader_term[i], command |-> command]
           grown == Append(log[i], e)
<1> USE DEF metadata, election
<1>1. leader_term[i] # 0
  BY DEF propose, Active
<1>2. UNCHANGED <<metadata, election, commit_index, applied, next_read_id>>
  BY DEF propose
<1>3. CASE last_index(log[i]) >= MaxIndex
  <2>1. /\ stop(i, "InconsistentState") /\ UNCHANGED <<log, msgs>> /\ "InconsistentState" \in Errors
    BY <1>3 DEF propose, Errors
  <2>2. current_term'[i] >= current_term[i]
    BY <1>2 DEF TypeOK, Term
  <2> QED
    BY <1>2, <2>1, <2>2, StopRests
<1>4. CASE ~(last_index(log[i]) >= MaxIndex)
  <2>1. /\ log' = [log EXCEPT ![i] = grown]
        /\ CanQueue(grown, commit_index[i], peers[i], Peers(i)) =>
             /\ peers' = [peers EXCEPT ![i] =
                  Queued(i, leader_term[i], grown, commit_index[i], peers[i], Peers(i))]
             /\ msgs' = msgs \cup Requests(peers'[i], Peers(i))
             /\ UNCHANGED <<leader_term, read_rounds, known_leader, stopped>>
    BY <1>4 DEF propose
  <2>2. /\ log[i] \in Seq(Entry) /\ commit_index[i] \in Nat /\ peers[i] \in [Server -> PeerState]
        /\ Peers(i) \in SUBSET Peers(i) /\ commit_index[i] <= Len(log[i])
        /\ leader_term[i] \in Term /\ current_term[i] = leader_term[i]
        /\ peers[i][i].pending = NoRequest
        /\ \A p \in Peers(i) : Tracks(i, p, leader_term[i], log[i], peers[i][p])
        /\ \A p \in Peers(i) : peers[i][p].pending # NoRequest => peers[i][p].pending \in msgs
    BY <1>1, LeaderFacts
  <2>3. e \in Entry /\ e.term = leader_term[i]
    BY <1>1, <2>2 DEF Entry, Term
  <2> HIDE DEF e
  <2>4. /\ grown \in Seq(Entry) /\ Len(log[i]) \in Nat /\ Len(grown) = Len(log[i]) + 1
        /\ commit_index[i] <= Len(grown)
    <3>1. grown \in Seq(Entry) /\ Len(log[i]) \in Nat /\ Len(grown) = Len(log[i]) + 1
      BY <2>2, <2>3, AppendProperties, LenProperties
    <3> QED
      BY <2>2, <3>1
  <2>5. \A p \in Peers(i) : Tracks(i, p, leader_term[i], grown, peers[i][p])
    <3>1. \A p \in Peers(i) : peers[i][p] \in PeerState
      BY <2>2 DEF Peers
    <3> QED
      BY <2>2, <2>3, <3>1, TracksGrown
  <2> HIDE DEF grown
  <2>6. CanQueue(grown, commit_index[i], peers[i], Peers(i))
    BY ONLY <2>2, <2>4, <2>5, CanAlwaysQueue, i \in Server
  <2>7. log'[i] = grown
    BY <2>1 DEF TypeOK
  <2>8. Frame(i)
    BY <1>2, <2>1, <2>6 DEF Frame, TypeOK
  <2>9. Sends(i, peers[i], Peers(i), {})
    <3>1. Probes(i, leader_term'[i], {}) = {}
      BY DEF Probes
    <3> QED
      BY <1>2, <2>1, <2>6, <2>7, <3>1 DEF Sends
  <2>10. CommitAt(i)'
    BY <1>2, <2>1, <2>3, <2>6, <2>7, CommitGrows DEF grown, Live
  <2>11. ReadAt(i)' /\ ReadsStep(i)
    BY <1>2, <2>1, <2>6, SameReads
  <2>12. /\ NodeInv' /\ SentStep(i) /\ Calm
         /\ \A p \in Peers(i) : peers'[i][p].match_index = peers[i][p].match_index
    <3>1. UNCHANGED <<metadata, election, known_leader, stopped, leader_term>>
      BY <1>2, <2>1, <2>6
    <3>2. \A p \in Peers(i) : Tracks(i, p, leader_term[i], log'[i], peers[i][p])
      BY <2>5, <2>7
    <3> QED
      BY ONLY <1>1, <2>2, <2>8, <2>9, <2>10, <2>11, <3>1, <3>2, LeaderSends,
              TypeOK, TypeOK', ElectionInv, NodeInv, i \in Server
  <2>13. Grows(i, e)
    <3>1. ~Standing(i)'
      BY <1>1, <1>2 DEF NodeInv, NodeOK, LeaderAt, Standing
    <3>2. MatchStep(i)
      BY <2>1, <2>6, <2>12 DEF MatchStep
    <3> QED
      BY <1>2, <2>1, <2>2, <2>3, <2>12, <3>1, <3>2 DEF Grows, grown
  <2> QED
    BY <2>3, <2>8, <2>12, <2>13 DEF StepOf
<1> QED
  BY <1>3, <1>4

\* A client asks for a read.
LEMMA ReadBarrierNode ==
  ASSUME TypeOK, TypeOK', ElectionInv, NodeInv, NEW i \in Server, read_barrier(i)
  PROVE  NodeInv' /\ StepOf(i)
<1> DEFINE asked == read_rounds[i] \cup {[id |-> next_read_id[i], index |-> 0]}
           now == current_term_committed(log[i], applied[i], commit_index[i], current_term[i])
<1> USE DEF metadata, election
<1>1. leader_term[i] # 0
  BY DEF read_barrier, Active
<1>2. UNCHANGED <<metadata, log, election, commit_index, applied>>
  BY DEF read_barrier
<1>3. CASE next_read_id[i] = 0
  <2>1. /\ stop(i, "InconsistentState") /\ UNCHANGED <<next_read_id, msgs>>
        /\ "InconsistentState" \in Errors
    BY <1>3 DEF read_barrier, Errors
  <2>2. current_term'[i] >= current_term[i]
    BY <1>2 DEF TypeOK, Term
  <2> QED
    BY <1>2, <2>1, <2>2, StopRests
<1>4. CASE next_read_id[i] # 0
  <2>1. /\ next_read_id' = [next_read_id EXCEPT ![i] = NextReadId(next_read_id[i])]
        /\ UNCHANGED <<leader_term, peers, known_leader, stopped>>
        /\ \/ /\ read_rounds' = [read_rounds EXCEPT ![i] =
                              StartedRounds(asked, commit_index[i])]
              /\ msgs' = msgs \cup Probes(i, leader_term[i], NewlyStarted(asked, commit_index[i]))
           \/ read_rounds' = [read_rounds EXCEPT ![i] = asked] /\ UNCHANGED msgs
    BY <1>4 DEF read_barrier
  <2>2. Frame(i)
    BY <1>2, <2>1 DEF Frame, TypeOK
  <2>3. /\ next_read_id'[i] = NextReadId(next_read_id[i])
        /\ commit_index'[i] = commit_index[i] /\ leader_term'[i] = leader_term[i]
        /\ read_rounds'[i] \in {asked, StartedRounds(asked, commit_index'[i])}
    BY <1>2, <2>1 DEF TypeOK
  <2>4. commit_index'[i] >= commit_index[i]
    BY <2>3 DEF TypeOK
  <2>5. ReadAt(i)' /\ ReadsStep(i)
    BY <1>1, <1>4, <2>3, <2>4, ReadsMove
  <2>6. PICK rounds : /\ rounds \subseteq read_rounds'[i]
                      /\ msgs' = msgs \cup Probes(i, leader_term[i], rounds)
    <3>1. Probes(i, leader_term[i], {}) = {}
      BY DEF Probes
    <3>2. CASE UNCHANGED msgs
      BY <3>1, <3>2
    <3>3. CASE /\ read_rounds' = [read_rounds EXCEPT ![i] =
                                     StartedRounds(asked, commit_index[i])]
               /\ msgs' = msgs \cup Probes(i, leader_term[i],
                                          NewlyStarted(asked, commit_index[i]))
      <4>1. read_rounds'[i] = StartedRounds(asked, commit_index[i])
        BY <3>3 DEF TypeOK
      <4>2. NewlyStarted(asked, commit_index[i]) \subseteq read_rounds'[i]
        BY <4>1 DEF NewlyStarted
      <4> QED
        BY <3>3, <4>2
    <3> QED
      BY <2>1, <3>2, <3>3
  <2>7. /\ peers[i] \in [Server -> PeerState] /\ peers[i][i].pending = NoRequest
        /\ \A p \in Peers(i) : Tracks(i, p, leader_term[i], log[i], peers[i][p])
        /\ \A p \in Peers(i) : peers[i][p].pending # NoRequest => peers[i][p].pending \in msgs
    BY <1>1, LeaderFacts
  <2>8. Sends(i, peers[i], {}, rounds)
    <3>1. Queued(i, leader_term'[i], log'[i], commit_index'[i], peers[i], {}) = peers[i]
      BY <2>7 DEF Queued
    <3>2. Requests(peers'[i], {}) = {}
      BY DEF Requests
    <3>3. peers' = [peers EXCEPT ![i] = peers[i]]
      BY <2>1 DEF TypeOK
    <3> QED
      BY <2>3, <2>6, <3>1, <3>2, <3>3 DEF Sends
  <2>9. CommitAt(i)'
    BY <1>2, <2>1, CommitStays DEF Live
  <2>10. NodeInv' /\ SentStep(i) /\ Calm
    <3>1. UNCHANGED <<metadata, election, known_leader, stopped, leader_term>>
      BY <1>2, <2>1
    <3>2. \A p \in Peers(i) : Tracks(i, p, leader_term[i], log'[i], peers[i][p])
      BY <1>2, <2>7
    <3>3. {} \in SUBSET Peers(i)
      OBVIOUS
    <3> QED
      BY ONLY <1>1, <2>2, <2>5, <2>6, <2>7, <2>8, <2>9, <3>1, <3>2, <3>3, LeaderSends,
              TypeOK, TypeOK', ElectionInv, NodeInv, i \in Server
  <2>11. Rests(i)
    BY <1>2, <2>1, <2>10 DEF Rests, Live, MatchStep
  <2> QED
    BY <2>2, <2>10, <2>11 DEF StepOf
<1> QED
  BY <1>3, <1>4

\* A failed write leaves a stopped node behind, with one of the images on disk.
LEMMA WriteFailsNode ==
  ASSUME TypeOK, TypeOK', NodeInv, NEW i \in Server, NEW term, NEW vote, NEW lg,
         WriteFails(i, term, vote, lg), term >= current_term[i]
  PROVE  /\ NodeInv' /\ Frame(i) /\ SentStep(i) /\ Calm /\ MatchStep(i)
         /\ current_term'[i] = term /\ log' = [log EXCEPT ![i] = lg] /\ log'[i] = lg
         /\ UNCHANGED <<msgs, commit_index, applied>>
         /\ leader_term'[i] = 0 /\ ~Live(i)' /\ ~Standing(i)'
         /\ lg = log[i] => StepOf(i)
<1> USE DEF election
<1>1. /\ stop(i, "PersistenceError") /\ "PersistenceError" \in Errors
      /\ UNCHANGED <<election, commit_index, applied, next_read_id, msgs>>
      /\ log' = [log EXCEPT ![i] = lg] /\ current_term'[i] = term
  BY DEF WriteFails, TypeOK, Errors
<1>2. \A j \in Server : j # i =>
           /\ current_term'[j] = current_term[j] /\ voted_for'[j] = voted_for[j]
           /\ log'[j] = log[j]
  BY DEF WriteFails, TypeOK
<1>3. leader_term'[i] = 0 /\ ~Live(i)' /\ ~Standing(i)'
  BY <1>1 DEF stop, drop_leadership, TypeOK, Live, Standing
<1>4. NodeInv' /\ Frame(i) /\ SentStep(i)
  BY <1>1, <1>2, StopNode
<1>5. Calm /\ MatchStep(i)
  BY <1>1, <1>3 DEF Calm, MatchStep
<1>6. log'[i] = lg
  BY <1>1 DEF TypeOK
<1>7. ASSUME lg = log[i] PROVE StepOf(i)
  <2>1. UNCHANGED log
    BY <1>1, <1>7 DEF TypeOK
  <2>2. Rests(i)
    BY <1>1, <1>3, <1>5, <2>1 DEF Rests
  <2> QED
    BY <1>4, <2>2 DEF StepOf
<1> QED
  BY <1>1, <1>3, <1>4, <1>5, <1>6, <1>7

\* A failed write of a node's own: its new term, or a command.
LEMMA OwnFailureNode ==
  ASSUME TypeOK, TypeOK', ElectionInv, NodeInv, NEW i \in Server,
         \/ election_write_fails(i)
         \/ \E command \in Command : proposal_write_fails(i, command)
  PROVE  NodeInv' /\ StepOf(i)
<1>1. current_term[i] \in Nat
  BY DEF TypeOK, Term
<1>2. CASE election_write_fails(i)
  <2>1. PICK term \in {current_term[i], current_term[i] + 1},
             vote \in {voted_for[i], Nobody, i} :
          WriteFails(i, term, vote, log[i])
    BY <1>2 DEF election_write_fails
  <2>2. term >= current_term[i]
    BY <1>1, <2>1
  <2> QED
    BY <2>1, <2>2, WriteFailsNode
<1>3. ASSUME NEW command \in Command, proposal_write_fails(i, command)
      PROVE  NodeInv' /\ StepOf(i)
  <2> DEFINE e == [term |-> leader_term[i], command |-> command]
  <2>1. PICK lg \in {log[i], Append(log[i], e)} :
          WriteFails(i, current_term[i], voted_for[i], lg)
    BY <1>3 DEF proposal_write_fails
  <2>2. current_term[i] >= current_term[i]
    BY <1>1
  <2>3. /\ leader_term[i] # 0 /\ leader_term[i] = current_term[i] /\ leader_term[i] \in Term
    BY <1>3 DEF proposal_write_fails, Active, TypeOK
  <2>4. e \in Entry /\ e.term = current_term[i]
    BY <2>3 DEF Entry, Term
  <2> HIDE DEF e
  <2>5. /\ NodeInv' /\ Frame(i) /\ SentStep(i) /\ Calm /\ MatchStep(i)
        /\ log' = [log EXCEPT ![i] = lg] /\ UNCHANGED <<msgs, commit_index, applied>>
        /\ ~Standing(i)' /\ (lg = log[i] => StepOf(i))
    BY <2>1, <2>2, WriteFailsNode
  <2>6. UNCHANGED current_term
    BY <2>1 DEF WriteFails, TypeOK
  <2>7. CASE lg = Append(log[i], e)
    <3>1. Grows(i, e)
      BY <2>3, <2>4, <2>5, <2>6, <2>7 DEF Grows
    <3> QED
      BY <2>4, <2>5, <3>1 DEF StepOf
  <2> QED
    BY <2>1, <2>5, <2>7
<1> QED
  BY <1>2, <1>3

\* A failed write on receiving a message: a term, a vote, part of a batch, the no-op.
LEMMA ReceiveFailureNode ==
  ASSUME TypeOK, TypeOK', ElectionInv, NodeInv, NEW m \in msgs,
         \/ term_write_fails(m.to, m) \/ vote_write_fails(m.to, m)
         \/ append_write_fails(m.to, m) \/ noop_write_fails(m.to, m)
  PROVE  NodeInv' /\ StepOf(m.to)
<1> DEFINE i == m.to
<1>1. i \in Server /\ m.term \in Term
  BY MessageKinds DEF TypeOK
<1>2. current_term[i] \in Nat /\ m.term \in Nat
  BY SMTT(30), <1>1 DEF TypeOK, Term
<1>3. CASE term_write_fails(i, m)
  <2>1. PICK term \in {current_term[i], m.term}, vote \in {voted_for[i], Nobody} :
          WriteFails(i, term, vote, log[i])
    BY <1>3 DEF term_write_fails
  <2>2. term >= current_term[i]
    BY <1>2, <1>3, <2>1 DEF term_write_fails
  <2> QED
    BY <1>1, <2>1, <2>2, WriteFailsNode
<1>4. CASE vote_write_fails(i, m)
  <2>1. WriteFails(i, m.term, m.from, log[i]) /\ m.term >= current_term[i]
    BY <1>4 DEF vote_write_fails, Grants
  <2> QED
    BY <1>1, <2>1, WriteFailsNode
<1>5. CASE append_write_fails(i, m)
  <2>1. PICK lg \in PartialLogs(log[i], m), vote \in {voted_for[i], Nobody} :
          WriteFails(i, m.term, vote, lg)
    BY <1>5 DEF append_write_fails
  <2>2. /\ Live(i) /\ m.kind = "AppendEntries" /\ m.term >= current_term[i]
        /\ previous_matches(log[i], m) /\ ~Agrees(log[i], m, Len(m.entries))
    BY <1>5 DEF append_write_fails, ToAppend, MergedLog
  <2>3. /\ NodeInv' /\ Frame(i) /\ SentStep(i)
        /\ current_term'[i] = m.term /\ log'[i] = lg
        /\ UNCHANGED <<msgs, commit_index, applied>>
        /\ leader_term'[i] = 0 /\ ~Live(i)' /\ ~Standing(i)'
    BY <1>1, <2>1, <2>2, WriteFailsNode
  <2>4. Takes(i, m)
    BY <2>1, <2>2, <2>3 DEF Takes
  <2> QED
    BY <2>3, <2>4 DEF StepOf
<1>6. CASE noop_write_fails(i, m)
  <2> DEFINE e == [term |-> current_term[i], command |-> NoOp]
  <2>1. PICK lg \in {log[i], Append(log[i], e)} :
          WriteFails(i, current_term[i], voted_for[i], lg)
    BY <1>6 DEF noop_write_fails
  <2>2. current_term[i] >= current_term[i]
    BY <1>2
  <2>3. /\ current_term[i] # 0 /\ current_term[i] \in Term
        /\ Live(i) /\ role[i] = "Candidate" /\ current_term[i] = election_term[i]
        /\ m.kind = "RequestVoteReply" /\ m.vote_granted /\ m.term = election_term[i]
    BY <1>1, <1>6 DEF noop_write_fails, CannotLead, WinsElection, FreshVoteReply, Role, TypeOK
  <2>4. e \in Entry /\ e.term = current_term[i]
    BY <2>3 DEF Entry, Term
  <2> HIDE DEF e
  <2>5. /\ NodeInv' /\ Frame(i) /\ SentStep(i) /\ Calm /\ leader_term'[i] = 0
        /\ log' = [log EXCEPT ![i] = lg] /\ UNCHANGED <<msgs, commit_index, applied>>
        /\ ~Standing(i)' /\ (lg = log[i] => StepOf(i))
    BY <1>1, <2>1, <2>2, WriteFailsNode
  <2>6. UNCHANGED current_term
    BY <2>1 DEF WriteFails, TypeOK
  <2>7. CASE lg = Append(log[i], e)
    <3>1. Standing(i) /\ election_term[i] = e.term
      BY <2>3, <2>4 DEF Standing
    <3>2. Granted(m) /\ m.to = i /\ m.term = e.term
      BY <2>3, <2>4 DEF Granted
    <3>3. Grows(i, e)
      BY <2>4, <2>5, <2>6, <2>7, <3>1, <3>2 DEF Grows
    <3> QED
      BY <2>4, <2>5, <3>3 DEF StepOf
  <2> QED
    BY <2>1, <2>5, <2>7
<1> QED
  BY <1>3, <1>4, <1>5, <1>6

\* A restart.
LEMMA RestartNode ==
  ASSUME TypeOK, TypeOK', NodeInv, NEW i \in Server, Restart(i)
  PROVE  NodeInv' /\ StepOf(i)
<1> USE DEF metadata
<1>1. /\ leader_term'[i] = 0 /\ read_rounds'[i] = {}
      /\ role'[i] = "Follower" /\ election_term'[i] = 0
      /\ commit_index'[i] = 0 /\ applied'[i] = <<>>
      /\ UNCHANGED <<metadata, log, msgs>>
  BY DEF Restart, become_follower, drop_leadership, TypeOK
<1>2. Frame(i)
  BY DEF Restart, become_follower, drop_leadership, TypeOK, Frame
<1>3. current_term'[i] >= current_term[i]
  BY <1>1 DEF TypeOK, Term
<1>4. CommitAt(i)'
  <2>1. Len(log'[i]) \in Nat /\ Len(applied'[i]) = 0
    BY <1>1, LenProperties, EmptySeq DEF TypeOK
  <2> QED
    BY <1>1, <2>1 DEF CommitAt, Pfx
<1>5. NodeInv' /\ SentStep(i)
  BY <1>1, <1>2, <1>3, <1>4, DropNode
<1>6. Rests(i)
  BY <1>1 DEF Rests, Calm, MatchStep
<1> QED
  BY <1>2, <1>5, <1>6 DEF StepOf

-----------------------------------------------------------------------------
(* The invariant and what follows from it.                                 *)

\* A new cluster leads, tracks and reads nothing.
LEMMA NodeInit == Init => NodeInv
<1> SUFFICES ASSUME Init PROVE NodeInv
  OBVIOUS
<1>1. Len(<<>>) = 0
  BY EmptySeq
<1>2. ASSUME NEW i \in Server PROVE NodeOK(i)
  BY <1>1 DEF Init, NodeOK, LeaderAt, RoleAt, CommitAt, ProgressAt, ReadAt, Pfx, Role
<1> QED
  BY <1>2 DEF Init, NodeInv

\* Every step is a step of one node and of one of the kinds.
LEMMA NodeStep ==
  TypeOK /\ TypeOK' /\ ElectionInv /\ NodeInv /\ Next =>
    NodeInv' /\ \E i \in Server : StepOf(i)
<1> SUFFICES ASSUME TypeOK, TypeOK', ElectionInv, NodeInv, Next
             PROVE  NodeInv' /\ \E i \in Server : StepOf(i)
  OBVIOUS
<1>1. ASSUME NEW i \in Server, LocalStep(i) PROVE NodeInv' /\ StepOf(i)
  BY <1>1, TimeoutNode, ExhaustedNode, HeartbeatNode, ProposeNode, ReadBarrierNode
  DEF LocalStep
<1>2. ASSUME NEW m \in msgs, Receive(m.to, m) PROVE NodeInv' /\ StepOf(m.to)
  BY <1>2, RequestVoteNode, VoteReplyNode, BecomesLeaderNode, StaleNode, RejectedNode,
     AcceptedNode, ReplyStepsDownNode, FailedNode, RecordedNode, CommittedNode,
     ReadyReadNode DEF Receive
<1>3. ASSUME NEW i \in Server, Failure(i) PROVE NodeInv' /\ StepOf(i)
  BY <1>3, OwnFailureNode, ReceiveFailureNode DEF Failure
<1>4. \A m \in msgs : m.to \in Server
  BY MessageKinds DEF TypeOK
<1> QED
  BY <1>1, <1>2, <1>3, <1>4, RestartNode DEF Next

\* Doing nothing changes nothing.
LEMMA NodeStutter == NodeInv /\ UNCHANGED vars => NodeInv'
BY DEF vars, metadata, node, election, leader, NodeInv, NodeOK, LeaderAt, RoleAt, CommitAt,
       ProgressAt, ReadAt, SentOK, Standing, Live, Role

\* A step of the cluster, or none, keeps what every node knows of itself.
LEMMA NodeNext == TypeOK /\ TypeOK' /\ ElectionInv /\ NodeInv /\ [Next]_vars => NodeInv'
BY NodeStep, NodeStutter

\* In every reachable state a leader object belongs to a running leader, what it
\* tracks is inside its log, and its reads are its own.
THEOREM NodeInvariant == Spec => []NodeInv
<1>1. Init => NodeInv
  BY NodeInit
<1>2. TypeOK /\ TypeOK' /\ ElectionInv /\ NodeInv /\ [Next]_vars => NodeInv'
  BY NodeNext
<1> QED
  BY <1>1, <1>2, TypeCorrect, ElectionInvariant, PTL DEF Spec

\* The role RaftElection derives from the metadata and the leader object of
\* RaftNode never disagree in a running node: on_heartbeat_timeout, propose and
\* read_barrier never find an object that is not active.
THEOREM LeaderObjectIsActive == Spec => []LeaderObjectActive
<1>1. TypeOK /\ NodeInv => LeaderObjectActive
  <2> SUFFICES ASSUME TypeOK, NodeInv, NEW i \in Server, Live(i)
               PROVE  /\ Role(i) = "Leader" <=> Active(i)
                      /\ leader_term[i] # 0 => Active(i)
    BY DEF LeaderObjectActive
  <2>1. leader_term[i] # 0 => Active(i)
    BY DEF NodeInv, NodeOK, LeaderAt, Active, Role
  <2>2. Role(i) = "Leader" => leader_term[i] # 0
    BY DEF NodeInv, NodeOK, RoleAt
  <2> QED
    BY <2>1, <2>2 DEF Active
<1> QED
  BY <1>1, TypeCorrect, NodeInvariant, PTL

\* The status of a running node always passes valid_status_reply: what is applied is
\* committed, what is committed is in the log, a leader names itself, and its peers'
\* positions are in order and inside its log.
THEOREM StatusIsEncodable == Spec => []StatusEncodable
<1>1. TypeOK /\ NodeInv => StatusEncodable
  <2> SUFFICES ASSUME TypeOK, NodeInv, NEW i \in Server, Live(i)
               PROVE  /\ Len(applied[i]) <= commit_index[i]
                      /\ commit_index[i] <= last_index(log[i])
                      /\ Role(i) = "Leader" => known_leader[i] = i
                      /\ \A p \in Peers(i) : Role(i) = "Leader" =>
                           /\ 0 < peers[i][p].next_index
                           /\ peers[i][p].match_index < peers[i][p].next_index
                           /\ peers[i][p].match_index <= last_index(log[i])
    BY DEF StatusEncodable
  <2>1. LeaderAt(i) /\ RoleAt(i) /\ CommitAt(i) /\ ProgressAt(i)
    BY DEF NodeInv, NodeOK
  <2>2. commit_index[i] \in Nat /\ Len(log[i]) \in Nat
    BY LenProperties DEF TypeOK
  <2>3. Len(applied[i]) <= commit_index[i] /\ commit_index[i] <= last_index(log[i])
    BY <2>1, <2>2 DEF CommitAt, Pfx, last_index
  <2>4. ASSUME NEW p \in Peers(i), Role(i) = "Leader"
        PROVE  /\ 0 < peers[i][p].next_index
               /\ peers[i][p].match_index < peers[i][p].next_index
               /\ peers[i][p].match_index <= last_index(log[i])
    <3>1. Tracks(i, p, leader_term[i], log[i], peers[i][p])
      BY <2>1, <2>4 DEF RoleAt, ProgressAt
    <3>2. peers[i][p].next_index \in Nat /\ peers[i][p].match_index \in Nat
      BY DEF TypeOK, PeerState, Peers
    <3> QED
      BY <2>2, <3>1, <3>2 DEF Tracks, last_index
  <2>5. Role(i) = "Leader" => known_leader[i] = i
    BY <2>1 DEF RoleAt, LeaderAt
  <2> QED
    BY <2>3, <2>4, <2>5
<1> QED
  BY <1>1, TypeCorrect, NodeInvariant, PTL
=============================================================================
