------------------------------ MODULE RaftLog ------------------------------
(***************************************************************************)
(* The replicated log as the consensus code sees it, and the decisions it  *)
(* takes from a log and a message alone: src/raft_vote.cpp,                *)
(* src/raft_append.cpp and the request builder and commit rule of          *)
(* src/raft_leader.cpp.                                                    *)
(*                                                                         *)
(* A log is a sequence; the index that LogEntry carries is the position.   *)
(* PersistentLog::append enforces exactly that (entry.index must be        *)
(* last_index()+1), so the field is not repeated in the entries.           *)
(***************************************************************************)
EXTENDS Naturals, Sequences

CONSTANTS
  Server,     \* the node ids
  Command,    \* the PUT and DELETE commands clients propose
  NoOp,       \* CommandType::NoOp, appended by a new leader
  Nobody,     \* an empty std::optional<node id>
  MaxTerm,    \* the largest uint64_t, as far as terms are concerned
  MaxIndex,   \* the largest log index a leader may write (uint64 max - 1)
  MaxReadId,  \* the largest uint64_t, as far as read ids are concerned
  MaxBatch    \* entries per AppendEntries: 4 in RaftNode::queue_append

ASSUME ServerAssumption ==
  /\ \E a, b, c \in Server : a # b /\ a # c /\ b # c /\ Server = {a, b, c}
  /\ Nobody \notin Server

ASSUME CommandAssumption == NoOp \notin Command

ASSUME BoundAssumption ==
  /\ MaxTerm \in Nat
  /\ MaxIndex \in Nat
  /\ MaxReadId \in Nat \ {0}
  /\ MaxBatch \in Nat \ {0}

-----------------------------------------------------------------------------

Peers(i) == Server \ {i}

Term == 0..MaxTerm

\* LogEntry, without the index. Only terms above zero can be encoded
\* (encode_log_entry), so no stored entry has term zero.
Entry == [term : 1..MaxTerm, command : Command \cup {NoOp}]

last_index(lg) == Len(lg)

last_term(lg) == IF lg = <<>> THEN 0 ELSE lg[Len(lg)].term

\* entry_at(index) yields an entry of that term.
has_entry(lg, index, term) ==
  index \in 1..Len(lg) /\ lg[index].term = term

-----------------------------------------------------------------------------
(* The messages of RaftMessage, with sender and receiver. The candidate_id *)
(* and leader_id fields are the sender's id and are not repeated.          *)

RequestVote ==
  [kind : {"RequestVote"}, from : Server, to : Server, term : Term,
   last_log_index : Nat, last_log_term : Term]

RequestVoteReply ==
  [kind : {"RequestVoteReply"}, from : Server, to : Server, term : Term,
   vote_granted : BOOLEAN]

AppendEntries ==
  [kind : {"AppendEntries"}, from : Server, to : Server, term : Term,
   prev_log_index : Nat, prev_log_term : Term, entries : Seq(Entry),
   leader_commit : Nat, read_context : 0..MaxReadId]

\* Every reply travels with the request it answers (RaftEnvelope::replied_to).
AppendEntriesReply ==
  [kind : {"AppendEntriesReply"}, from : Server, to : Server, term : Term,
   success : BOOLEAN, replied_to : AppendEntries]

Message ==
  RequestVote \cup RequestVoteReply \cup AppendEntries \cup AppendEntriesReply

\* An empty std::optional<AppendEntries>.
NoRequest == [kind |-> "None"]

-----------------------------------------------------------------------------
(* Voting.                                                                 *)

\* Mutant: only the length of the candidate's log is compared.
up_to_date_by_length(m, lg) == m.last_log_index >= last_index(lg)

candidate_log_is_up_to_date(m, lg) ==
  IF m.last_log_term # last_term(lg)
    THEN m.last_log_term > last_term(lg)
    ELSE m.last_log_index >= last_index(lg)

-----------------------------------------------------------------------------
(* Accepting entries.                                                      *)

\* The checks on the request alone.
valid_entries(m) ==
  /\ (m.prev_log_index = 0) = (m.prev_log_term = 0)
  /\ m.prev_log_term <= m.term
  /\ m.read_context # 0 => m.prev_log_index = 0 /\ m.entries = <<>>
  /\ \A k \in 1..Len(m.entries) :
       /\ m.entries[k].term <= m.term
       /\ m.entries[k].term >=
            IF k = 1 THEN m.prev_log_term ELSE m.entries[k - 1].term

\* The receiver holds the entry before the batch.
previous_matches(lg, m) ==
  m.prev_log_index = 0 \/ has_entry(lg, m.prev_log_index, m.prev_log_term)

\* The loop gets past the first k entries without finding one to append.
Agrees(lg, m, k) ==
  \A j \in 1..k : has_entry(lg, m.prev_log_index + j, m.entries[j].term)

\* The loop meets an entry of equal index and term with another command.
CommandMismatch(lg, m) ==
  \E k \in 1..Len(m.entries) :
    /\ Agrees(lg, m, k)
    /\ lg[m.prev_log_index + k].command # m.entries[k].command

\* The first entry that disagrees sits at or below the commit index.
CommittedConflict(lg, commit, m) ==
  \E k \in 1..Len(m.entries) :
    /\ Agrees(lg, m, k - 1)
    /\ ~Agrees(lg, m, k)
    /\ m.prev_log_index + k <= Len(lg)
    /\ m.prev_log_index + k <= commit

\* The log once the loop has run: untouched when every entry was there already,
\* otherwise truncated at the first disagreement and extended to the batch's end.
MergedLog(lg, m) ==
  IF Agrees(lg, m, Len(m.entries))
    THEN lg
    ELSE SubSeq(lg, 1, m.prev_log_index) \o m.entries

\* Mutant: a batch cut short leaves its last entries instead of its first.
PartialLogsFromTheEnd(lg, m) ==
  { SubSeq(lg, 1, m.prev_log_index) \o SubSeq(m.entries, k, Len(m.entries)) :
      k \in 1..Len(m.entries) }

\* The logs the same loop leaves behind when it is cut short: truncated at the
\* first disagreement, then extended entry by entry.
PartialLogs(lg, m) ==
  {lg} \cup
  { SubSeq(lg, 1, m.prev_log_index) \o SubSeq(m.entries, 1, k) :
      k \in {n \in 0..Len(m.entries) :
               n = Len(m.entries) \/ ~Agrees(lg, m, n + 1)} }

matched_index(m) == m.prev_log_index + Len(m.entries)

\* std::max(commit, std::min(leader_commit, matched_index)).
FollowerCommit(commit, m) ==
  LET known == IF m.leader_commit <= matched_index(m)
                 THEN m.leader_commit ELSE matched_index(m)
  IN  IF known > commit THEN known ELSE commit

-----------------------------------------------------------------------------
(* Leading.                                                                *)

\* make_request for a peer with nothing outstanding.
make_request(i, p, term, lg, commit, next) ==
  [kind |-> "AppendEntries", from |-> i, to |-> p, term |-> term,
   prev_log_index |-> next - 1,
   prev_log_term |-> IF next = 1 THEN 0 ELSE lg[next - 1].term,
   entries |-> SubSeq(lg, next, IF next + MaxBatch - 1 <= Len(lg)
                                  THEN next + MaxBatch - 1 ELSE Len(lg)),
   leader_commit |-> commit, read_context |-> 0]

\* The read-only heartbeat of a read round.
ReadProbe(i, p, term, round) ==
  [kind |-> "AppendEntries", from |-> i, to |-> p, term |-> term,
   prev_log_index |-> 0, prev_log_term |-> 0, entries |-> <<>>,
   leader_commit |-> round.index, read_context |-> round.id]

\* Mutant: entries of earlier terms are counted like the leader's own.
CommittableAnyTerm(i, lg, commit, term, match) ==
  {k \in (commit + 1)..Len(lg) : \E p \in Peers(i) : match[p] >= k}

\* The indices advance_commit_index may choose from: above the commit index, of
\* the leader's own term, held by at least one of the two peers.
Committable(i, lg, commit, term, match) ==
  {k \in (commit + 1)..Len(lg) :
     lg[k].term = term /\ \E p \in Peers(i) : match[p] >= k}
=============================================================================
