----------------------------- MODULE RaftLedger -----------------------------
(***************************************************************************)
(* The invariants from which the safety of the RaftNode cluster is proved. *)
(*                                                                         *)
(* They speak of a ledger: per term t, the log L[t] of the leader of that  *)
(* term as far as that leader ever wrote it, and the leader W[t] that did  *)
(* (<<>> and Nobody while the term has no leader). The ledger is not state *)
(* of the program and no variable of the model: the proofs show that in    *)
(* every reachable state there is one, and that a step only extends it.    *)
(***************************************************************************)
EXTENDS RaftNode

\* The first k entries of the two logs exist and are the same.
Pfx(s, u, k) ==
  /\ k <= Len(s) /\ k <= Len(u)
  /\ \A n \in 1..k : s[n] = u[n]

\* The log cut off before the batch of m and extended by the batch's first n entries.
Splice(lg, m, n) == SubSeq(lg, 1, m.prev_log_index) \o SubSeq(m.entries, 1, n)

\* The node waits for votes in a running process.
Standing(c) == Live(c) /\ role[c] = "Candidate"

-----------------------------------------------------------------------------
(* What a node knows of itself.                                            *)

\* A leader object exists only in a running leader of the term on disk.
LeaderAt(i) ==
  leader_term[i] # 0 =>
    /\ Live(i) /\ role[i] = "Leader" /\ voted_for[i] = i /\ known_leader[i] = i
    /\ election_term[i] = leader_term[i] /\ current_term[i] = leader_term[i]

\* A running leader has its object; no election is ahead of the disk.
RoleAt(i) ==
  /\ election_term[i] <= current_term[i]
  /\ Live(i) /\ Role(i) = "Leader" => leader_term[i] # 0

\* What is committed is in the log and has been applied from it.
CommitAt(i) ==
  Live(i) =>
    /\ Len(applied[i]) = commit_index[i]
    /\ Pfx(applied[i], log[i], commit_index[i])

\* What the leader i of a term knows of peer p stays inside its log lg.
Tracks(i, p, term, lg, s) ==
  /\ s.match_index < s.next_index
  /\ s.next_index <= Len(lg) + 1
  /\ s.pending # NoRequest =>
       /\ s.pending.from = i /\ s.pending.to = p /\ s.pending.term = term
       /\ matched_index(s.pending) <= Len(lg)
       /\ s.pending.read_context = 0

\* A leader sends nothing to itself, and tracks the others.
ProgressAt(i) ==
  leader_term[i] # 0 =>
    /\ peers[i][i].pending = NoRequest
    /\ \A p \in Peers(i) : Tracks(i, p, leader_term[i], log[i], peers[i][p])

\* A leader's waiting reads have ids of their own, given out already, and wait
\* for nothing that is not committed.
ReadAt(i) ==
  /\ leader_term[i] = 0 => read_rounds[i] = {}
  /\ \A r \in read_rounds[i] :
       /\ r.index <= commit_index[i]
       /\ next_read_id[i] # 0 => r.id < next_read_id[i]
       /\ \A q \in read_rounds[i] : r.id = q.id => r = q

NodeOK(i) ==
  LeaderAt(i) /\ RoleAt(i) /\ CommitAt(i) /\ ProgressAt(i) /\ ReadAt(i)

\* Who has sent AppendEntries in a term stands no longer in it; the probes of the
\* present leadership carry ids it has given out, and the index of their read.
SentOK(m) ==
  /\ m.from # m.to /\ m.term # 0
  /\ m.read_context # 0 =>
       m.prev_log_index = 0 /\ m.entries = <<>> /\ m.leader_commit # 0
  /\ current_term[m.from] >= m.term
  /\ ~(Standing(m.from) /\ election_term[m.from] = m.term)
  /\ m.read_context # 0 /\ leader_term[m.from] = m.term =>
       /\ next_read_id[m.from] # 0 => m.read_context < next_read_id[m.from]
       /\ \A r \in read_rounds[m.from] :
            r.id = m.read_context => r.index = m.leader_commit

NodeInv ==
  /\ \A i \in Server : NodeOK(i)
  /\ \A m \in msgs : m.kind = "AppendEntries" => SentOK(m)

-----------------------------------------------------------------------------
(* Where the entries come from.                                            *)

\* Every log is, entry for entry, what the leader of the entry's term had.
LogsWritten(L) ==
  \A j \in Server : \A k \in 1..Len(log[j]) :
    /\ log[j][k].term <= current_term[j]
    /\ Pfx(log[j], L[log[j][k].term], k)

\* So is every leader's own.
LedgerSound(L) ==
  \A t \in Term : \A k \in 1..Len(L[t]) :
    L[t][k].term <= t /\ Pfx(L[t], L[L[t][k].term], k)

\* The batch of m is a part of s, and its previous entry the one before it.
FromLog(m, s) ==
  /\ matched_index(m) <= Len(s)
  /\ \A k \in 1..Len(m.entries) : m.entries[k] = s[m.prev_log_index + k]
  /\ m.prev_log_term = IF m.prev_log_index = 0 THEN 0 ELSE s[m.prev_log_index].term

RequestsWritten(L, W) ==
  \A m \in msgs : m.kind = "AppendEntries" =>
    m.from = W[m.term] /\ FromLog(m, L[m.term])

\* A term's leader was elected and cannot win that election again.
WritersLed(L, W) ==
  \A t \in Term :
    /\ L[t] = <<>> <=> W[t] = Nobody
    /\ W[t] # Nobody =>
         /\ Elected(W[t], t)
         /\ current_term[W[t]] >= t
         /\ ~(Standing(W[t]) /\ election_term[W[t]] = t)

LeadersWrite(L, W) ==
  \A i \in Server : leader_term[i] # 0 =>
    W[leader_term[i]] = i /\ L[leader_term[i]] = log[i]

LogInv(L, W) ==
  /\ LogsWritten(L) /\ LedgerSound(L)
  /\ RequestsWritten(L, W) /\ WritersLed(L, W) /\ LeadersWrite(L, W)

-----------------------------------------------------------------------------
(* What acknowledgments and votes promise.                                 *)

\* v is a vote given.
Granted(v) == v.kind = "RequestVoteReply" /\ v.vote_granted

\* r acknowledges a request of its term.
Success(r) == r.kind = "AppendEntriesReply" /\ r.success

\* q has told the leader of term t that it holds that leader's log up to k.
Replied(q, t, k) ==
  \E r \in msgs : /\ Success(r) /\ r.from = q /\ r.term = t
                  /\ matched_index(r.replied_to) >= k

\* It has, or is that leader itself.
Acked(W, q, t, k) == W[t] = q \/ Replied(q, t, k)

\* Two nodes have left term t without acknowledging k: it can never be committed
\* by the leader of term t.
Dead(W, t, k) ==
  \E p, q \in Server :
    /\ p # q
    /\ current_term[p] > t /\ ~Acked(W, p, t, k)
    /\ current_term[q] > t /\ ~Acked(W, q, t, k)

\* The leader of term t wrote its own entry at k.
Own(L, t, k) == k \in 1..Len(L[t]) /\ L[t][k].term = t

AcksSent ==
  \A r \in msgs : Success(r) =>
    /\ r.replied_to \in msgs /\ r.term = r.replied_to.term
    /\ r.from = r.replied_to.to /\ r.to = r.replied_to.from
    /\ current_term[r.from] >= r.term

\* An acknowledgment holds while the follower stays in the term.
AcksDurable(L) ==
  \A r \in msgs : Success(r) /\ current_term[r.from] = r.term =>
    Pfx(log[r.from], L[r.term], matched_index(r.replied_to))

\* What was acknowledged is still there unless it is dead.
AcksHeld(L, W) ==
  \A q \in Server, t \in Term : \A k \in 1..Len(L[t]) :
    Own(L, t, k) /\ Acked(W, q, t, k) => Pfx(log[q], L[t], k) \/ Dead(W, t, k)

\* Later leaders have it unless it is dead.
LeadersKeep(L, W) ==
  \A t, u \in Term : \A k \in 1..Len(L[t]) :
    Own(L, t, k) /\ t < u /\ L[u] # <<>> => Pfx(L[u], L[t], k) \/ Dead(W, t, k)

\* A vote in flight: its candidate has what the voter acknowledged unless it is
\* dead.
VotesKeep(L, W) ==
  \A v \in msgs :
    Granted(v) /\ Standing(v.to) /\ election_term[v.to] = v.term =>
      \A t \in Term : \A k \in 1..Len(L[t]) :
        Own(L, t, k) /\ t < v.term /\ Acked(W, v.from, t, k) =>
          Pfx(log[v.to], L[t], k) \/ Dead(W, t, k)

\* A candidate's requests describe the log it still has.
CandidatesHonest ==
  \A m \in msgs :
    /\ m.kind = "RequestVote" /\ Standing(m.from) /\ election_term[m.from] = m.term =>
         m.last_log_index = Len(log[m.from]) /\ m.last_log_term = last_term(log[m.from])
    /\ Granted(m) =>
         \E n \in msgs : n.kind = "RequestVote" /\ n.from = m.to /\ n.term = m.term

QuorumInv(L, W) ==
  /\ AcksSent /\ AcksDurable(L) /\ AcksHeld(L, W) /\ LeadersKeep(L, W)
  /\ VotesKeep(L, W) /\ CandidatesHonest

-----------------------------------------------------------------------------
(* What is committed.                                                      *)

\* Two nodes have the leader of term t's own entry at k.
ChosenAt(L, W, t, k) ==
  /\ Own(L, t, k)
  /\ \E p, q \in Server : p # q /\ Acked(W, p, t, k) /\ Acked(W, q, t, k)

\* The first n entries of s were chosen in a term up to b.
Backed(L, W, s, n, b) ==
  \/ n = 0
  \/ \E t \in Term : /\ t <= b
                     /\ \E k \in Nat : k >= n /\ ChosenAt(L, W, t, k) /\ Pfx(s, L[t], n)

\* What a leader believes of a peer, the peer has said.
MatchAcked(W) ==
  \A i \in Server : leader_term[i] # 0 =>
    \A p \in Peers(i) :
      peers[i][p].match_index = 0 \/ Acked(W, p, leader_term[i], peers[i][p].match_index)

NodesBacked(L, W) ==
  \A i \in Server : Live(i) => Backed(L, W, log[i], commit_index[i], current_term[i])

RequestsBacked(L, W) ==
  \A m \in msgs : m.kind = "AppendEntries" =>
    Backed(L, W, L[m.term], m.leader_commit, m.term)

CommitInv(L, W) == MatchAcked(W) /\ NodesBacked(L, W) /\ RequestsBacked(L, W)

SafetyInv(L, W) == LogInv(L, W) /\ QuorumInv(L, W) /\ CommitInv(L, W)
=============================================================================
