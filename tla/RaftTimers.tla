----------------------------- MODULE RaftTimers -----------------------------
(***************************************************************************)
(* The loop of each server (Server::run and the timer and sending parts of *)
(* Server::process in src/raft_server.cpp) around its RaftNode: two        *)
(* deadlines, a listening socket, and one attempt per message. RaftNode is *)
(* instantiated with the messages of the handler that has just returned in *)
(* place of all messages ever sent, so a message that is not delivered is  *)
(* gone and only a timer sends it again.                                   *)
(*                                                                         *)
(* Until `stable' the environment does what it likes: attempts fail,       *)
(* timers fire at any moment, processes start over. From then on the nodes *)
(* of Up run and reach each other, and messages outrun the timers.         *)
(***************************************************************************)
EXTENDS RaftLog, FiniteSets
LOCAL INSTANCE SequencesExt

CONSTANTS
  Up,            \* the nodes that run; the others never answer
  Disks,         \* what the nodes may find on their disks: term, vote and log
  Delays,        \* what election_delay_ draws: 300 to 600 ms
  Heartbeat,     \* 100 ms
  MaxBacklog,    \* connections the listener holds
  Early,         \* bound: the <<node, term>> pairs that may stand before `stable'
  Restarts,      \* bound: the nodes that may start over before `stable'
  MaxLength,     \* bound: no proposals beyond this length of the log
  Readers,       \* bound: the nodes that clients read from
  MaxReads       \* bound: reads per process

ASSUME TimerAssumption ==
  /\ Up \subseteq Server
  /\ Heartbeat \in Nat \ {0} /\ Delays \subseteq Nat /\ Delays # {}
  /\ \A d \in Delays : d > Heartbeat

VARIABLES
  current_term, voted_for, log, commit_index, applied, known_leader, next_read_id,
  stopped, role, election_term, replied, granted_votes, leader_term, peers, read_rounds,
  outbox,              \* RaftNodeActions::messages, until process has sent them
  inbox,               \* per node, the frames that wait at its listener
  election_deadline,   \* election_deadline_ and heartbeat_deadline_, as time left;
  heartbeat_deadline,  \* zero and without meaning until `stable'
  stable

Node == INSTANCE RaftNode WITH msgs <- outbox

nvars == <<current_term, voted_for, log, commit_index, applied, known_leader,
           next_read_id, stopped, role, election_term, replied, granted_votes,
           leader_term, peers, read_rounds>>
deadlines == <<election_deadline, heartbeat_deadline>>
tvars == <<nvars, outbox, inbox, deadlines, stable>>

\* Processes that have just been started on the disks given.
TInit ==
  /\ \E disk \in Disks :
       /\ current_term = [i \in Server |-> disk[i].term]
       /\ voted_for = [i \in Server |-> disk[i].vote]
       /\ log = [i \in Server |-> disk[i].log]
  /\ commit_index = [i \in Server |-> 0]
  /\ applied = [i \in Server |-> <<>>]
  /\ known_leader = [i \in Server |-> Nobody]
  /\ next_read_id = [i \in Server |-> 1]
  /\ stopped = [i \in Server |-> "None"]
  /\ role = [i \in Server |-> "Follower"]
  /\ election_term = [i \in Server |-> 0]
  /\ replied = [i \in Server |-> {}]
  /\ granted_votes = [i \in Server |-> 0]
  /\ leader_term = [i \in Server |-> 0]
  /\ peers = [i \in Server |-> [p \in Server |-> Node!NoProgress]]
  /\ read_rounds = [i \in Server |-> {}]
  /\ outbox = {}
  /\ inbox = [i \in Server |-> <<>>]
  /\ election_deadline = [i \in Server |-> 0]
  /\ heartbeat_deadline = [i \in Server |-> 0]
  /\ stable = FALSE

-----------------------------------------------------------------------------
(* The deadlines.                                                          *)

Leads(i) == Node!Role(i) = "Leader"

\* What the handler of i returned has been sent, and i runs.
Ready(i) == i \in Up /\ Node!Live(i) /\ \A m \in outbox : m.from # i

Quiet == outbox = {} /\ \A i \in Server : inbox[i] = <<>>

reset_election_timer(i) ==
  \E d \in Delays : election_deadline' = [election_deadline EXCEPT ![i] =
                                            IF stable THEN d ELSE 0]

schedule_heartbeat(i) ==
  heartbeat_deadline' = [heartbeat_deadline EXCEPT ![i] =
                           IF stable THEN Heartbeat ELSE 0]

\* Mutant: only a vote puts an election off.
ResetsForVotes(i, m) ==
  m.kind = "RequestVote" /\ Node!Grants(i, m)

\* What puts an election off, handler by handler: a newer term, a vote, a leader of
\* the receiver's term.
RequestVoteResets(i, m) == m.term > current_term[i] \/ Node!Grants(i, m)

VoteReplyResets(i, m) == Node!StaleRole(i) \/ m.term > current_term[i]

AppendEntriesResets(i, m) ==
  m.term # 0 /\ m.term >= current_term[i] /\ ~Node!InvalidRequest(i, m)

AppendReplyResets(i, m) ==
  (leader_term[i] = 0 \/ Node!Active(i)) /\ m.term > current_term[i]

\* RaftNodeActions::reset_election_timer of the handler of m.
Resets(i, m) ==
  CASE m.kind = "RequestVote" -> RequestVoteResets(i, m)
    [] m.kind = "RequestVoteReply" -> VoteReplyResets(i, m)
    [] m.kind = "AppendEntries" -> AppendEntriesResets(i, m)
    [] m.kind = "AppendEntriesReply" -> AppendReplyResets(i, m)

\* A reply that comes too late to change anything.
Ignored(i, m) ==
  \/ /\ m.kind = "RequestVoteReply"
     /\ ~Resets(i, m) /\ ~Node!FreshVoteReply(i, m)
  \/ /\ m.kind = "AppendEntriesReply"
     /\ ~Resets(i, m) /\ ~Node!Answers(i, m)
     /\ ~(/\ leader_term[i] # 0 /\ m.term = current_term[i] /\ m.success
          /\ \E r \in read_rounds[i] :
               r.index # 0 /\ m.replied_to = ReadProbe(i, m.from, leader_term[i], r))

-----------------------------------------------------------------------------
(* One turn of the loop.                                                   *)

\* receive_one: the first connection at the listener. Most late replies change
\* nothing.
receive_one(i) ==
  /\ Ready(i)
  /\ inbox[i] # <<>>
  /\ inbox' = [inbox EXCEPT ![i] = Tail(@)]
  /\ LET m == Head(inbox[i]) IN
     \/ /\ Node!Receive(i, m)
        /\ IF Resets(i, m) THEN reset_election_timer(i) ELSE UNCHANGED election_deadline
        /\ IF Node!WinsElection(i, m)
             THEN schedule_heartbeat(i) ELSE UNCHANGED heartbeat_deadline
     \/ Ignored(i, m) /\ UNCHANGED <<nvars, outbox, deadlines>>
  /\ UNCHANGED stable

\* The loop's timers. Once stable, an election waits for the messages under way:
\* two nodes do not time out within one message delay of each other.
heartbeat_timer(i) ==
  /\ Ready(i)
  /\ Leads(i)
  /\ heartbeat_deadline[i] = 0
  /\ Node!on_heartbeat_timeout(i)
  /\ schedule_heartbeat(i)
  /\ UNCHANGED <<inbox, election_deadline, stable>>

election_timer(i) ==
  /\ Ready(i)
  /\ ~Leads(i)
  /\ election_deadline[i] = 0
  /\ stable => Quiet
  /\ current_term[i] < MaxTerm
  /\ ~stable => <<i, current_term[i] + 1>> \in Early
  /\ Node!on_election_timeout(i)
  /\ reset_election_timer(i)
  /\ UNCHANGED <<inbox, heartbeat_deadline, stable>>

\* The frames of S that go to node j, in the order process sends them: requests
\* before read probes.
FramesTo(S, j) ==
  SetToSortSeq({m \in S : m.to = j}, LAMBDA a, b : a.read_context < b.read_context)

\* The loop over actions->messages: send_frame delivers to a listener with room,
\* or the message is dropped.
send_messages(i) ==
  LET mine == {m \in outbox : m.from = i}
      reachable == {m \in mine : m.to \in Up}
  IN
  /\ mine # {}
  /\ outbox' = outbox \ mine
  /\ \E sent \in IF stable THEN {reachable} ELSE SUBSET reachable :
       inbox' = [j \in Server |->
                   LET all == inbox[j] \o FramesTo(sent, j) IN
                   SubSeq(all, 1, IF Len(all) <= MaxBacklog THEN Len(all) ELSE MaxBacklog)]
  /\ UNCHANGED <<nvars, deadlines, stable>>

Turn(i) ==
  receive_one(i) \/ heartbeat_timer(i) \/ election_timer(i) \/ send_messages(i)

-----------------------------------------------------------------------------
(* Clients and the environment.                                            *)

propose(i) ==
  /\ Ready(i)
  /\ Len(log[i]) < MaxLength
  /\ \E command \in Command : Node!propose(i, command)
  /\ UNCHANGED <<inbox, deadlines, stable>>

read(i) ==
  /\ Ready(i)
  /\ i \in Readers /\ next_read_id[i] <= MaxReads
  /\ Node!read_barrier(i)
  /\ UNCHANGED <<inbox, deadlines, stable>>

\* The process dies and starts again: what it had not sent and what waited at its
\* listener is lost.
restart(i) ==
  /\ ~stable
  /\ i \in Restarts
  /\ \A m \in outbox : m.from # i
  /\ Node!Restart(i)
  /\ inbox' = [inbox EXCEPT ![i] = <<>>]
  /\ UNCHANGED <<deadlines, stable>>

LongestDelay == CHOOSE d \in Delays : \A e \in Delays : e <= d

\* The trouble is over; the timers of the nodes stand anywhere.
stabilise ==
  /\ ~stable
  /\ stable' = TRUE
  /\ \E d \in [Up -> 0..LongestDelay] :
       election_deadline' = [i \in Server |-> IF i \in Up THEN d[i] ELSE 0]
  /\ \E d \in [Up -> 0..Heartbeat] :
       heartbeat_deadline' = [i \in Server |-> IF i \in Up /\ Leads(i) THEN d[i] ELSE 0]
  /\ UNCHANGED <<nvars, outbox, inbox>>

Earlier(d) == [i \in Server |-> IF d[i] = 0 THEN 0 ELSE d[i] - 1]

\* Time passes while every loop waits in poll.
tick ==
  /\ stable
  /\ Quiet
  /\ \A i \in Up : (IF Leads(i) THEN heartbeat_deadline[i] ELSE election_deadline[i]) > 0
  /\ election_deadline' = Earlier(election_deadline)
  /\ heartbeat_deadline' = Earlier(heartbeat_deadline)
  /\ UNCHANGED <<nvars, outbox, inbox, stable>>

\* What the servers that run do of themselves.
System == (\E i \in Up : Turn(i)) \/ tick

TNext ==
  \/ System
  \/ \E i \in Up : propose(i) \/ read(i) \/ restart(i)
  \/ stabilise

\* The loops go on as long as there is anything to do, and the trouble ends.
\* Clients and crashes are not fair.
TSpec == TInit /\ [][TNext]_tvars /\ WF_tvars(System) /\ WF_tvars(stabilise)

-----------------------------------------------------------------------------
(* Properties.                                                             *)

\* One node leads, and the nodes that run hold, and have applied, its log.
Converged ==
  \E i \in Up :
    /\ Leads(i)
    /\ \A j \in Up : /\ current_term[j] = current_term[i] /\ known_leader[j] = i
                     /\ log[j] = log[i] /\ applied[j] = log[i]

\* The elections this instance has terms for were spent without a winner.
TermsSpent ==
  /\ \A i \in Up : ~Leads(i)
  /\ \E i \in Up : current_term[i] = MaxTerm

\* "An unavailable peer is retried by the next election or heartbeat" (process):
\* whatever was lost, cut off or restarted before, two nodes that reach each other
\* come to have a leader, and everything in its log is committed and applied at
\* both. It leaves out only that elections are lost to the draw of the timers for
\* as long as there are terms.
Converges == <>[](Converged \/ TermsSpent)

\* A read that was let in ends: its probe is confirmed or its leader steps down,
\* although the first probe may have been lost (read_rounds_ in
\* on_heartbeat_timeout).
ReadsEnd == \A i \in Readers : read_rounds[i] # {} ~> read_rounds[i] = {}

UnderWay == outbox \cup UNION {Range(inbox[j]) : j \in Server}

\* Node i leads, the other nodes follow it, and its next heartbeat is due before
\* their elections or on its way to them.
Settled(i) ==
  /\ stable
  /\ i \in Up /\ Leads(i)
  /\ \A j \in Up \ {i} :
       /\ known_leader[j] = i /\ current_term[j] = current_term[i]
       /\ \/ election_deadline[j] > heartbeat_deadline[i]
          \/ \E m \in UnderWay : m.kind = "AppendEntries" /\ m.term = current_term[i]
                                  /\ m.to = j
  /\ \A m \in UnderWay : m.term <= current_term[i]

\* Heartbeats keep a settled leader in office: no election is held once the
\* deadlines of run and reset_election_timer are in order, and no late message of
\* the time before upsets it.
LeadershipLasts == [][\A i \in Server : Settled(i) => Settled(i)']_tvars

\* A listener hands over the frames in the order they came, so a node is never
\* stopped by an answer it does not expect (AppendReplyOutcome::InconsistentFollower
\* and the other ways to InconsistentState), whatever is lost or sent again.
NobodyStops == \A i \in Server : Node!Live(i)
=============================================================================
