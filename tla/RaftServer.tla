----------------------------- MODULE RaftServer -----------------------------
(***************************************************************************)
(* The server around each node (src/raft_server.cpp): it feeds timers,     *)
(* messages and client calls to its RaftNode one at a time, keeps the      *)
(* clients whose writes and reads are not settled, and answers them from   *)
(* what each event did to the node.                                        *)
(*                                                                         *)
(* The answers NotLeader and Busy change nothing and are not actions. A    *)
(* blocked peer (console command `block') is a peer whose messages are     *)
(* lost, which the network of RaftNode allows at any moment.               *)
(***************************************************************************)
EXTENDS RaftHistory, KvStateMachine, FiniteSets

CONSTANTS
  Key,        \* the keys clients read
  MaxPending  \* 1024: unsettled requests, and clients waiting for one write

ASSUME PendingAssumption == MaxPending \in Nat

\* handle_client_write and the console make only commands that apply accepts.
ASSUME ValidAssumption == NoOp = NoOpCommand /\ \A c \in Command : ValidCommand(c)

VARIABLES
  pending_writes,  \* per node, the map as a set of records with its key `index'
  pending_reads,   \* per node, likewise with its key `id'
  \* History: the Committed answers, the answered reads, and the commands
  \* answered InvalidRequest.
  committed_replies, read_replies, rejected

pending == <<pending_writes, pending_reads>>
replies == <<committed_replies, read_replies, rejected>>
svars == <<hvars, pending, replies>>

SInit ==
  /\ HInit
  /\ pending_writes = [i \in Server |-> {}]
  /\ pending_reads = [i \in Server |-> {}]
  /\ committed_replies = {}
  /\ read_replies = {}
  /\ rejected = {}

-----------------------------------------------------------------------------
(* process: what the server does with the outcome of an event.             *)

\* Mutant: a request outlives the leadership it was made under.
CurrentForever(i, p) == stopped'[i] = "None"

\* expire_pending keeps the request p, and no error has failed it.
Current(i, p) ==
  /\ stopped'[i] = "None"
  /\ Role(i)' = "Leader"
  /\ p.term = current_term'[i]

\* The indices in RaftNodeActions::applied.
AppliedNow(i) == (Len(applied[i]) + 1)..Len(applied'[i])

\* The ids in RaftNodeActions::ready_reads.
ReadyNow(i) ==
  IF leader_term'[i] = 0 THEN {}
  ELSE {r.id : r \in read_rounds[i]} \ {r.id : r \in read_rounds'[i]}

\* Mutant: the request id is taken for the request.
SameRequestId(state, c) == request_result(state, c.request_id) # Missing

\* request_result holds this very command.
SameRequest(state, c) ==
  LET prior == request_result(state, c.request_id) IN
  prior # Missing /\ prior.command = c

\* The Committed answer names the entry that first carried the request.
Committed(state, c) ==
  LET prior == request_result(state, c.request_id) IN
  [command |-> c, index |-> prior.index, term |-> prior.term]

\* The answer to a read: the value now, and how much was committed when it was
\* asked.
ReadReply(i, state, r) ==
  [key |-> r.key, value |-> get(state, r.key),
   floor |-> (CHOOSE f \in read_floor[i] : f.id = r.id).floor]

\* The requests in `writes' and `reads' are expired, failed, answered or kept.
process(i, writes, reads) ==
  LET state == Replay(applied'[i])
      done == {w \in writes : Current(i, w) /\ w.index \in AppliedNow(i)}
      ready == {r \in reads : Current(i, r) /\ r.id \in ReadyNow(i)}
  IN
  /\ pending_writes' = [pending_writes EXCEPT ![i] =
                          {w \in writes : Current(i, w)} \ done]
  /\ pending_reads' = [pending_reads EXCEPT ![i] =
                         {r \in reads : Current(i, r)} \ ready]
  /\ committed_replies' = committed_replies \cup
       {Committed(state, w.command) : w \in {x \in done : SameRequest(state, x.command)}}
  /\ rejected' = rejected \cup
       {w.command : w \in {x \in done : ~SameRequest(state, x.command)}}
  /\ read_replies' = read_replies \cup {ReadReply(i, state, r) : r \in ready}

-----------------------------------------------------------------------------
(* handle_client_write.                                                    *)

\* The same request id is waiting already.
Waiting(i, c) == {w \in pending_writes[i] : w.command.request_id = c.request_id}

HasRoom(i) ==
  Cardinality(pending_writes[i]) + Cardinality(pending_reads[i]) < MaxPending

ToLeader(i, c) == Live(i) /\ Role(i) = "Leader" /\ c.request_id # NoId

\* The request has been applied before: answered at once.
write_known(i, c) ==
  LET state == Replay(applied[i]) IN
  /\ ToLeader(i, c)
  /\ request_result(state, c.request_id) # Missing
  /\ IF SameRequest(state, c)
       THEN /\ committed_replies' = committed_replies \cup
                 {Committed(state, c)}
            /\ UNCHANGED rejected
       ELSE /\ rejected' = rejected \cup {c}
            /\ UNCHANGED committed_replies
  /\ UNCHANGED <<hvars, pending, read_replies>>

\* The request is waiting: one more client waits with it, or its id is taken.
write_joins(i, c) ==
  /\ ToLeader(i, c)
  /\ request_result(Replay(applied[i]), c.request_id) = Missing
  /\ \E w \in Waiting(i, c) :
       IF w.command # c
         THEN /\ rejected' = rejected \cup {c}
              /\ UNCHANGED pending_writes
         ELSE /\ w.connections < MaxPending
              /\ pending_writes' = [pending_writes EXCEPT ![i] =
                   (@ \ {w}) \cup {[w EXCEPT !.connections = @ + 1]}]
              /\ UNCHANGED rejected
  /\ UNCHANGED <<hvars, pending_reads, committed_replies, read_replies>>

\* A request that is proposed.
NewWrite(i, c) ==
  /\ ToLeader(i, c)
  /\ request_result(Replay(applied[i]), c.request_id) = Missing
  /\ Waiting(i, c) = {}
  /\ HasRoom(i)

\* pending_writes_.emplace: an index that is taken keeps its request.
Emplaced(i, c) ==
  LET index == Len(log[i]) + 1 IN
  IF \E w \in pending_writes[i] : w.index = index THEN pending_writes[i]
  ELSE pending_writes[i] \cup
         {[index |-> index, term |-> current_term[i], command |-> c, connections |-> 1]}

write_proposed(i, c) ==
  /\ NewWrite(i, c)
  /\ propose(i, c)
  /\ Record
  /\ process(i, Emplaced(i, c), pending_reads[i])

\* The history of RaftHistory moves on, and the server settles what it can.
Settle(i) == Record /\ process(i, pending_writes[i], pending_reads[i])

\* The node cannot write the entry: InternalError, and every other request fails.
write_proposal_fails(i, c) ==
  /\ NewWrite(i, c) \/ c.request_id = NoId
  /\ proposal_write_fails(i, c)
  /\ Settle(i)

\* handle_client_read.
client_read(i, key) ==
  /\ Live(i)
  /\ Role(i) = "Leader"
  /\ HasRoom(i)
  /\ read_barrier(i)
  /\ Record
  /\ process(i, pending_writes[i],
             pending_reads[i] \cup
               {[id |-> next_read_id[i], term |-> current_term[i], key |-> key]})

\* The console's put and delete: proposals without a request id.
console_write(i, c) ==
  /\ c.request_id = NoId
  /\ propose(i, c)
  /\ Settle(i)

-----------------------------------------------------------------------------
(* The events of the node.                                                 *)

Timer(i) ==
  on_election_timeout(i) \/ election_term_exhausted(i) \/ on_heartbeat_timeout(i)

\* A durable write fails while the node handles a timer or a message.
EventFails(i) ==
  \/ election_write_fails(i)
  \/ \E m \in msgs :
       /\ m.to = i
       /\ \/ term_write_fails(i, m)
          \/ vote_write_fails(i, m)
          \/ append_write_fails(i, m)
          \/ noop_write_fails(i, m)

\* The calls of clients and of the console.
Client(i) ==
  \/ \E c \in Command : \/ write_known(i, c)
                        \/ write_joins(i, c)
                        \/ write_proposed(i, c)
                        \/ console_write(i, c)
  \/ \E key \in Key : client_read(i, key)

\* The restart of a process loses its clients like a step down.
SNext ==
  \/ \E i \in Server : \/ Client(i)
                       \/ \E c \in Command : write_proposal_fails(i, c)
                       \/ Timer(i) /\ Settle(i)
                       \/ EventFails(i) /\ Settle(i)
                       \/ Restart(i) /\ Settle(i)
  \/ \E m \in msgs : Receive(m.to, m) /\ Settle(m.to)

SSpec == SInit /\ [][SNext]_svars

-----------------------------------------------------------------------------
(* Properties.                                                             *)

\* Every client that waits will be answered by the event it waits for: its write
\* stands in this leader's log at the index it is filed under, not applied yet,
\* and its read has its round in the node. Otherwise `emplace' could drop a client
\* or an answer go to the wrong one (pending_writes_ and pending_reads_ across
\* elections and truncations, expire_pending).
PendingIsTracked ==
  \A i \in Server : Live(i) =>
    /\ \A w \in pending_writes[i] :
         /\ w.index \in (Len(applied[i]) + 1)..Len(log[i])
         /\ log[i][w.index] = [term |-> w.term, command |-> w.command]
         /\ w.term = leader_term[i]
    /\ {r.id : r \in pending_reads[i]} = {r.id : r \in read_rounds[i]}

\* A client told Committed holds the term and index of the entry that made its
\* write take effect, for good: the committed history has the command there and
\* its request id nowhere before. So all answers to one request agree, through
\* retries at other leaders, repeated proposals and restarts ("The leader returns
\* the original committed index", README.md; process and handle_client_write).
CommittedTookEffect ==
  \A r \in committed_replies :
    /\ r.index <= Len(chosen)
    /\ chosen[r.index] = [term |-> r.term, command |-> r.command]
    /\ \A k \in 1..(r.index - 1) :
         chosen[k].command.request_id # r.command.request_id

\* A read returns the value of its key at some moment of the committed history
\* between its call and its answer. With CommittedTookEffect this makes the store
\* linearizable: a write that was answered before is in the history by then
\* (handle_client_read, process and KvStateMachine::get).
ReadsLinearizable ==
  \A r \in read_replies :
    \E k \in r.floor..Len(chosen) : r.value = get(Replay(SubSeq(chosen, 1, k)), r.key)

\* "Reusing an ID for different contents is rejected" (README.md): a command that
\* was answered InvalidRequest has no effect, then or later.
RejectedHasNoEffect ==
  \A c \in rejected : ~SameRequest(Replay(chosen), c)
=============================================================================
