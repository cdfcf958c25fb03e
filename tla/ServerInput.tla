---------------------------- MODULE ServerInput ----------------------------
(***************************************************************************)
(* What reaches one node from outside, octet by octet: the frames of       *)
(* peers and of single-port clients on its listener and the lines of its   *)
(* console (receive_one and read_console in src/raft_server.cpp), and what *)
(* such a client makes of the answer (exchange and show_result in          *)
(* src/dkv_client.cpp).                                                    *)
(*                                                                         *)
(* A connection may break at any point, one cell of what it carries may    *)
(* change, and the other end may run an older version. The node behind is  *)
(* abstract: it may answer a request with any of the replies its handlers  *)
(* build for such requests (RaftServer has the handlers).                  *)
(***************************************************************************)
EXTENDS Wire, FiniteSets
LOCAL INSTANCE FiniteSetsExt

CONSTANTS
  Me,             \* the node, one of 1 to 3
  Requests,       \* what clients ask: [operation, body]
  Envelopes,      \* what peers send when they send no entries
  Entries,        \* the entries in logs
  Values,         \* the values stored
  Scripts,        \* what may be typed: sequences of words and newlines
  MaxLine,        \* the words a line may have: stands for 1 MiB
  Chunk           \* the words one read returns at most: stands for 4096

ASSUME InputAssumption ==
  /\ Me \in 1..3 /\ MaxLine \in Nat /\ Chunk \in Nat \ {0}
  /\ Scripts \subseteq Seq(STRING)

\* What is sent is of the types of the code.
ASSUME SentAssumption ==
  /\ Requests \subseteq [operation : {"Write"}, body : CommandsOf(Seq(Nat), Nat)]
                         \cup [operation : {"Read"}, body : Seq(Nat)]
                         \cup {[operation |-> "Status", body |-> <<>>]}
  /\ \A e \in Envelopes : RaftEnvelope(e)

\* An entry came in a request of a client or on a line of the console, and four of
\* the largest fit a frame, with what is around them: 4 MiB and little more of 8 MiB.
ASSUME EntriesAssumption ==
  /\ Entries \subseteq LogEntries
  /\ \A e \in Entries :
       /\ e.term # 0 /\ ValidContents(e.command)
       /\ \/ \A b \in encode_command(e.command) : Len(b) <= max_client_request_size - 3
          \/ e.command.request_id = NoId /\ Len(e.command.key) + Len(e.command.value) <= MaxLine
  /\ 4 * (max_client_request_size + 4) + 13 <= max_raft_frame_size
  /\ 4 * (MaxLine + 11) + 13 <= max_raft_frame_size

\* A reply has room for any value a request had room for, and for a status.
ASSUME ValuesAssumption ==
  /\ Values \subseteq Seq(Nat)
  /\ \A v \in Values : Len(v) <= max_client_frame_size - 8
  /\ 17 <= max_client_frame_size

VARIABLES
  running, fatal, blocked_peers,
  console_line, discarding_line, console_open,
  input,      \* what was typed and not read yet
  proposals,  \* the commands proposed from the console
  lines,      \* history: the lines handled
  script,     \* history: all that is ever typed
  last        \* history: the last connection

console == <<console_line, discarding_line, console_open, input, proposals, lines, script>>
ivars == <<running, fatal, blocked_peers, console, last>>

NewLine == "newline"
PeerIds == (1..3) \ {Me}

\* A connection: what was sent on it and whether it arrived as sent, what the
\* node took it for, the answer, whether that arrived as sent, and what the
\* client made of it. Optional parts are sets.
Connection(operation, sent, intact, taken, answer, returned, result) ==
  [operation |-> operation, sent |-> sent, intact |-> intact, taken |-> taken,
   answer |-> answer, returned |-> returned, result |-> result]

Init ==
  /\ running = TRUE /\ fatal = FALSE
  /\ blocked_peers = {}
  /\ console_line = <<>> /\ discarding_line = FALSE /\ console_open = TRUE
  /\ script \in Scripts
  /\ input = script
  /\ proposals = <<>>
  /\ lines = <<>>
  /\ last = Connection("None", {}, TRUE, {}, {}, TRUE, {})

-----------------------------------------------------------------------------
(* Frames.                                                                  *)

\* What write_all puts on the connection.
Stream(frame) == <<Len(frame)>> \o frame

\* What may become of it: cut short, one cell changed, or another version.
Damages(stream) ==
  {SubSeq(stream, 1, n) : n \in 0..(Len(stream) - 1)}
    \cup {[stream EXCEPT ![k] = v] : k \in DOMAIN stream, v \in {0, 1, 5, 6, 9}}
    \cup {Stream(Sealed([Body(Tail(stream)) EXCEPT ![1] = 1]))}

Arrivals(frame) == {Stream(frame)} \cup Damages(Stream(frame))

\* receive_frame, or its counterpart in exchange: the announced octets.
receive_frame(stream, max) ==
  IF stream = <<>> THEN {}
  ELSE IF stream[1] = 0 \/ stream[1] > max \/ stream[1] > Len(stream) - 1 THEN {}
  ELSE {SubSeq(stream, 2, stream[1] + 1)}

\* Mutant: a blocked peer is still listened to.
HeardAlways == PeerIds

\* The senders receive_one listens to.
Heard == PeerIds \ blocked_peers

\* What receive_one takes a frame for: the kind alone decides who decodes it.
Taken(frame) ==
  LET kind == IF Len(frame) >= 2 THEN frame[2] ELSE 0 IN
  CASE kind = request_kind ->
         {[operation |-> "Write", body |-> c] : c \in decode_client_request(frame)}
    [] kind = read_request_kind ->
         {[operation |-> "Read", body |-> k] : k \in decode_client_read_request(frame)}
    [] kind = status_request_kind ->
         IF decode_client_status_request(frame)
           THEN {[operation |-> "Status", body |-> <<>>]} ELSE {}
    [] OTHER ->
         {[operation |-> "Raft", body |-> e] :
            e \in {x \in decode_raft_envelope(frame) : x.sender_id \in Heard}}

-----------------------------------------------------------------------------
(* Answers. The numbers the node fills in: its term, an index in its log, a  *)
(* leader it knows of or 0.                                                 *)

Term == 2
Index == 3
Hints == {0, 3}

WriteReply(status, index, hint) ==
  [status |-> WriteStatus[status], term |-> Term, index |-> index, leader_hint |-> hint]

ReadReply(status, index, hint, value) ==
  [status |-> ReadStatus[status], term |-> Term, index |-> index,
   leader_hint |-> hint, value |-> value]

InvalidStatus == [status |-> 2, role |-> 0, numbers |-> [k \in 1..12 |-> 0]]

\* What handle_client_write, process, expire_pending and fail_pending answer.
WriteReplies(valid) ==
  IF ~valid THEN {WriteReply("InvalidRequest", 0, 0)}
  ELSE {WriteReply("Committed", Index, Me)}
         \cup {WriteReply(s, 0, Me) : s \in {"InvalidRequest", "Busy"}}
         \cup {WriteReply(s, 0, h) : s \in {"NotLeader", "InternalError"}, h \in Hints}
         \cup {WriteReply("OutcomeUnknown", Index, h) : h \in Hints}

\* The same for handle_client_read. A read is ready once an entry of the leader's
\* term is committed, so its index is not 0.
ReadReplies(valid) ==
  IF ~valid THEN {ReadReply("InvalidRequest", 0, 0, {})}
  ELSE {ReadReply("Found", Index, Me, {v}) : v \in Values}
         \cup {ReadReply("NotFound", Index, Me, {}), ReadReply("Busy", 0, Me, {})}
         \cup {ReadReply(s, 0, h, {}) : s \in {"NotLeader", "InternalError"}, h \in Hints}

\* handle_client_status: a follower, a candidate and a leader.
StatusReplies(valid) ==
  LET p == CHOOSE p \in PeerIds : \A q \in PeerIds : p <= q
      q == CHOOSE q \in PeerIds : q # p
      status(role, hint, applied, next) ==
        [status |-> 1, role |-> role,
         numbers |-> <<Me, Term, hint, Index, Index, applied>> \o <<p, next, 0, q, next, 0>>]
  IN IF ~valid THEN {InvalidStatus}
     ELSE {status(1, h, Index - 1, 0) : h \in Hints}
            \cup {status(2, 0, Index - 1, 0), status(3, Me, Index, Index + 1)}

\* The octets of an answer.
Reply(operation, reply) ==
  CASE operation = "Write" -> encode_client_reply(reply)
    [] operation = "Read" -> encode_client_read_reply(reply)
    [] operation = "Status" -> encode_client_status_reply(reply)

\* The answers a frame may get and their octets; frames of peers get none.
Answers(frame) ==
  LET kind == IF Len(frame) >= 2 THEN frame[2] ELSE 0
      valid == Taken(frame) # {}
      made(operation, replies) ==
        {[reply |-> r, bytes |-> Reply(operation, r)] : r \in replies}
  IN CASE kind = request_kind -> made("Write", WriteReplies(valid))
       [] kind = read_request_kind -> made("Read", ReadReplies(valid))
       [] kind = status_request_kind -> made("Status", StatusReplies(valid))
       [] OTHER -> {}

-----------------------------------------------------------------------------
(* The client.                                                              *)

Encoded(request) ==
  CASE request.operation = "Write" -> encode_client_request(request.body)
    [] request.operation = "Read" -> encode_client_read_request(request.body)
    [] request.operation = "Status" -> encode_client_status_request

Failure(error) == [error |-> error, reply |-> {}]

\* The second half of exchange, on what comes back.
exchange(operation, stream) ==
  LET decoded(bytes) ==
        CASE operation = "Write" -> decode_client_reply(bytes)
          [] operation = "Read" -> decode_client_read_reply(bytes)
          [] operation = "Status" -> decode_client_status_reply(bytes)
      frames == receive_frame(stream, max_client_frame_size)
      replies == UNION {decoded(f) : f \in frames}
  IN IF replies # {} THEN [error |-> "None", reply |-> replies]
     ELSE IF frames # {} \/ (stream # <<>> /\ stream[1] \notin 1..max_client_frame_size)
     THEN Failure("InvalidReply")
     ELSE Failure("ConnectionLost")

\* Mutant: an internal error is reported like a refusal.
RefusingWriteCodes == <<0, 3, 4, 2, 5, 2>>

\* The exit codes for the statuses of a write.
WriteCodes == <<0, 3, 4, 2, 5, 4>>

\* The exit code, by the status of the reply; also run_single's for a request it
\* cannot encode.
show_result(operation, result) ==
  IF result.error # "None"
    THEN CASE result.error = "ConnectionLost" -> 4 [] result.error = "NotSent" -> 2
           [] OTHER -> 5
    ELSE LET status == (CHOOSE r \in result.reply : TRUE).status IN
         CASE operation = "Write" -> WriteCodes[status]
           [] operation = "Read" -> <<0, 0, 3, 5, 2, 5>>[status]
           [] operation = "Status" -> <<0, 2>>[status]

-----------------------------------------------------------------------------
(* Connections, one at a time.                                              *)

Idle == running /\ last.operation = "None"

\* run_single against receive_one, whatever the network does to either direction.
\* A node that stops or loses the connection does not answer.
client_calls(request) ==
  /\ Idle
  /\ \E frame \in Encoded(request) : \E stream \in Arrivals(frame) :
       LET frames == receive_frame(stream, max_raft_frame_size)
           answers == {{}} \cup {{a} : a \in UNION {Answers(f) : f \in frames}}
       IN \E answer \in answers :
            LET octets == UNION {a.bytes : a \in answer} IN
            \E back \in IF octets = {} THEN {<<>>}
                        ELSE IF stream # Stream(frame) THEN {Stream(b) : b \in octets}
                        ELSE UNION {Arrivals(b) : b \in octets} :
              last' = Connection(request.operation, {request}, stream = Stream(frame),
                                 UNION {Taken(f) : f \in frames},
                                 {a.reply : a \in answer},
                                 \E b \in octets : back = Stream(b),
                                 {exchange(request.operation, back)})
  /\ UNCHANGED <<running, fatal, blocked_peers, console>>

\* The request cannot be encoded, or nobody listens.
client_fails(request) ==
  /\ Idle
  /\ last' = Connection(request.operation, {request}, FALSE, {}, {}, FALSE,
                        {Failure(IF Encoded(request) = {} THEN "NotSent"
                                 ELSE "ServerUnavailable")})
  /\ UNCHANGED <<running, fatal, blocked_peers, console>>

\* A frame of another node.
peer_sends(envelope) ==
  /\ Idle
  /\ \E frame \in encode_raft_envelope(envelope) : \E stream \in Arrivals(frame) :
       last' = Connection("Raft", {[operation |-> "Raft", body |-> envelope]},
                          stream = Stream(frame),
                          UNION {Taken(f) : f \in receive_frame(stream, max_raft_frame_size)},
                          {}, TRUE, {})
  /\ UNCHANGED <<running, fatal, blocked_peers, console>>

\* Mutant: the default of make_request.
default_batch == 64

\* How many entries queue_append asks make_request for.
batch_size == 4

\* A request with entries from a log, or the reply that echoes it.
Batch(kind, n, e) ==
  [kind |-> kind, sender_id |-> Me, numbers |-> IF kind = AppendEntriesReply THEN <<Term, 1>> ELSE <<>>,
   append |-> {[numbers |-> <<Term, Me, 0, 0, 0, 0>>,
                entries |-> [k \in 1..n |-> [e EXCEPT !.index = k]]]}]

\* The loop over the messages of an event in process: send_frame to a peer, if there
\* is a frame that can hold the message.
process_sends(peer, envelope) ==
  /\ Idle
  /\ peer \notin blocked_peers
  /\ LET framed == encode_raft_envelope(envelope) # {}
     IN /\ last' = Connection("Send", {peer}, framed, {}, {}, TRUE, {})
        /\ running' = framed
        /\ fatal' = ~framed
  /\ UNCHANGED <<blocked_peers, console>>

close ==
  /\ last.operation # "None"
  /\ last' = Connection("None", {}, TRUE, {}, {}, TRUE, {})
  /\ UNCHANGED <<running, fatal, blocked_peers, console>>

-----------------------------------------------------------------------------
(* The console.                                                             *)

\* The peer a word names, if it may be blocked.
PeerNamed(word) == {p \in PeerIds : <<"1", "2", "3">>[p] = word}

\* The word a line begins with.
Operation(line) == IF line = <<>> THEN "" ELSE line[1]

\* A line that is passed to propose.
Proposes(line) == Operation(line) \in {"put", "delete"} /\ Len(line) >= 2

\* What the n-th line that is handled does to the loop of run: it ends with `quit', and
\* with a proposal whose error is fatal in process, here that of line `fails'.
EndsLoop(n, line, fails) == Operation(line) = "quit" \/ (n = fails /\ Proposes(line))

\* What a command line does to the server; other lines only print something.
handle_console_line(s, line, fails) ==
  LET operation == Operation(line)
      named == IF Len(line) = 2 THEN PeerNamed(line[2]) ELSE {}
      proposed(type, value) == [type |-> type, key |-> line[2], value |-> value]
  IN [s EXCEPT
        !.lines = Append(@, line),
        !.running = ~EndsLoop(Len(s.lines) + 1, line, fails),
        !.blocked = CASE operation = "block" -> @ \cup named
                      [] operation = "unblock" -> @ \ named
                      [] OTHER -> @,
        !.proposals =
          CASE Proposes(line) /\ operation = "put" ->
                 Append(@, proposed("Put", SubSeq(line, 3, Len(line))))
            [] Proposes(line) /\ operation = "delete" -> Append(@, proposed("Delete", <<>>))
            [] OTHER -> @]

\* Mutant: the rest of a line that is too long is taken for a line.
ReadWordAfterLimit(s, word, fails) ==
  IF ~s.running THEN s
  ELSE IF word = NewLine THEN [handle_console_line(s, s.line, fails) EXCEPT !.line = <<>>]
  ELSE IF Len(s.line) < MaxLine THEN [s EXCEPT !.line = Append(@, word)]
  ELSE [s EXCEPT !.line = <<>>]

\* One turn of read_console's loop.
ReadWord(s, word, fails) ==
  IF ~s.running THEN s
  ELSE IF s.discarding THEN [s EXCEPT !.discarding = word # NewLine]
  ELSE IF word = NewLine THEN [handle_console_line(s, s.line, fails) EXCEPT !.line = <<>>]
  ELSE IF Len(s.line) < MaxLine THEN [s EXCEPT !.line = Append(@, word)]
  ELSE [s EXCEPT !.line = <<>>, !.discarding = TRUE]

\* A read of `count' words, while the node survives what it proposes or, at one of the
\* lines, does not. When the other end has hung up, poll says so along with the data,
\* and run closes the console after this read, however much is left.
read_console(count, hung_up, fails) ==
  /\ Idle
  /\ console_open
  /\ LET read[k \in 0..count] ==
           IF k = 0 THEN [line |-> console_line, discarding |-> discarding_line,
                          running |-> running, blocked |-> blocked_peers,
                          proposals |-> proposals, lines |-> lines]
           ELSE ReadWord(read[k - 1], input[k], fails)
         s == read[count]
     IN /\ console_line' = s.line
        /\ discarding_line' = s.discarding
        /\ running' = s.running
        /\ fatal' = (~s.running /\ Operation(s.lines[Len(s.lines)]) # "quit")
        /\ blocked_peers' = s.blocked
        /\ proposals' = s.proposals
        /\ lines' = s.lines
  /\ input' = SubSeq(input, count + 1, Len(input))
  /\ console_open' = (count # 0 /\ ~hung_up)
  /\ UNCHANGED <<script, last>>

\* The lines a read of `count' words may fail at; 0 is none.
Failing(count) == {0} \cup (Len(lines) + 1)..(Len(lines) + count)

Readable == IF Len(input) < Chunk THEN Len(input) ELSE Chunk

Next ==
  \/ \E request \in Requests : client_calls(request) \/ client_fails(request)
  \/ \E envelope \in Envelopes : peer_sends(envelope)
  \/ \E peer \in PeerIds, kind \in {AppendEntries, AppendEntriesReply}, n \in 0..batch_size,
        e \in Entries : process_sends(peer, Batch(kind, n, e))
  \/ close
  \/ \E count \in 1..Readable : \E fails \in Failing(count) : read_console(count, FALSE, fails)
  \/ \E fails \in Failing(Readable) : read_console(Readable, TRUE, fails)
  \/ input = <<>> /\ read_console(0, FALSE, 0)

Spec == Init /\ [][Next]_ivars

-----------------------------------------------------------------------------
(* Properties.                                                             *)

\* What arrives whole is taken for what was sent: whatever a client can encode, up to
\* the largest request, is taken, also while peers are blocked (README: "Client
\* requests, including `status`, remain available while a peer is blocked").
WholeTaken ==
  last.intact =>
    /\ last.taken # {} => last.taken = last.sent
    /\ last.operation \in {"Write", "Read", "Status"} => last.taken = last.sent

\* And a node acts on a message only as it was sent: nothing that was cut short, that
\* changed on the way or that an older version wrote is taken for a message
\* (receive_frame, the decoders; README: "older versions are rejected").
TakenAsSent == WholeTaken /\ (~last.intact => last.taken = {})

\* The peers blocked by the lines typed so far.
BlockedByConsole ==
  {p \in PeerIds :
     \E k \in DOMAIN lines :
       /\ lines[k] = <<"block", <<"1", "2", "3">>[p]>>
       /\ \A j \in (k + 1)..Len(lines) : lines[j] # <<"unblock", <<"1", "2", "3">>[p]>>}

\* After `block', until `unblock', nothing of a peer is acted on and nothing is sent
\* to it, and otherwise its messages get through (blocked_peers_ in receive_one and
\* process; README: "These drop Raft messages to and from that peer").
BlockCutsLink ==
  /\ last.operation = "Send" => last.sent \cap BlockedByConsole = {}
  /\ last.operation = "Raft" /\ last.intact =>
       \A m \in last.sent :
         (last.taken # {}) = (m.body.sender_id \in PeerIds \ BlockedByConsole)

\* Every answer the handlers build has an encoding that fits a frame, and a client
\* that gets it whole reads from it what the node put in: no reply is taken for another.
WholeUnderstood ==
  last.operation \in {"Write", "Read", "Status"} /\ last.intact =>
    /\ \A a \in last.answer : \E b \in Reply(last.operation, a) : Len(b) <= max_client_frame_size
    /\ last.returned => \A r \in last.result : r.reply = last.answer

\* And nothing else is read from what comes back, whatever has become of it.
AnswersUnderstood ==
  /\ WholeUnderstood
  /\ last.operation \in {"Write", "Read", "Status"} =>
       \A r \in last.result : r.reply # {} => last.returned /\ r.reply = last.answer

\* The exit code of a write never claims more than is known: 0 only when the node
\* has committed it, 2 or 3 only when the node refused it or never got it. A write
\* that may still take effect ends in 4, or in 5 when the answer was unreadable.
ExitCodesHonest ==
  last.operation = "Write" =>
    \A r \in last.result :
      LET code == show_result("Write", r)
          said == {a.status : a \in last.answer}
      IN /\ code = 0 => last.taken = last.sent /\ said = {WriteStatus.Committed}
         /\ code \in {2, 3} => \/ r.error = "NotSent"
                               \/ said \subseteq {WriteStatus.InvalidRequest, WriteStatus.NotLeader}
                                    /\ said # {}

\* What was read from the console so far.
ReadSoFar == SubSeq(script, 1, Len(script) - Len(input))

\* The lines that end in it, in order, without those that are too long.
LinesRead ==
  LET text == ReadSoFar
      begin(k) == 1 + Max({0} \cup {j \in 1..(k - 1) : text[j] = NewLine})
      upto[k \in 0..Len(text)] ==
        IF k = 0 THEN <<>>
        ELSE IF text[k] = NewLine /\ k - begin(k) <= MaxLine
        THEN Append(upto[k - 1], SubSeq(text, begin(k), k - 1))
        ELSE upto[k - 1]
  IN upto[Len(text)]

\* However reads cut the input up, the server handles each line whole and once, in
\* order, without the lines that are too long. It goes on to the next line unless the
\* last was `quit' or a proposal the node did not survive, and after that line, which
\* alone ends the loop, it handles none (read_console, handle_console_line, process).
LinesWhole ==
  LET n == Len(lines)
      quit(line) == line # <<>> /\ line[1] = "quit"
  IN /\ n <= Len(LinesRead) /\ lines = SubSeq(LinesRead, 1, n)
     /\ n < Len(LinesRead) => n # 0 /\ (quit(lines[n]) \/ (fatal /\ Proposes(lines[n])))
     /\ n < Len(LinesRead) => ~running
     /\ \A k \in 1..n : quit(lines[k]) => k = n /\ ~running
     /\ ~running => fatal \/ (n # 0 /\ quit(lines[n]))

\* No message a node sends is too large for its frame, whatever the entries clients
\* and consoles got into the logs: a node never stops because of the size of what
\* it replicates (queue_append: "Keep socket frames bounded even when the log has a
\* long backlog").
FramesBounded == last.operation = "Send" => last.intact
=============================================================================
