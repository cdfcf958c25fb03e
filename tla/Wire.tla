-------------------------------- MODULE Wire --------------------------------
(***************************************************************************)
(* The messages on TCP connections (src/client_wire.cpp,                   *)
(* src/raft_wire.cpp): a version, a kind, the fields, a checksum. Sizes    *)
(* count cells (see Codecs). Callers treat every error of a decoder alike, *)
(* so a decoder returns the message or nothing.                            *)
(***************************************************************************)
EXTENDS Codecs
LOCAL INSTANCE SequencesExt

CONSTANTS
  max_client_request_size,  \* 1 MiB + 128
  max_client_frame_size,    \* 2 MiB + 128
  max_raft_frame_size       \* 8 MiB

ASSUME SizeAssumption ==
  /\ max_client_request_size \in Nat /\ max_client_frame_size \in Nat
  /\ max_raft_frame_size \in Nat

\* The checks every decoder starts with, given its version and the sizes it takes.
Genuine(bytes, version, sizes) ==
  /\ Len(bytes) \in sizes
  /\ bytes[1] = version
  /\ valid_checksum(bytes)

-----------------------------------------------------------------------------
(* Requests of clients.                                                     *)

client_version == 2
request_kind == 5
read_request_kind == 7
status_request_kind == 9

WriteCommand(c) == c.type # "NoOp" /\ c.request_id # NoId

encode_client_request(c) ==
  {Sealed(<<client_version, request_kind>> \o command) :
     command \in {b \in encode_command(c) :
                    WriteCommand(c) /\ Len(b) <= max_client_request_size - 3}}

decode_client_request(bytes) ==
  IF Genuine(bytes, client_version, 3..max_client_request_size)
       /\ bytes[2] = request_kind
    THEN {c \in decode_command(SubSeq(bytes, 3, Len(bytes) - 1)) : WriteCommand(c)}
    ELSE {}

encode_client_read_request(key) ==
  IF Len(key) > max_client_request_size - 4 THEN {}
  ELSE {Sealed(<<client_version, read_request_kind, Len(key)>> \o key)}

decode_client_read_request(bytes) ==
  IF /\ Genuine(bytes, client_version, 4..max_client_request_size)
     /\ bytes[2] = read_request_kind
     /\ bytes[3] = Len(bytes) - 4
    THEN {SubSeq(bytes, 4, Len(bytes) - 1)} ELSE {}

encode_client_status_request == {Sealed(<<client_version, status_request_kind>>)}

decode_client_status_request(bytes) ==
  Genuine(bytes, client_version, {3}) /\ bytes[2] = status_request_kind

-----------------------------------------------------------------------------
(* Replies to clients. `value' is a std::optional: a set of at most one.    *)

reply_kind == 6
read_reply_kind == 8
status_reply_kind == 10
reply_size == 6
read_reply_size == 7
status_reply_size == 16

WriteStatus ==
  [Committed |-> 1, NotLeader |-> 2, OutcomeUnknown |-> 3, InvalidRequest |-> 4,
   Busy |-> 5, InternalError |-> 6]
ReadStatus ==
  [Found |-> 1, NotFound |-> 2, NotLeader |-> 3, Busy |-> 4, InvalidRequest |-> 5,
   InternalError |-> 6]

ValidWriteReply(r) ==
  r.status \in 1..6 /\ (r.status = WriteStatus.Committed => r.index # 0)

\* Mutant: the index is put before the term.
encode_client_reply_swapped(r) ==
  IF ~ValidWriteReply(r) THEN {}
  ELSE {Sealed(<<client_version, reply_kind, r.status, r.index, r.term, r.leader_hint>>)}

encode_client_reply(r) ==
  IF ~ValidWriteReply(r) THEN {}
  ELSE {Sealed(<<client_version, reply_kind, r.status, r.term, r.index, r.leader_hint>>)}

decode_client_reply(bytes) ==
  IF Genuine(bytes, client_version, {reply_size + checksumSize}) /\ bytes[2] = reply_kind
    THEN {r \in {[status |-> bytes[3], term |-> bytes[4], index |-> bytes[5],
                  leader_hint |-> bytes[6]]} : ValidWriteReply(r)}
    ELSE {}

ValidReadReply(r) ==
  /\ r.status \in 1..6
  /\ (r.status = ReadStatus.Found) = (r.value # {})
  /\ r.status \in {ReadStatus.Found, ReadStatus.NotFound} => r.index # 0

\* The characters of an optional string.
Characters(value) == IF value = {} THEN <<>> ELSE CHOOSE v \in value : TRUE

encode_client_read_reply(r) ==
  IF \/ ~ValidReadReply(r)
     \/ Len(Characters(r.value)) > max_client_frame_size - read_reply_size - checksumSize
  THEN {}
  ELSE {Sealed(<<client_version, read_reply_kind, r.status, r.term, r.index,
                 r.leader_hint, Len(Characters(r.value))>> \o Characters(r.value))}

decode_client_read_reply(bytes) ==
  IF /\ Genuine(bytes, client_version,
                (read_reply_size + checksumSize)..max_client_frame_size)
     /\ bytes[2] = read_reply_kind
     /\ bytes[7] = Len(bytes) - read_reply_size - checksumSize
     /\ bytes[3] # ReadStatus.Found => bytes[7] = 0
    THEN {r \in {[status |-> bytes[3], term |-> bytes[4], index |-> bytes[5],
                  leader_hint |-> bytes[6],
                  value |-> IF bytes[3] = ReadStatus.Found
                              THEN {SubSeq(bytes, 8, Len(bytes) - 1)} ELSE {}]} :
            ValidReadReply(r)}
    ELSE {}

\* A status reply is its twelve numbers after status and role: node id, term,
\* known leader, last index, commit index, last applied, then id, next index and
\* match index of each peer.
valid_status_reply(r) ==
  LET n == r.numbers
      peer_ids == {n[7], n[10]}
  IN \/ r.status = 2 /\ r.role = 0 /\ n = [k \in 1..12 |-> 0]
     \/ /\ r.status = 1
        /\ r.role \in 1..3
        /\ n[6] <= n[5] /\ n[5] <= n[4]
        /\ n[7] # n[10] /\ n[1] \notin peer_ids /\ 0 \notin peer_ids \cup {n[1]}
        /\ IF r.role = 3
             THEN n[3] = n[1] /\ \A p \in {7, 10} : n[p + 2] < n[p + 1] /\ n[p + 2] <= n[4]
             ELSE \A k \in {8, 9, 11, 12} : n[k] = 0

encode_client_status_reply(r) ==
  IF ~valid_status_reply(r) THEN {}
  ELSE {Sealed(<<client_version, status_reply_kind, r.status, r.role>> \o r.numbers)}

decode_client_status_reply(bytes) ==
  IF /\ Genuine(bytes, client_version, {status_reply_size + checksumSize})
     /\ bytes[2] = status_reply_kind
    THEN {r \in {[status |-> bytes[3], role |-> bytes[4],
                  numbers |-> SubSeq(bytes, 5, status_reply_size)]} : valid_status_reply(r)}
    ELSE {}

-----------------------------------------------------------------------------
(* Envelopes between nodes. A message is its kind, the numbers before its     *)
(* AppendEntries if it has one, and that request as a set of at most one: the *)
(* request itself, or the one a reply echoes.                                 *)

raft_version == 3

\* The position of each alternative in RaftMessage, counted from one.
RequestVote == 1
RequestVoteReply == 2
AppendEntries == 3
AppendEntriesReply == 4

\* How many numbers a message of a kind starts with: of a vote request the term,
\* the candidate and its last index and term, of a reply the term and the answer.
Leading == <<4, 2, 0, 2>>

LogEntries == [index : Nat, term : Nat, command : CommandsOf(Seq(Nat), Nat)]

\* Its numbers: term, leader, index and term before the entries, commit index, read.
AppendRequests == [numbers : [1..6 -> Nat], entries : Seq(LogEntries)]

\* The messages there are.
RaftEnvelope(e) ==
  /\ e = [kind |-> e.kind, sender_id |-> e.sender_id, numbers |-> e.numbers, append |-> e.append]
  /\ e.kind \in 1..4 /\ e.sender_id \in Nat
  /\ e.numbers \in [1..Leading[e.kind] -> Nat]
  /\ e.kind \in {RequestVoteReply, AppendEntriesReply} => e.numbers[2] \in {0, 1}
  /\ IF e.kind \in {RequestVote, RequestVoteReply} THEN e.append = {}
     ELSE \E r \in e.append : e.append = {r} /\ r \in AppendRequests

put_append(r) ==
  LET records == [k \in DOMAIN r.entries |-> encode_log_entry(r.entries[k])] IN
  IF \E k \in DOMAIN records : records[k] = {} THEN {}
  ELSE {r.numbers \o <<Len(r.entries)>> \o
        FlattenSeq([k \in DOMAIN records |->
                      LET bytes == CHOOSE b \in records[k] : TRUE
                      IN <<Len(bytes)>> \o bytes])}

encode_raft_envelope(e) ==
  {Sealed(bytes) :
     bytes \in {b \in {<<raft_version, e.kind, e.sender_id>> \o e.numbers \o r :
                         r \in IF e.append = {} THEN {<<>>}
                               ELSE UNION {put_append(r) : r \in e.append}} :
                  /\ e.sender_id # 0
                  /\ Len(b) <= max_raft_frame_size - checksumSize}}

\* One turn of read_append's loop, on what was read so far.
ReadRecord(body, read) ==
  IF read.at > Len(body) \/ body[read.at] > Len(body) - read.at THEN {}
  ELSE LET length == body[read.at] IN
       {[at |-> read.at + length + 1, entries |-> Append(read.entries, d.entry)] :
          d \in {x \in decode_log_entry(SubSeq(body, read.at + 1, read.at + length)) :
                   x.bytes_consumed = length}}

\* The request whose six numbers start at `from', if it ends where the body does.
read_append(body, from) ==
  IF from + 6 > Len(body) \/ body[from + 6] > Len(body) - (from + 6) THEN {}
  ELSE LET read[k \in 0..body[from + 6]] ==
             IF k = 0 THEN {[at |-> from + 7, entries |-> <<>>]}
             ELSE UNION {ReadRecord(body, r) : r \in read[k - 1]}
       IN {[numbers |-> SubSeq(body, from, from + 5), entries |-> r.entries] :
             r \in {x \in read[body[from + 6]] : x.at = Len(body) + 1}}

\* The envelope with these bytes: what follows the leading numbers is nothing for
\* votes and exactly one request for the rest, and an answer is 0 or 1.
decode_raft_envelope(bytes) ==
  IF \/ ~Genuine(bytes, raft_version, 4..max_raft_frame_size)
     \/ bytes[2] \notin 1..4
     \/ bytes[3] = 0
     \/ Len(bytes) - 1 < 3 + Leading[bytes[2]]
     \/ Leading[bytes[2]] = 2 /\ bytes[5] > 1
  THEN {}
  ELSE LET kind == bytes[2]
           start == 4 + Leading[kind]
           appends == IF kind \in {RequestVote, RequestVoteReply}
                        THEN IF Len(bytes) = start THEN {{}} ELSE {}
                        ELSE {{r} : r \in read_append(Body(bytes), start)}
       IN {[kind |-> kind, sender_id |-> bytes[3],
            numbers |-> SubSeq(bytes, 4, start - 1), append |-> a] : a \in appends}
=============================================================================
