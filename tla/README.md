# TLA+ model of DistributedKVStore

DistributedKVStore is a replicated key-value store in C++: three server processes
run Raft over TCP, keep a log and a metadata file each, and answer a command-line
client. This directory models its core in TLA+, checks it with TLC on small
instances, and proves some of its properties with TLAPS for every value of the
constants.

Paths below are relative to the repository (`src/raft_node.cpp` is the file next to
`include/dkv/raft_node.hpp`).

## The system

| part | source | state | operations |
|---|---|---|---|
| Raft node | `raft_node.cpp` | commit index, state machine, leader hint, read rounds, the error that stopped it | `on_election_timeout`, `on_heartbeat_timeout`, `on_request_vote`, `on_vote_reply`, `on_append_entries`, `on_append_reply`, `propose`, `read_barrier`, `open` |
| Election, voting | `raft_election.cpp`, `raft_vote.cpp` | role, election term, replies and votes received | `start_election`, `handle_vote_reply`, `become_follower`, `handle_request_vote` |
| Replication | `raft_leader.cpp`, `raft_append.cpp` | per peer next index, match index and the outstanding request | `make_request`, `append_command`, `handle_reply`, `advance_commit_index`, `handle_append_entries` |
| Applying, state machine | `raft_apply.cpp`, `kv_state_machine.cpp` | the map of keys, the results by request id, last applied index | `apply_committed`, `apply`, `get`, `request_result` |
| Persistent metadata | `persistent_metadata.cpp` | term and vote, in memory and in a file | `open`, `advance_term`, `vote_for`, `persist` |
| Persistent log | `persistent_log.cpp` | entries, in memory and in a file | `open`, `append`, `truncate_suffix` |
| Server | `raft_server.cpp` | the clients waiting for writes and reads, two deadlines, blocked peers, the console line read so far | `run`, `process`, `receive_one`, `handle_client_write`, `handle_client_read`, `handle_client_status`, `read_console`, `handle_console_line` |
| Client | `dkv_client.cpp` | which node to ask, which were asked, the deadline | `run_cluster`, `run_single`, `exchange`, `show_result` |
| Codecs, wire formats, CRC32 | `*_codec.cpp`, `*_wire.cpp`, `crc32.cpp` | none | encode, decode |

How they interact. Each server is one thread: it takes a timer, a frame from a peer
or a client, or a console line, calls one handler of its `RaftNode`, and then
`process` sends the messages the handler returned and answers the clients whose
entries were applied or whose reads are ready. A handler's durable writes go
through `PersistentMetadata` and `PersistentLog` synchronously and before any
message leaves. Servers share nothing but messages, each over a connection of its
own: a message to a peer that cannot be reached is dropped, and a timer sends it
again. The client opens a connection per attempt.

What is hard in it:

* a crash or failed write between two durable writes of one handler (term, then
  vote; truncation, then several appends; append, then the answer);
* messages lost, repeated, late and out of order. The acknowledgments carry no
  sequence number: the leader compares the echoed request;
* two nodes that believe they lead at one time, with writes, reads and waiting
  clients at both;
* a write retried at another node while its first proposal still stands in the
  log, and request ids used twice;
* the order of write, sync, rename and directory sync, each of which may fail;
* counters at the end of their range;
* two nodes that reach each other again after losses and crashes: whether their
  timers ever let one of them lead, when nothing but a timer repeats a message;
* connections that break inside a frame, fields that change, console input that
  arrives in pieces, entries near the limit of a frame.

What makes each part correct: at most one leader per term, votes that survive
crashes; logs that match, committed entries that stay; state machines fed prefixes
of one history; an acknowledged term, vote or entry never forgotten, a truncated
entry never back; a `Committed` answer that names the entry that took effect, reads
that are linearizable; a client that finds the leader if there is one; a connected
majority that comes to agree; a message acted on only as it was sent; a log file that
gives back the state it was written from, or nothing.

## The modules

`RaftLog` holds the constants, entries and messages, and the functions over logs
and requests: `candidate_log_is_up_to_date`, the checks and the merge of
`handle_append_entries`, `make_request`, the rule of `advance_commit_index`.

`RaftNode` is the cluster. Its variables are the members of the C++ objects, as
functions from nodes; `read_rounds` stands for the read ids, their indices and
probes. An action is one handler call, and a handler with several outcomes is several
actions with disjoint guards (`append_reply_steps_down`, `_failed`, `_recorded`,
`_committed`, `_ready_read`). The trailing steps of a handler, that is committing,
applying, starting the reads that waited and queueing the next requests, are part of
the action. A crash or an I/O error inside a handler is a `..._write_fails` action
that leaves one of the durable images the order of the writes allows; `Restart` is
`RaftNode::open` on whatever is on disk. The network `msgs` is the set of all
messages ever sent: not receiving one is loss, receiving it late or twice is delay
and repetition.

The commit index and the state machine are not persisted: a restarted node has an
empty state machine. `RaftNode` therefore keeps `applied`, the sequence given to the
state machine since the process began, and `KvStateMachine!Replay` makes of it the
state of the object.

`RaftHistory` adds what the properties need to look back: the longest committed
prefix (`chosen`), and how much was committed when each read was asked. No action
reads them. `ReplicatedLog` is the abstract specification: one history that only
grows, and replicas fed prefixes of it that may start over. `RaftHistory` refines it
with `committed <- chosen, fed <- applied`.

`KvCommand` has the type of a command. `KvStateMachine` gives `apply`, `get` and
`request_result` as operators on a record
of the object's members; `Replay` applies the committed entries one after another
(`Feed`). `KvReplay` gives an object commands in any order at any index and compares it
with a reference definition that reads the whole history at once. `KvRestart` writes the
accepted entries with `encode_log_entry` and reads them back with the loop of
`PersistentLog::open`, from the whole file, from each prefix (`CutsRefused`), and with each field changed
(`ChangesRefused`).

`Codecs` has the layouts of commands and log records, `Wire` those of client messages
and Raft envelopes. A cell is one field or one character, and sizes count cells, so a
layout is a sequence of numbers that is put together, measured and taken apart as in
the code; encoders and decoders return a set that is empty for an error. `crc32` is a
stand-in: like CRC32 it changes when one field of the input changes. It is taken
row by row of sixteen cells, so that TLC's recursion stays short.

`ServerInput` puts `Wire` on a node's listener and adds its console. A connection
carries one request or envelope, whole or damaged, `Taken` is what `receive_one` makes
of it, and for a client `exchange` and `show_result` give the reply it understands and
its exit code. The node behind is abstract: it gives any answer its handlers can build.
The console is a sequence of words and newlines that reads cut up at any place. A `put` or
`delete` goes through `propose` and `process`, and any one of them may be the one whose
error ends the loop: `read_console` then drops the rest of its read, as after `quit`, but
the server is `fatal`. The same holds when `process` has a message no frame can hold.

`RaftServer` composes `RaftHistory` and `KvStateMachine`: a server step is a node
step followed by `process`, in one action as in the code. `pending_writes` and
`pending_reads` are the maps of the class, as sets of records with their keys.
`NotLeader` and `Busy` answers change nothing and are not actions. `block` on the
console makes the server drop a peer's messages, which is loss (`ServerInput` has the
commands).

`RaftTimers` is the loop around the node: `run`'s two deadlines, the listener's queue,
and `process` sending each message once. It instantiates `RaftNode` with `msgs <-
outbox`, so that a message is gone unless it is delivered, and every handler is the
action of `RaftNode`. The probe of a read is in the outbox when the read starts
(`NewlyStarted`), and again only when the heartbeat repeats it (`Probes`). Before `stable` anything may be lost, timers fire at any moment
and processes start over. After it the nodes of `Up` reach each other, time passes only
while every loop waits in `poll`, and deadlines count down.

`PersistentMetadata` and `PersistentLog` model one file each, one system call per
action. `file` is what a process sees, `images` what may be there after a loss of
power: a write, rename or truncation adds to it, a sync reduces it to one. A record
is whole or torn. `RaftNode` uses what these modules establish (an update that
returned is durable, one that was cut short is there or not) as single steps.

`ClusterClient` is the client's loop, with time in units of its 75 ms pause and
arbitrary answers, hints and delays.

`RaftBudget` holds the bounds of the cluster instances, `MCRaft` and `MCServers` the
instances; `MCProgress`, `MCInput` and `MCKv` are those of `RaftTimers`, `ServerInput`
and `KvReplay` with `KvRestart`.

`RaftLedger` states the invariants from which the cluster's safety is proved; the modules
named `...Proofs` hold the proofs. Those of the cluster build on each other:
`RaftNodeProofs` (types, votes, one node and its leader object) and `RaftServerProofs`
(logs and commits, the history, the servers). `KvProofs` is about the replay of a log,
`KvReplayProofs` about the state machine, the records of its entries and reading them back,
`ServerInputProofs` about frames and the console. The other three are each about the module
they are named for.

In several modules a definition that models code is preceded by one marked
"Mutant": the same code with a plausible bug. Put in place of the original it breaks
the property that `PROJECT.json` pairs it with.

## The runs

The instances of the cluster have three nodes, as the program has. A run explores one
or two plans (`Plans`). A plan says who may stand for election in which terms, which
links ever deliver, how many distinct messages are sent, how many faults (crashes of
running nodes and failed writes) there are and how often a node is asked to read. Within it any message may still be lost,
repeated or reordered. Each choice leaves room for the scenario the run is about; the
rest of the freedom is cut to keep the run within minutes.

| run | instance | what it shows |
|---|---|---|
| `recovery` | n1 leads twice on one link with two faults, or n2 takes over from it with all reaching n2 and one fault; batches of two | votes are backed by disks (`ElectionInv`, the inductive invariant of the proof); the role and the leader object agree (`LeaderObjectActive`); logs match and committed entries are on two disks although writes are cut short between truncation and append (`LogMatching`, `CommittedOnMajority`); match indices are backed by the follower's disk (`MatchIsDurable`); the status a node would report is one its codec accepts (`StatusEncodable`); counters end without wrapping (`TypeOK`) |
| `commitment` | n1 and n3 compete in term 1 and alternate over four, n2 votes (the schedule of figure 8 of the Raft paper) | no two leaders of a term (`ElectionSafety`); `LeaderCompleteness`; no late request is unusable (`RequestsUsable`); the refinement of `ReplicatedLog` (`ReplicatedSpec`) |
| `stale_ack` | n1 leads, n2 follows, one fault | violated, see Findings |
| `progress` | n1 and n2 run, n3 is down; empty disks, or n1 and n2 with conflicting entries; one of them may stand and n2 may restart before `stable`; proposals up to a log of three, one read | the two come to have a leader and apply its log (`Converges`); reads end (`ReadsEnd`); heartbeats keep a settled leader (`LeadershipLasts`); no node is stopped by an answer (`NobodyStops`) |
| `retries` | two contents under one id sent again and again to n1 and n2 in turn, one fault | waiting clients are filed where their answer will come from (`PendingIsTracked`); `Committed` names the one entry that took effect, also when clients disagree (`CommittedTookEffect`) |
| `linearizable` | n1 leads, then n2, while the console writes, two read ids; one read at either over links through n2, or two at either between n1 and n2 | a read that is handed over has everything that was committed anywhere when it was asked (`ReadsAreFresh`) and returns a value of its time (`ReadsLinearizable`); a leadership gives each id out once, so that no acknowledgment in flight confirms a read asked later (`ReadIdsNameOneRead`); `PendingIsTracked` for reads |
| `rejection` | two contents under one id, one fault | violated, see Findings |
| `metadata` | three terms, two candidates | `PromiseKept`, `NeverTorn`, `StateDurable` under every failure and loss of power |
| `log` | two entries, length three | `RecoversConfirmed`, `FileIsLog` likewise |
| `kv` | every sequence of four commands over two keys, values and ids, malformed ones included | the state machine agrees with the reference reading (`StoreIsEffectiveWrites`, `RequestsNameFirstEntry`, `ResultsFaithful`); a restart from the file rebuilds it (`RestartRebuilds`); a cut or altered file is refused (`DamageRefused`) |
| `input` | requests and envelopes of every kind, short and of the largest size, every cut and every changed field in either direction; consoles that block, propose, quit and type too much, any proposal failing; a node that follows, stands or leads; a mebibyte is 16 cells, 4096 octets are 8 words | only what was sent is taken, and all a client can send (`TakenAsSent`); blocking cuts a link and nothing else (`BlockCutsLink`); answers are read as written (`AnswersUnderstood`); exit codes claim no more than is known (`ExitCodesHonest`); what is read is handled line by line, up to `quit` or the proposal that ended the loop (`LinesWhole`); the largest entries fit a frame (`FramesBounded`) |
| `client` | 8 s, 1 s and 75 ms in units of the pause | nodes take turns, a steady leader is found, the loop ends |

Bounds that stand for the program's: `MaxTerm`, `MaxIndex` and `MaxReadId` for 2^64-1,
`MaxBatch` for
the four entries of a request, `MaxPending` for 1024. Where a run is not about
these limits the constraint `NoLimit` leaves out the states in which a node has
stopped at one. `CHECK_DEADLOCK FALSE` is in the runs with a budget, which end when it
is spent, in `kv`, whose sequences end, in `progress`, where the terms may run out, and
in `input`, where the console may stop the server; `metadata`, `log` and `client` are
checked for deadlock.

Two nodes and one link suffice in the runs about one leader and one follower, because
a majority of three is two and a third node that never answers is among the
behaviours of the network. The runs about two leaders let both reach n2, the voter
their majorities share.

In `progress` the unit of time is about 150 ms: a heartbeat is due after one, an election
after two, the order that 100 ms and 300 to 600 ms have in the code. That both nodes
draw the same delay is the hard case; which of them is first is then open. Four terms
leave room for elections that are lost, before `stable` and after it.

Fairness is assumed in two places. In `ClusterClient` it is weak fairness of the loop's
step, since the loop is one thread and every exchange ends by its own deadline.
`FindsLeader` needs no fairness: it says that the loop does not give up while some
node leads all the while and answers each attempt it is given in full. In `RaftTimers`
it is weak fairness of what the servers do of themselves (`System`), since each is one
loop that polls with a bounded wait and no handler waits for another, and of
`stabilise`, the assumption that the trouble ends. Clients, proposals and restarts are
not fair. Two assumptions go with `stable`: messages outrun the timers, and two nodes do
not time out within one message delay of each other. The second is what the random
delays are for; without it two candidates could split every vote, as in any Raft.
`Converges` still allows that elections are lost until the terms of the instance are
spent (`TermsSpent`).

## The proofs

They hold for any commands, terms, lengths and batch sizes, and any number of clients.
The assumptions are those of `RaftLog` (`ServerAssumption`: three nodes, `Nobody` none of
them; `CommandAssumption`; `BoundAssumption`), `PersistentMetadata`, `PersistentLog`,
`RaftServer` (`PendingAssumption`; `ValidAssumption`: the commands that are proposed are
ones `apply` accepts, since the decoder of client requests and the console build no
others), `KvReplay` (`OfferedAssumption`: no value is the one that stands for a failed
lookup), and of these:

* `ClusterClient`: `TimeAssumption`, and `DeadlineAssumption`: the deadline leaves time for an
  attempt and a pause at each of the three nodes (8 s against 1.075 s).
* `KvRestart`: `TextAssumption`, keys, values and request ids are sequences of cells and cells.
* `Wire`, `ServerInput`: the sizes are numbers; what is sent has the types of the code
  (`SentAssumption`); an entry came in a request of a client or on a line of the console, and
  four of the largest fit a frame, as 4 MiB do in 8 MiB (`EntriesAssumption`); a value that was
  found came in a request, so a reply has room for it (`ValuesAssumption`).

TLC evaluates them in the runs.

* `TypeCorrect` (`RaftNodeProofs`). `TypeOK` is inductive as it stands. The argument is
  in the requests: `make_request` reads an entry that exists because the next index is
  within the log and one past its end.
* `ElectionInvariant`, `ElectionSafe` (`RaftNodeProofs`). That no two nodes lead
  one term is not inductive: it says nothing of votes. `ElectionInv` adds that every
  candidacy and every granted vote ever sent is backed by the sender's metadata or by a
  later term of it (`VotesBacked`), hence that votes of one node in one term agree
  (`VotesUnique`), and that whoever leads or sends entries stood and got a vote
  (`LeadersElected`). Most actions are `Quiet`: they neither ask for nor give votes, and
  lead only where an election has been held; one lemma covers them. Standing and
  voting are proved one by one. Among three nodes two winners of one term share a
  voter (`OneElected`).
* `NodeInvariant`, `LeaderObjectIsActive`, `StatusIsEncodable`
  (`RaftNodeProofs`). `NodeInv` (`RaftLedger`) is what one node knows: its leader object
  exists only while role, metadata and log say so, the state machine was fed the committed
  prefix, what the leader tracks of a peer and of its reads stays inside its log and its commit
  index. The module also sorts the actions into a few kinds of step: `StepOf(i)` says that
  only node i moves, and that it stands (`Campaigns`), votes (`Votes`), takes entries of a
  request or, when the write fails, some of them (`Takes`), writes an entry of its own
  (`Grows`), commits by the majority rule (`Commits`) or does none of these (`Rests`). The
  proofs of `RaftServerProofs` have one case per kind and do not look at the actions again.
* `LogsAreWritten`, `LogsMatch` (`RaftServerProofs`). Log matching is not inductive: a
  request in flight can carry entries whose leader has since lost them. The proof keeps a
  ledger, per term the log `L[t]` of its leader and the leader `W[t]`, as far as it was ever
  written. `LogInv` says that every log, every batch in flight and the ledger
  itself are, entry for entry, what the ledger has for the entry's term. The
  ledger is no variable of the model: the theorems say that in every reachable state there is
  one, and each step is shown to extend it. Election safety gives the one writer of a term.
* `ClusterIsSafe`, `MatchesAreDurable`, `RequestsAreUsable` (`RaftServerProofs`). The
  difficulty is that a commit is a fact about two nodes and an old term while logs may be cut
  back in between. `QuorumInv` says that what a node has acknowledged in term t (`Acked`) is
  still on its disk, and in the log of every later leader and of every candidate
  with its vote, unless the index is `Dead`: two nodes have left term t without acknowledging it.
  Dead indices stay dead and can never gather a majority of three, so what was chosen
  lives (`ChosenLives`, `ChosenKept`). `CommitInv` says that every commit index, in a node or a
  message, is `Backed` by two acknowledgments of an entry of the leader's own term: the rule
  of `advance_commit_index`.
* `HistoryIsRecorded`, `CommittedIsOnMajority`, `LeadersAreComplete`, `HistoryReplicates`
  (`RaftServerProofs`). `chosen` is itself backed and no commit index passes it. A commit by
  the majority rule extends it, because both are prefixes of the logs of chosen entries; a
  commit index taken from a leader stays within it. From this each step of the cluster
  is a `Commit`, a `Learn` or a `Reset` of `ReplicatedLog`, or stutters.
* `FloorsAreMet`, `ReadsSeeCommitted` (`RaftServerProofs`). A leader that has been deposed
  without knowing it may still take reads, so "what was committed is in its log" is false.
  `FloorsMet` says that for every read in progress either both peers have left the leader's term
  without confirming it (`Missed`), and then nobody ever will, or what was committed when
  it was asked is below the leader's commit index or below its first own entry (`Covered`). A
  read gets its index only where an entry of the leader's term is committed, hence above it.
  This uses that the leader which committed `chosen` knows of it as long as it leads
  (`CommittedIn`).
* `ReadIdsAreOnce` (`RaftServerProofs`). Probes are compared by value, and two of one leadership
  with one id and one index are equal, so the id must tell reads apart. `NodeInv` bounds the
  ids on the probes that were sent by the next id, and says that a read whose id is on one has
  its index. That the same holds of acknowledgments is not a fact about the leader: it
  follows from `AcksSent`, part of `QuorumInv`, that what a success echoes has been sent.
* `ServersTrack`, `ClientsAreTracked` (`RaftServerProofs`). `ServerInv` adds to
  `PendingIsTracked` the types of the two maps and, for reads, the term they were asked in.
  The hard steps are those at whose end `process` runs: after an election, a truncation or a
  step-down it must have answered everyone the node will not answer. `Settled` proves this
  once for every step of the node, from the kinds of step above: an entry that a client waits
  for stays in the log while its leader leads, and is removed from the map in the step that
  applies it. Admitting a client (`ProposalAdmits`, `ReadAdmits`, `JoinTracks`) is proved
  apart: a write is filed under the index its proposal took, a read under the id of the round
  that `read_barrier` began in the same step.
* `ReadsAreLinearizable` (`RaftServerProofs`). A state machine was fed a prefix of `chosen`
  (`HistoryFeeds`), and that prefix is at least as long as what was committed when the
  read was asked (`HandedFresh`). The value returned is therefore that of its key after a
  prefix of the history of the time in between, and it stays one as the history grows.
* `CommittedIsEffective` (`RaftServerProofs`). `Committed` is answered from the table of
  requests of a state machine that was fed a prefix of `chosen`; by `ReplayRemembers` the table
  names the first entry with the id in that prefix, hence in the whole history, and with
  the contents the client sent (`SameRequest`).
* `ReplayRemembers` (`KvProofs`). What the table of requests holds after a whole log. This
  is an induction over the entries, and the library's induction theorems cannot be
  instantiated here. `SetInduction` states induction for a set of numbers and is proved
  from the well-foundedness of `<`; `StepsExist` uses it to show that the recursive function in
  `Replay` has the values its definition says.
* `StateFollowsHistory`, `StoreFollowsWrites`, `TableNamesFirst`, `AnswersAreFaithful`
  (`KvReplayProofs`). The three properties are not inductive by themselves: the result of a
  repeated request comes from the table, and that of a first one from the store.
  `KvInv` joins them with `Remembers` and with the fact that the history's meaning up to an
  entry does not depend on later ones (`PrefixMeaning`). A call that is refused changes
  nothing; an accepted one is the first of its id or is not, which are the two cases.
* `ReplayRebuilds` (`KvReplayProofs`). Replaying the accepted entries on a new object gives
  the state the object has: what a restart does once it has the entries.
* `RestartIsRebuilt`, `CutsAreRefused` (`KvReplayProofs`). The bytes of the file give the state
  back. A record is read as the entry it was written for whatever follows it, and one that is
  cut is recognised by its length (`EntryBytes`); by induction over the
  records the loop of `PersistentLog::open` has read the first k entries when it stands at the
  end of the k-th record. Neither uses the checksum, except that it is what was written.
* `FramesAreBounded` (`ServerInputProofs`). The sizes of a whole batch of the largest entries,
  added up through `encode_command`, `encode_log_entry` and `encode_raft_envelope`, and of the
  reply that echoes it.
* `WholeIsTaken`, `WholeIsUnderstood` (`ServerInputProofs`). Decoders undo encoders: the
  kind in the second octet sends each frame to its own decoder, the length fields come to
  exactly what is there, and the entries of an envelope are taken off its octets one after
  another. They are `WholeTaken` and `WholeUnderstood`, the parts of `TakenAsSent` and
  `AnswersUnderstood` about what arrives as it was sent.
* `CutAndOldAreDropped`, `HonestUnlessMisread` (`ServerInputProofs`). Of damaged frames, those
  that are cut are not received, since their length says that there is more, and those of an
  older version are not decoded, whatever their checksum. The exit codes add no error of their
  own: `HonestUnlessMisread` states `ExitCodesHonest` for every state in which `TakenAsSent`
  and `AnswersUnderstood` hold. The codes 0, 2 and 3 follow from the status, and a node
  says `Committed` only to what it has taken for a request.
* `ConsoleInvariant`, `LinesAreWhole`, `BlockingCuts` (`ServerInputProofs`). A read may end
  anywhere, so the two properties say nothing of a line that is half read. `ConsoleInv` does:
  after m words of what is typed the console holds the words since the last newline, unless
  they are too many and it skips them, or has stopped at the first line that ended the loop,
  `quit` or a proposal that failed; the lines
  handled are those that ended within the m words, up to that one, and `blocked_peers` is what `block` and
  `unblock` among them left. A read is then an induction over its words (`ConsoleRead`).
* `ClientInvariant`, `NodesAreAsked`, `LeaderIsFound` (`ClusterClientProofs`). `NodesTakeTurns`
  is not inductive, for it says nothing of the round the client is in. `RoundsFair` bounds
  the attempts at others apart for the nodes the round has passed and those it has not;
  `LeaderAhead` says that a steady leader is not passed in the first round and that each node
  passed has cost an attempt and a pause at most.
* `PromisesKept`, `RecordsWhole`, `StateOnDisk` (`PersistentMetadataProofs`). The
  invariant relates, for each system call of `persist`, the file, the images a power
  loss may leave, and the states before and after the update.
* `ConfirmedRecovered`, `FileAgrees` (`PersistentLogProofs`). `Progress` says the
  same of the log: before an operation the file is the log, between write and sync
  the images are the old log, the new one and the old one with a part of a record
  behind it, during the repair of a failed append nothing acknowledged is touched.

`NodeInv`, `LogInv`, `QuorumInv` and `CommitInv` were model-checked before they were proved, on
the instances of `recovery` and `commitment` with the ledger as a history variable;
`FloorsMet` on that of `linearizable`, `ServerInv` on those of `linearizable` and `retries`.

Only model-checked:

* liveness (`Terminates`, `Converges`, `ReadsEnd`), which is out of the prover's reach;
* what is claimed of changed fields: `ChangesRefused`, the half of `DamageRefused` about them,
  and what `TakenAsSent` and `AnswersUnderstood` say of frames in which one has changed. This
  holds of a checksum only with its odds (see Not modelled), and of the stand-in only on the
  instances, where it is known what a changed length moves the checksum to; a theorem would
  have to assume what it claims. `ExitCodesHonest` is proved from these two properties and
  so, without a hypothesis, is only model-checked;
* what rests on the timers and on the order in which a listener serves its connections
  (`LeadershipLasts`, `NobodyStops`).

## Findings

1. *A stale refusal can stop a leader* (run `stale_ack`, `raft_leader.cpp:144`). The
   comment at `include/dkv/raft_wire.hpp:13` says that replies echo the request "so the
   leader can reject stale or reordered acknowledgments". The comparison is by value.
   If the leader sends an identical request twice, a late copy of the refusal of the
   first is taken for the answer to the second; if the follower has acknowledged
   entries in between, the leader concludes that it is inconsistent and stops. It
   takes two connections that are served in another order than they were made: with
   one queue per listener, as in `RaftTimers`, `NobodyStops` holds.
2. *The original of two conflicting writes can be the one rejected* (run `rejection`,
   `raft_server.cpp:394`). The README of the repository says that the leader returns the
   original index if a request was applied, that reusing an id for different contents is
   rejected, and that this is reconstructed after a restart. Until a restarted leader's
   no-op commits, nothing is applied; a second client that reuses the id is let in, and
   a retry of the first client's committed write is answered `InvalidRequest`, which
   the client takes for final.

Observations on which no property is violated:

* A crash in the middle of an append leaves part of a record at the end of the log file,
  which `PersistentLog::open` refuses (`TruncatedRecord`). Such a node does not come back
  without help. `RecoversConfirmed` states it as one of the outcomes, `DamageRefused` that
  there is no other.
* A client that cannot read the answer to a write ends with code 5, as if the server had
  not been reached, although the write may have been committed. `ExitCodesHonest` allows
  it: only 0, 2 and 3 are definite.
* When the console's other end hangs up, the server closes it after one more read,
  however much is left. The model has this loss, but no property is about it: `LinesWhole`
  speaks only of what is read.

## Not modelled

* Octets: a field is one cell. A field that is cut in two counts as missing, which is how
  the readers treat it, and the order of octets within a number is left out.
* CRC32 itself. The stand-in detects one changed field, as CRC32 does up to 32 bits in a
  row. A changed length moves the place where the checksum is looked for, and is detected
  only with the odds of a checksum; the instances hold for the stand-in.
* The metadata record's layout: the file is replaced as a whole (`PersistentMetadata`), so
  a record is whole or torn.
* The limits on waiting clients as something to get wrong: `HasRoom` guards the actions, but
  it is never false in the runs and `Busy` is no action, so no property would notice a
  limit that is off by one.
* Elections lost over and over: `Converges` allows the terms of its instance to run out
  (`TermsSpent`), and so says nothing of a node with an old log that keeps standing and
  keeps a better one from it. Only the random delays are against that.
* How long a blocked send or receive takes (300 ms each) compared with the timers.
* Socket calls, signals, argument parsing, random request ids, printing.

## Plan

Done: the core (`RaftLog`, `RaftNode`, `RaftHistory`, `ReplicatedLog`), the state
machine, the server with its loop, frames and console, the client, both files, codecs and
wire formats, liveness of a connected majority; the theorems on the files, of the cluster
type correctness, election safety, log matching, leader completeness, the refinement
of `ReplicatedLog` and fresh reads, of the servers tracked clients, linearizable reads and
committed writes, of the state machine its agreement with the reference and its return from
the file, of frames and console all but damage, and of the client its turns. What is left:

1. `RaftNode` on top of the two files: a composition in which a handler's durable
   writes are the system calls of `PersistentMetadata` and `PersistentLog`, shown to
   implement the single steps of `RaftNode`.
2. `NobodyStops` of `RaftTimers` as a theorem: what the order of a listener's queue excludes.
