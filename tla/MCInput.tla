------------------------------ MODULE MCInput ------------------------------
(***************************************************************************)
(* An instance of ServerInput for TLC. A mebibyte is 16 cells.             *)
(***************************************************************************)
EXTENDS ServerInput

Text(n) == [k \in 1..n |-> 7]

Write(type, key, value) ==
  [operation |-> "Write",
   body |-> [type |-> type, key |-> key, value |-> value, request_id |-> 8]]

\* Short ones, the largest that can be sent, and ones that cannot be.
MCRequests ==
  {Write("Put", <<5>>, <<6>>), Write("Put", Text(1), Text(8)), Write("Put", Text(1), Text(9)),
   Write("Delete", <<5>>, <<>>), Write("Delete", <<5>>, <<6>>),
   [operation |-> "Read", body |-> <<5>>], [operation |-> "Read", body |-> Text(13)],
   [operation |-> "Read", body |-> Text(14)], [operation |-> "Status", body |-> <<>>]}

Entry(key, value, id) ==
  [index |-> 1, term |-> 2,
   command |-> [type |-> "Put", key |-> key, value |-> value, request_id |-> id]]

\* The largest a client can write, the largest that fits a line of the console, and
\* a short one.
MCEntries ==
  {Entry(Text(1), Text(8), 8), Entry(Text(1), Text(14), NoId), Entry(<<5>>, <<6>>, NoId)}

Envelope(kind, sender, numbers, append) ==
  [kind |-> kind, sender_id |-> sender, numbers |-> numbers, append |-> append]

Request(entries) == [numbers |-> <<2, 2, 0, 0, 0, 5>>, entries |-> entries]

\* Node 4 is none of the three, node 1 is the receiver.
MCEnvelopes ==
  {Envelope(RequestVote, s, <<2, s, 3, 1>>, {}) : s \in 1..4}
    \cup {Envelope(RequestVoteReply, 2, <<2, granted>>, {}) : granted \in 0..1}
    \cup {Envelope(AppendEntries, 2, <<>>, {Request(<<Entry(<<5>>, <<6>>, 8)>>)}),
          Envelope(AppendEntries, 3, <<>>, {Request(<<>>)}),
          Envelope(AppendEntriesReply, 2, <<2, 0>>, {Request(<<Entry(<<5>>, <<>>, NoId)>>)})}

MCValues == {<<>>, <<6>>, Text(14)}

Typed(line) == Append(line, NewLine)
TooLong == [k \in 1..17 |-> "quit"]

MCScripts ==
  {Typed(<<"block", "2">>) \o Typed(<<"unblock", "2">>) \o <<"block">>,
   Typed(<<"block", "3", "3">>) \o Typed(<<"block", "1">>) \o Typed(<<"put", "x", "y">>),
   Typed(TooLong) \o Typed(<<"block", "3">>),
   Typed(<<"put", "x", "y">>) \o Typed(<<"block", "3">>) \o Typed(<<"delete", "x">>),
   Typed(<<"delete", "x">>) \o Typed(<<"quit">>) \o Typed(<<"block", "2">>)}
=============================================================================
