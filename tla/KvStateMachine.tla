--------------------------- MODULE KvStateMachine ---------------------------
(***************************************************************************)
(* The key-value state machine (src/kv_state_machine.cpp) as functions of  *)
(* its state: the stored values, the table of answered requests and the    *)
(* last applied index.                                                     *)
(***************************************************************************)
EXTENDS KvCommand, Naturals, Sequences

CONSTANTS
  Empty,   \* the empty key or value
  Missing  \* what a lookup that finds nothing returns

\* The Command a new leader appends.
NoOpCommand == [type |-> "NoOp", key |-> Empty, value |-> Empty, request_id |-> NoId]

\* A newly made object. The two maps are functions from what they hold.
NewState == [data |-> <<>>, applied_requests |-> <<>>, last_applied |-> 0]

get(state, key) == IF key \in DOMAIN state.data THEN state.data[key] ELSE Missing

request_result(state, id) ==
  IF id \in DOMAIN state.applied_requests THEN state.applied_requests[id] ELSE Missing

\* The commands apply does not refuse.
ValidCommand(c) ==
  \/ c.type = "Put"
  \/ c.type = "Delete" /\ c.value = Empty
  \/ c.type = "NoOp" /\ c.key = Empty /\ c.value = Empty /\ c.request_id = NoId

\* One of the maps with a key inserted or assigned.
Inserted(map, key, value) ==
  [x \in DOMAIN map \cup {key} |-> IF x = key THEN value ELSE map[x]]

\* Mutant: a value already stored is not replaced.
StoredOnce(data, c) ==
  CASE c.type = "Put" -> IF c.key \in DOMAIN data THEN data ELSE Inserted(data, c.key, c.value)
    [] c.type = "Delete" -> [k \in DOMAIN data \ {c.key} |-> data[k]]
    [] OTHER -> data

\* The switch of apply: the values afterwards.
Stored(data, c) ==
  CASE c.type = "Put" -> Inserted(data, c.key, c.value)
    [] c.type = "Delete" -> [k \in DOMAIN data \ {c.key} |-> data[k]]
    [] OTHER -> data

Outcome(data, c) ==
  IF c.type = "Delete" /\ c.key \notin DOMAIN data THEN "KeyNotFound" ELSE "Applied"

\* A command that takes effect, and is remembered if it has a request id.
Executed(state, index, c, term) ==
  [result |-> Outcome(state.data, c),
   state |->
     [data |-> Stored(state.data, c),
      applied_requests |->
        IF c.request_id = NoId THEN state.applied_requests
        ELSE Inserted(state.applied_requests, c.request_id,
                      [command |-> c, result |-> Outcome(state.data, c),
                       index |-> index, term |-> term]),
      last_applied |-> index]]

\* Mutant: a repeated request takes effect again.
apply_again(state, index, c, term) ==
  IF index # state.last_applied + 1 THEN [result |-> "UnexpectedIndex", state |-> state]
  ELSE IF ~ValidCommand(c) THEN [result |-> "InvalidCommand", state |-> state]
  ELSE Executed(state, index, c, term)

\* Mutant: a request in conflict with an earlier one is answered like a repetition.
apply_blind(state, index, c, term) ==
  IF index # state.last_applied + 1 THEN [result |-> "UnexpectedIndex", state |-> state]
  ELSE IF ~ValidCommand(c) THEN [result |-> "InvalidCommand", state |-> state]
  ELSE IF c.request_id \in DOMAIN state.applied_requests
  THEN [result |-> request_result(state, c.request_id).result,
        state |-> [state EXCEPT !.last_applied = index]]
  ELSE Executed(state, index, c, term)

\* apply: the result and the state afterwards. A request id seen before takes no
\* effect again: a repetition gets the first result, other contents a conflict.
apply(state, index, c, term) ==
  IF index # state.last_applied + 1 THEN [result |-> "UnexpectedIndex", state |-> state]
  ELSE IF ~ValidCommand(c) THEN [result |-> "InvalidCommand", state |-> state]
  ELSE IF c.request_id \in DOMAIN state.applied_requests
  THEN LET prior == request_result(state, c.request_id) IN
       [result |-> IF prior.command = c THEN prior.result ELSE "RequestConflict",
        state |-> [state EXCEPT !.last_applied = index]]
  ELSE Executed(state, index, c, term)

\* One turn of apply_committed's loop.
Feed(state, entry) ==
  apply(state, state.last_applied + 1, entry.command, entry.term).state

\* The state after a whole log has been applied (apply_committed's loop).
Replay(entries) ==
  LET after[n \in 0..Len(entries)] ==
        IF n = 0 THEN NewState ELSE Feed(after[n - 1], entries[n])
  IN after[Len(entries)]
=============================================================================
