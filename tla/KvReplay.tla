------------------------------ MODULE KvReplay ------------------------------
(***************************************************************************)
(* One KvStateMachine object given commands at any index, and what the     *)
(* accepted commands mean when read as a whole.                            *)
(***************************************************************************)
EXTENDS KvStateMachine

CONSTANTS
  Offered,    \* the commands the object is given
  MaxEntries  \* bound: entries applied

\* A lookup that fails finds no value.
ASSUME OfferedAssumption == \A c \in Offered : c.type = "Put" => c.value # Missing

VARIABLES
  state,   \* the object
  history  \* the entries it has accepted, each with the result of its call

kvars == <<state, history>>

Key == {c.key : c \in Offered}
Ids == {c.request_id : c \in Offered} \ {NoId}

Init ==
  /\ state = NewState
  /\ history = <<>>

\* A call of apply. last_applied moves exactly when the command is accepted.
Call(index, c, term) ==
  LET made == apply(state, index, c, term) IN
  /\ state' = made.state
  /\ history' =
       IF made.state.last_applied # state.last_applied
         THEN Append(history, [command |-> c, term |-> term, result |-> made.result])
         ELSE history

Next ==
  /\ Len(history) < MaxEntries
  /\ \E index \in state.last_applied..(state.last_applied + 2), c \in Offered :
       Call(index, c, 1 + Len(history) \div 2)

Spec == Init /\ [][Next]_kvars

-----------------------------------------------------------------------------
(* The reference: what a history means, without replaying it.              *)

\* Entry k of the history h takes effect: it has no id, or is the first with it.
Effective(h, k) ==
  \A j \in 1..(k - 1) :
    \/ h[k].command.request_id = NoId
    \/ h[j].command.request_id # h[k].command.request_id

\* The effective writes to a key among the first n entries.
Writes(h, key, n) ==
  {k \in 1..n : /\ h[k].command.key = key /\ h[k].command.type \in {"Put", "Delete"}
                /\ Effective(h, k)}

\* The value of a key after the first n entries.
Value(h, key, n) ==
  IF Writes(h, key, n) = {} THEN Missing
  ELSE LET k == CHOOSE w \in Writes(h, key, n) : \A x \in Writes(h, key, n) : x <= w
       IN IF h[k].command.type = "Put" THEN h[k].command.value ELSE Missing

\* What entry k does, as the first with its id.
FirstResult(h, k) ==
  IF h[k].command.type = "Delete" /\ Value(h, h[k].command.key, k - 1) = Missing
    THEN "KeyNotFound" ELSE "Applied"

\* The entry among the first n that made the request `id' take effect, if any.
Firsts(h, id, n) == {k \in 1..n : h[k].command.request_id = id /\ Effective(h, k)}

-----------------------------------------------------------------------------
(* Properties.                                                             *)

\* The store is what the effective writes leave, read last to first: repeated and
\* conflicting requests take no effect, wherever they stand in the log
\* (KvStateMachine::apply, data_).
StoreIsEffectiveWrites ==
  /\ state.last_applied = Len(history)
  /\ \A key \in Key : get(state, key) = Value(history, key, Len(history))

\* The table of requests names, for each id, its first entry with the index, the
\* term and the result it had then: what a retry is answered after a failover
\* (KvStateMachine::request_result, applied_requests_).
RequestsNameFirstEntry ==
  \A id \in Ids :
    LET at == Firsts(history, id, Len(history)) IN
    request_result(state, id) =
      IF at = {} THEN Missing
      ELSE LET k == CHOOSE k \in at : TRUE IN
           [command |-> history[k].command, result |-> FirstResult(history, k),
            index |-> k, term |-> history[k].term]

\* An entry that repeats a request reports what the first one did, even when the
\* same call would now do something else, and one that reuses its id for other
\* contents reports a conflict (the early return of KvStateMachine::apply).
ResultsFaithful ==
  \A k \in 1..Len(history) :
    history[k].result =
      IF Effective(history, k) THEN FirstResult(history, k)
      ELSE LET first == CHOOSE j \in Firsts(history, history[k].command.request_id, k) : TRUE
           IN IF history[first].command = history[k].command THEN FirstResult(history, first)
              ELSE "RequestConflict"
=============================================================================
