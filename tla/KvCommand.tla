----------------------------- MODULE KvCommand -----------------------------
(***************************************************************************)
(* The Command of include/dkv/command.hpp, which the state machine, the    *)
(* records of the log and the messages share.                              *)
(***************************************************************************)

CONSTANT NoId  \* an empty std::optional<RequestId>

\* The commands with such keys and values and such request ids, or none.
CommandsOf(Text, Id) ==
  [type : {"Put", "Delete", "NoOp"}, key : Text, value : Text,
   request_id : {NoId} \cup Id]
=============================================================================
