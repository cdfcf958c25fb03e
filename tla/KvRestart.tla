----------------------------- MODULE KvRestart -----------------------------
(***************************************************************************)
(* What a restart makes of the log file that holds the commands KvReplay   *)
(* has accepted: PersistentLog::open reads its bytes, and the entries are  *)
(* applied again.                                                          *)
(***************************************************************************)
EXTENDS KvReplay, Codecs
LOCAL INSTANCE SequencesExt

\* Keys, values and request ids are what the codecs have cells for.
ASSUME TextAssumption == Empty = <<>> /\ Offered \subseteq CommandsOf(Seq(Nat), Nat)

\* Accepted command k as the entry that brought it.
Entry(k) ==
  [index |-> k, term |-> history[k].term, command |-> history[k].command]

\* The records of the first n entries, as append leaves them.
File(n) ==
  FlattenSeq([k \in 1..n |-> CHOOSE bytes \in encode_log_entry(Entry(k)) : TRUE])

\* One turn of open's loop, on what it has read so far.
ReadEntry(bytes, log) ==
  LET remaining == SubSeq(bytes, log.offset + 1, Len(bytes)) IN
  IF log.offset = Len(bytes) \/ log.error # "None" THEN log
  ELSE IF Incomplete(remaining) THEN [log EXCEPT !.error = "TruncatedRecord"]
  ELSE IF decode_log_entry(remaining) = {} THEN [log EXCEPT !.error = "CorruptRecord"]
  ELSE LET decoded == CHOOSE d \in decode_log_entry(remaining) : TRUE IN
       IF decoded.entry.index # Len(log.entries) + 1
         THEN [log EXCEPT !.error = "NonSequentialIndex"]
         ELSE [log EXCEPT !.entries = Append(@, decoded.entry),
                          !.offset = @ + decoded.bytes_consumed]

\* The loop ends after at most one turn for each cell. An error leaves no log.
open(bytes) ==
  LET log[n \in 0..Len(bytes)] ==
        IF n = 0 THEN [offset |-> 0, entries |-> <<>>, error |-> "None"]
        ELSE ReadEntry(bytes, log[n - 1])
      read == log[Len(bytes)]
  IN [error |-> read.error,
      entries |-> IF read.error = "None" THEN read.entries ELSE <<>>]

-----------------------------------------------------------------------------
(* Properties.                                                             *)

\* A restart rebuilds the very state from the records on disk: values, request ids
\* with their indices, terms and results (README: "IDs and results are reconstructed
\* from the replicated log after failover or restart").
RestartRebuilds ==
  LET opened == open(File(Len(history))) IN
  opened.error = "None" /\ Replay(opened.entries) = state

\* A file that ends between two records is read as far as it goes, and one that ends
\* inside a record is not opened: what a crash leaves is never taken for another log.
CutsRefused ==
  LET n == Len(history)
      file == File(n)
      ends == {Len(File(k)) : k \in 0..n}
  IN /\ \A k \in 0..n :
          open(File(k)) = [error |-> "None", entries |-> [j \in 1..k |-> Entry(j)]]
     /\ \A k \in DOMAIN file \ ends : open(SubSeq(file, 1, k)).error = "TruncatedRecord"

\* Nor is a file opened of which one cell has changed.
ChangesRefused ==
  LET file == File(Len(history)) IN
  \A k \in DOMAIN file : \A v \in {0, file[k] + 1} \ {file[k]} :
    open([file EXCEPT ![k] = v]).error # "None"

\* A damaged log is never mistaken for another one (PersistentLog::open,
\* decode_log_entry).
DamageRefused == CutsRefused /\ ChangesRefused
=============================================================================
