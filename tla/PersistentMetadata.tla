------------------------- MODULE PersistentMetadata -------------------------
(***************************************************************************)
(* The term and vote of one node on disk (src/persistent_metadata.cpp):    *)
(* every update writes a new file beside the old one, renames it over the  *)
(* old name and syncs the directory. The process may die between any two   *)
(* system calls, any of them may fail, and the machine may lose power.     *)
(*                                                                         *)
(* `file' is what the path names now; `images' is what it may name after a *)
(* loss of power, until a sync settles it.                                 *)
(***************************************************************************)
EXTENDS Naturals

CONSTANTS
  MaxTerm,    \* the largest term
  Candidate,  \* node ids
  Nobody,     \* no vote
  Missing,    \* there is no file
  Torn        \* a file whose bytes are not a whole record

VARIABLES
  file, images,
  step,       \* the next system call of the process, or "closed" or "idle"
  state,      \* state_
  next,       \* the state being persisted
  synced,     \* the temporary file has been synced
  io_failed,  \* io_failed_
  promised    \* the last state a caller could act on, in any process so far

disk == <<file, images>>
mvars == <<disk, step, state, next, synced, io_failed, promised>>

\* RaftMetadata. A vote needs a term (encode_raft_metadata).
Metadata ==
  {s \in [current_term : 0..MaxTerm, voted_for : Candidate \cup {Nobody}] :
     s.current_term = 0 => s.voted_for = Nobody}

ASSUME MetadataAssumption ==
  /\ MaxTerm \in Nat
  /\ Nobody \notin Candidate
  /\ Missing \notin Metadata /\ Torn \notin Metadata /\ Missing # Torn

Fresh == [current_term |-> 0, voted_for |-> Nobody]

\* What open makes of a file it accepts: none is term zero without a vote.
Decoded(f) == IF f = Missing THEN Fresh ELSE f

Init ==
  /\ file = Missing
  /\ images = {Missing}
  /\ step = "closed"
  /\ state = Fresh
  /\ next = Fresh
  /\ synced = FALSE
  /\ io_failed = FALSE
  /\ promised = Fresh

-----------------------------------------------------------------------------

\* Mutant: a recovered file is used without syncing its directory.
CertifiedLater == images

\* open syncs the file and its directory before it lets the caller see the
\* state. There is nothing to sync when there is no file.
Certified == IF file = Missing THEN images ELSE {file}

open ==
  /\ step = "closed"
  /\ file # Torn
  /\ images' = Certified
  /\ step' = "idle"
  /\ state' = Decoded(file)
  /\ promised' = Decoded(file)
  /\ io_failed' = FALSE
  /\ UNCHANGED <<file, next, synced>>

\* A sync of open fails, before or after it took effect.
open_fails ==
  /\ step = "closed"
  /\ file \notin {Torn, Missing}
  /\ images' = {file}
  /\ UNCHANGED <<file, step, state, next, synced, io_failed, promised>>

\* Both updates: refused after an ambiguous failure, otherwise persist begins.
Begin(s) ==
  /\ step = "idle"
  /\ ~io_failed
  /\ next' = s
  /\ step' = "write"
  /\ synced' = FALSE
  /\ UNCHANGED <<disk, state, io_failed, promised>>

\* A smaller or equal term changes nothing.
advance_term(term) ==
  /\ term > state.current_term
  /\ Begin([current_term |-> term, voted_for |-> Nobody])

\* No term, the same vote and a conflicting vote change nothing.
vote_for(candidate) ==
  /\ state.current_term # 0
  /\ state.voted_for = Nobody
  /\ Begin([current_term |-> state.current_term, voted_for |-> candidate])

-----------------------------------------------------------------------------
(* persist, one system call after the other.                               *)

\* Mutant: the temporary file is closed without a sync.
write_temp_only ==
  /\ step = "write"
  /\ step' = "rename"
  /\ UNCHANGED <<disk, state, next, synced, io_failed, promised>>

\* The temporary file is written, synced and closed.
write_temp ==
  /\ step = "write"
  /\ step' = "rename"
  /\ synced' = TRUE
  /\ UNCHANGED <<disk, state, next, io_failed, promised>>

\* Or it is discarded: IoError, and nothing has happened.
write_temp_fails ==
  /\ step = "write"
  /\ step' = "idle"
  /\ UNCHANGED <<disk, state, next, synced, io_failed, promised>>

\* The names the path may have once the rename is under way.
Renamed == images \cup IF synced THEN {next} ELSE {next, Torn}

rename ==
  /\ step = "rename"
  /\ step' = "sync_directory"
  /\ file' = next
  /\ images' = Renamed
  /\ UNCHANGED <<state, next, synced, io_failed, promised>>

\* A failed rename may have replaced the file or not.
rename_fails ==
  /\ step = "rename"
  /\ step' = "idle"
  /\ io_failed' = TRUE
  /\ \/ UNCHANGED disk
     \/ file' = next /\ images' = Renamed
  /\ UNCHANGED <<state, next, synced, promised>>

\* Persisted: the caller may act on the new state.
sync_directory ==
  /\ step = "sync_directory"
  /\ step' = "idle"
  /\ images' = {file}
  /\ state' = next
  /\ promised' = next
  /\ UNCHANGED <<file, next, synced, io_failed>>

\* Mutant: the object stays usable.
sync_directory_shrugs ==
  /\ step = "sync_directory"
  /\ step' = "idle"
  /\ UNCHANGED <<disk, state, next, synced, io_failed, promised>>

sync_directory_fails ==
  /\ step = "sync_directory"
  /\ step' = "idle"
  /\ io_failed' = TRUE
  /\ UNCHANGED <<disk, state, next, synced, promised>>

-----------------------------------------------------------------------------

\* The process dies; the files are as they are.
Crash ==
  /\ step # "closed"
  /\ step' = "closed"
  /\ UNCHANGED <<disk, state, next, synced, io_failed, promised>>

\* The machine dies; the path names one of the images.
PowerLoss ==
  /\ step' = "closed"
  /\ \E f \in images : file' = f /\ images' = {f}
  /\ UNCHANGED <<state, next, synced, io_failed, promised>>

Next ==
  \/ open
  \/ open_fails
  \/ \E term \in 0..MaxTerm : advance_term(term)
  \/ \E candidate \in Candidate : vote_for(candidate)
  \/ write_temp
  \/ write_temp_fails
  \/ rename
  \/ rename_fails
  \/ sync_directory
  \/ sync_directory_fails
  \/ Crash
  \/ PowerLoss

Spec == Init /\ [][Next]_mvars

-----------------------------------------------------------------------------
(* Properties.                                                             *)

\* Every variable has its type.
TypeOK ==
  /\ file \in Metadata \cup {Missing, Torn}
  /\ images \subseteq Metadata \cup {Missing, Torn}
  /\ step \in {"closed", "idle", "write", "rename", "sync_directory"}
  /\ state \in Metadata
  /\ next \in Metadata
  /\ synced \in BOOLEAN
  /\ io_failed \in BOOLEAN
  /\ promised \in Metadata

\* No crash and no loss of power leaves a record open would refuse
\* (TruncatedRecord, CorruptRecord): the node can always come back.
NeverTorn == file # Torn /\ Torn \notin images

\* s takes back nothing of p: the term is later, or the vote of the term stands.
Upholds(s, p) ==
  \/ s.current_term > p.current_term
  \/ s.current_term = p.current_term /\ p.voted_for \in {Nobody, s.voted_for}

\* A term or vote a caller has acted on is never forgotten, whatever fails when:
\* every state a later open may find upholds it (Persisted in persist, and the
\* syncs of open that certify what an earlier process left behind).
PromiseKept ==
  \A f \in {file} \cup images : f # Torn => Upholds(Decoded(f), promised)

\* A usable object and the disk agree: whenever an update can begin, a loss of
\* power would bring back exactly state_ (io_failed_ after an ambiguous
\* replacement).
StateDurable ==
  step = "idle" /\ ~io_failed =>
    images = {file} /\ Decoded(file) = state
=============================================================================
