--------------------------- MODULE PersistentLog ---------------------------
(***************************************************************************)
(* The log file of one node (src/persistent_log.cpp): records are written  *)
(* at the end and synced, a suffix is cut off and synced, a failed append  *)
(* is undone. The process may die between any two system calls, any of     *)
(* them may fail, and the machine may lose power.                          *)
(*                                                                         *)
(* A file is its whole records and whether part of another one follows.    *)
(* `file' is what the process sees; `images' is what may be there after a  *)
(* loss of power, until a sync settles it.                                 *)
(***************************************************************************)
EXTENDS Naturals, Sequences

CONSTANTS
  Entry,     \* the entries appended
  MaxLength  \* bound: entries in the log

ASSUME LogAssumption == MaxLength \in Nat

VARIABLES
  file, images,
  step,       \* the next system call of the process, or "closed" or "idle"
  entries,    \* entries_; file_size_ is their total size
  next,       \* the entry being appended
  keep,       \* how many entries the truncation keeps
  io_failed,  \* io_failed_
  confirmed,  \* the last log a caller could act on, in any process so far
  attempted   \* the log the operation in progress, or last cut short, aims at

disk == <<file, images>>
args == <<next, keep>>
history == <<confirmed, attempted>>
lvars == <<disk, step, entries, args, io_failed, history>>

Whole(s) == [records |-> s, torn |-> FALSE]
Part(s) == [records |-> s, torn |-> TRUE]

Steps ==
  {"closed", "idle", "write", "sync", "restore", "restore_sync", "cut", "cut_sync"}

NoEntry == <<>>

Init ==
  /\ file = Whole(<<>>)
  /\ images = {Whole(<<>>)}
  /\ step = "closed"
  /\ entries = <<>>
  /\ next = NoEntry
  /\ keep = 0
  /\ io_failed = FALSE
  /\ confirmed = <<>>
  /\ attempted = <<>>

-----------------------------------------------------------------------------

\* Mutant: the file is read without syncing it.
OpenedImages == images

\* open syncs the file and its directory before it reads.
SyncedImages == {file}

\* A file that ends in part of a record is refused (TruncatedRecord).
open ==
  /\ step = "closed"
  /\ ~file.torn
  /\ step' = "idle"
  /\ images' = SyncedImages
  /\ entries' = file.records
  /\ io_failed' = FALSE
  /\ confirmed' = file.records
  /\ attempted' = file.records
  /\ UNCHANGED <<file, args>>

\* One of the syncs fails after it took effect, or the file is refused.
open_fails ==
  /\ step = "closed"
  /\ images' = {file}
  /\ UNCHANGED <<file, step, entries, args, io_failed, history>>

-----------------------------------------------------------------------------
(* append, one system call after the other.                                *)

append(e) ==
  /\ step = "idle"
  /\ ~io_failed
  /\ Len(entries) < MaxLength
  /\ next' = <<e>>
  /\ step' = "write"
  /\ attempted' = entries \o <<e>>
  /\ UNCHANGED <<disk, entries, keep, io_failed, confirmed>>

\* pwrite at file_size_, behind the last known record.
Base == SubSeq(file.records, 1, Len(entries))

write ==
  /\ step = "write"
  /\ step' = "sync"
  /\ file' = Whole(Base \o next)
  /\ images' = images \cup {file', Part(Base)}
  /\ UNCHANGED <<entries, args, io_failed, history>>

\* Nothing, part of the record or all of it was written.
write_fails ==
  /\ step = "write"
  /\ step' = "restore"
  /\ file' \in {file, Part(Base), Whole(Base \o next)}
  /\ images' = images \cup {file', Part(Base)}
  /\ UNCHANGED <<entries, args, io_failed, history>>

\* Appended: the caller may act on the new entry.
sync ==
  /\ step = "sync"
  /\ step' = "idle"
  /\ images' = {file}
  /\ entries' = entries \o next
  /\ confirmed' = entries \o next
  /\ UNCHANGED <<file, args, io_failed, attempted>>

sync_fails ==
  /\ step = "sync"
  /\ step' = "restore"
  /\ UNCHANGED <<disk, entries, args, io_failed, history>>

\* restore_file_size cuts the file back to file_size_.
restore ==
  /\ step = "restore"
  /\ step' = "restore_sync"
  /\ file' = Whole(Base)
  /\ images' = images \cup {file'}
  /\ UNCHANGED <<entries, args, io_failed, history>>

\* IoError with the file as it was: the object stays usable.
restore_sync ==
  /\ step = "restore_sync"
  /\ step' = "idle"
  /\ images' = {file}
  /\ UNCHANGED <<file, entries, args, io_failed, history>>

\* Mutant: the object stays usable when the file could not be restored.
restore_shrugs ==
  /\ step \in {"restore", "restore_sync"}
  /\ step' = "idle"
  /\ UNCHANGED <<disk, entries, args, io_failed, history>>

restore_fails ==
  /\ step \in {"restore", "restore_sync"}
  /\ step' = "idle"
  /\ io_failed' = TRUE
  /\ UNCHANGED <<disk, entries, args, history>>

-----------------------------------------------------------------------------
(* truncate_suffix.                                                        *)

\* An index outside the log is refused (InvalidIndex) and changes nothing.
truncate_suffix(first) ==
  /\ step = "idle"
  /\ ~io_failed
  /\ first \in 1..Len(entries)
  /\ keep' = first - 1
  /\ step' = "cut"
  /\ attempted' = SubSeq(entries, 1, first - 1)
  /\ UNCHANGED <<disk, entries, next, io_failed, confirmed>>

cut ==
  /\ step = "cut"
  /\ step' = "cut_sync"
  /\ file' = Whole(SubSeq(file.records, 1, keep))
  /\ images' = images \cup {file'}
  /\ UNCHANGED <<entries, args, io_failed, history>>

\* Truncated: the caller may act on the shorter log.
cut_sync ==
  /\ step = "cut_sync"
  /\ step' = "idle"
  /\ images' = {file}
  /\ entries' = SubSeq(entries, 1, keep)
  /\ confirmed' = SubSeq(entries, 1, keep)
  /\ UNCHANGED <<file, args, io_failed, attempted>>

cut_fails ==
  /\ step \in {"cut", "cut_sync"}
  /\ step' = "idle"
  /\ io_failed' = TRUE
  /\ UNCHANGED <<disk, entries, args, history>>

-----------------------------------------------------------------------------

\* The process dies; the file is as it is.
Crash ==
  /\ step # "closed"
  /\ step' = "closed"
  /\ UNCHANGED <<disk, entries, args, io_failed, history>>

\* The machine dies; the file is one of the images.
PowerLoss ==
  /\ step' = "closed"
  /\ \E f \in images : file' = f /\ images' = {f}
  /\ UNCHANGED <<entries, args, io_failed, history>>

Next ==
  \/ open
  \/ open_fails
  \/ \E e \in Entry : append(e)
  \/ write
  \/ write_fails
  \/ sync
  \/ sync_fails
  \/ restore
  \/ restore_sync
  \/ restore_fails
  \/ \E first \in 0..(MaxLength + 1) : truncate_suffix(first)
  \/ cut
  \/ cut_sync
  \/ cut_fails
  \/ Crash
  \/ PowerLoss

Spec == Init /\ [][Next]_lvars

-----------------------------------------------------------------------------
(* Properties.                                                             *)

LogFile == [records : Seq(Entry), torn : BOOLEAN]

\* Every variable has its type.
TypeOK ==
  /\ file \in LogFile
  /\ images \subseteq LogFile
  /\ step \in Steps
  /\ entries \in Seq(Entry)
  /\ next \in {NoEntry} \cup {<<e>> : e \in Entry}
  /\ keep \in Nat
  /\ io_failed \in BOOLEAN
  /\ confirmed \in Seq(Entry)
  /\ attempted \in Seq(Entry)

\* What a restart finds: the last log a caller has acted on, or the one an
\* operation cut short was about to make of it, or a file that open refuses. An
\* acknowledged entry never disappears, a truncated one never comes back, and a
\* record cut short stands behind the acknowledged ones (append and
\* truncate_suffix return only after their sync).
RecoversConfirmed ==
  \A f \in {file} \cup images :
    IF f.torn THEN f.records = confirmed ELSE f.records \in {confirmed, attempted}

\* A usable object and the disk agree: whenever an operation can begin, the file
\* holds entries_ and nothing more, and a loss of power would not change it, also
\* after appends that failed (restore_file_size and io_failed_).
FileIsLog ==
  step = "idle" /\ ~io_failed => images = {file} /\ file = Whole(entries)
=============================================================================
