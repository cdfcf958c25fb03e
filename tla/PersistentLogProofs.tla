------------------------ MODULE PersistentLogProofs ------------------------
(***************************************************************************)
(* No crash, failed system call or loss of power makes a node lose a log   *)
(* entry it has acted on or find one it has removed, for any entries and   *)
(* any length of the log. The invariant follows append and truncate_suffix *)
(* from one system call to the next: at each of them the file is one of    *)
(* three, the confirmed log, the log the operation is making, or the       *)
(* confirmed one with part of a record behind it.                          *)
(***************************************************************************)
EXTENDS PersistentLog, SequenceTheorems, TLAPS

\* The files a restart may find.
Recoverable == {Whole(confirmed), Whole(attempted), Part(confirmed)}

\* Where the process is, and what that says of the file.
Progress ==
  /\ file \in Recoverable /\ images \subseteq Recoverable
  /\ step # "closed" => confirmed = entries
  /\ step \in {"idle", "write", "cut"} /\ ~io_failed =>
       images = {file} /\ file = Whole(entries)
  /\ step \in {"write", "sync", "restore", "restore_sync"} =>
       ~io_failed /\ attempted = entries \o next
  /\ step \in {"cut", "cut_sync"} =>
       ~io_failed /\ keep <= Len(entries) /\ attempted = SubSeq(entries, 1, keep)
  /\ step \in {"sync", "cut_sync"} => file = Whole(attempted)
  /\ step = "restore_sync" => file = Whole(entries)

\* The inductive invariant.
LogInv == TypeOK /\ Progress

\* The invariant is enough for the two properties.
LEMMA InvRecovers == LogInv => RecoversConfirmed /\ FileIsLog
<1> SUFFICES ASSUME LogInv PROVE RecoversConfirmed /\ FileIsLog
  OBVIOUS
<1>1. \A f \in Recoverable :
        IF f.torn THEN f.records = confirmed ELSE f.records \in {confirmed, attempted}
  BY DEF Recoverable, Whole, Part
<1>2. RecoversConfirmed
  BY <1>1 DEF LogInv, Progress, RecoversConfirmed
<1>3. FileIsLog
  BY DEF LogInv, Progress, FileIsLog
<1> QED
  BY <1>2, <1>3

\* Cutting a log that was extended back to its old length gives the old log.
LEMMA CutBack ==
  ASSUME NEW S, NEW s \in Seq(S), NEW t \in Seq(S)
  PROVE  /\ SubSeq(s, 1, Len(s)) = s
         /\ SubSeq(s \o t, 1, Len(s)) = s
<1>1. SubSeq(s, 1, Len(s)) = s
  BY SubSeqFull
<1>2. SubSeq(s \o t, 1, Len(s)) = SubSeq(s, 1, Len(s))
  <2>1. 1 \in 1..(Len(s) + 1) /\ Len(s) \in (1 - 1)..Len(s)
    BY LenProperties
  <2> QED
    BY <2>1, SubSeqOfConcat1
<1> QED
  BY <1>1, <1>2

\* A log and a log with part of a record behind it are log files.
LEMMA FileType ==
  ASSUME NEW s \in Seq(Entry)
  PROVE  Whole(s) \in LogFile /\ Part(s) \in LogFile
BY DEF Whole, Part, LogFile

\* What is written behind file_size_ stands behind entries_.
LEMMA BaseIsEntries ==
  ASSUME LogInv, step \in {"write", "restore"}
  PROVE  Base = entries
<1>1. entries \in Seq(Entry) /\ next \in Seq(Entry)
  <2>1. next = <<>> \/ \E e \in Entry : next = <<e>>
    BY Zenon DEF LogInv, TypeOK, NoEntry
  <2>2. entries \in Seq(Entry)
    BY Zenon DEF LogInv, TypeOK
  <2>3. next \in Seq(Entry)
    <3>1. CASE next = <<>>
      BY <3>1
    <3>2. CASE \E e \in Entry : next = <<e>>
      <4>1. PICK e \in Entry : next = <<e>>
        BY <3>2
      <4>2. <<e>> \in Seq(Entry)
        OBVIOUS
      <4> QED
        BY <4>1, <4>2, Zenon
    <3> QED
      BY <2>1, <3>1, <3>2
  <2> QED
    BY <2>2, <2>3
<1>2. file.records \in {entries, entries \o next}
  BY DEF LogInv, Progress, Recoverable, Whole, Part
<1> QED
  BY <1>1, <1>2, CutBack DEF Base

\* The invariant holds before the first open.
LEMMA LogInit == Init => LogInv
<1> SUFFICES ASSUME Init PROVE LogInv
  OBVIOUS
<1>1. <<>> \in Seq(Entry)
  OBVIOUS
<1>2. TypeOK
  BY <1>1, FileType DEF Init, TypeOK, Steps
<1>3. Progress
  BY DEF Init, Progress, Recoverable
<1> QED
  BY <1>2, <1>3 DEF LogInv

\* Opening the file, or failing to.
LEMMA OpenPreserves ==
  ASSUME LogInv, open \/ open_fails
  PROVE  LogInv'
<1> USE DEF LogInv
<1>1. CASE open
  <2>1. file = Whole(file.records) /\ file.records \in Seq(Entry)
    BY <1>1 DEF open, TypeOK, LogFile, Whole
  <2>2. TypeOK'
    BY <1>1, <2>1 DEF open, SyncedImages, TypeOK, Steps, args
  <2>3. Progress'
    BY <1>1, <2>1 DEF open, SyncedImages, Progress, Recoverable
  <2> QED
    BY <2>2, <2>3
<1>2. CASE open_fails
  <2>1. TypeOK'
    BY <1>2 DEF open_fails, TypeOK, args, history
  <2>2. Progress'
    BY <1>2 DEF open_fails, Progress, Recoverable, args, history
  <2> QED
    BY <2>1, <2>2
<1> QED
  BY <1>1, <1>2

\* Beginning an append or a truncation.
LEMMA BeginPreserves ==
  ASSUME LogInv,
         \/ \E e \in Entry : append(e)
         \/ \E first \in 0..(MaxLength + 1) : truncate_suffix(first)
  PROVE  LogInv'
<1> USE DEF LogInv
<1>1. CASE \E e \in Entry : append(e)
  <2>1. PICK e \in Entry : append(e)
    BY <1>1
  <2>2. entries \o <<e>> \in Seq(Entry)
    BY DEF TypeOK
  <2>3. TypeOK'
    BY <2>1, <2>2 DEF append, TypeOK, Steps, disk
  <2>4. Progress'
    BY <2>1 DEF append, Progress, Recoverable, disk
  <2> QED
    BY <2>3, <2>4
<1>2. CASE \E first \in 0..(MaxLength + 1) : truncate_suffix(first)
  <2>1. PICK first \in 0..(MaxLength + 1) : truncate_suffix(first)
    BY <1>2
  <2>2. first \in 1..Len(entries) /\ first - 1 \in Nat /\ first - 1 <= Len(entries)
    BY <2>1 DEF truncate_suffix, TypeOK
  <2>3. SubSeq(entries, 1, first - 1) \in Seq(Entry)
    BY <2>2 DEF TypeOK
  <2>4. TypeOK'
    BY <2>1, <2>2, <2>3 DEF truncate_suffix, TypeOK, Steps, disk
  <2>5. Progress'
    BY <2>1, <2>2 DEF truncate_suffix, Progress, Recoverable, disk
  <2> QED
    BY <2>4, <2>5
<1> QED
  BY <1>1, <1>2

\* Writing the record, or part of it.
LEMMA WritePreserves ==
  ASSUME LogInv, write \/ write_fails
  PROVE  LogInv'
<1> USE DEF LogInv
<1>1. step = "write"
  BY DEF write, write_fails
<1>2. Base = entries /\ confirmed = entries /\ attempted = entries \o next
  BY <1>1, BaseIsEntries DEF Progress
<1>3. /\ Whole(entries) \in LogFile
      /\ Whole(attempted) \in LogFile
      /\ Part(entries) \in LogFile
  BY FileType DEF TypeOK
<1>4. /\ file' \in {Whole(entries), Part(entries), Whole(attempted)}
      /\ images' = images \cup {file', Part(entries)}
      /\ step' \in {"sync", "restore"}
      /\ step' = "sync" => file' = Whole(attempted)
      /\ UNCHANGED <<entries, args, io_failed, history>>
  BY <1>1, <1>2 DEF write, write_fails, Progress
<1>5. TypeOK'
  BY <1>3, <1>4 DEF TypeOK, Steps, args, history
<1>6. Progress'
  BY <1>1, <1>2, <1>4 DEF Progress, Recoverable, args, history
<1> QED
  BY <1>5, <1>6

\* The sync of an append.
LEMMA SyncPreserves ==
  ASSUME LogInv, sync \/ sync_fails
  PROVE  LogInv'
<1> USE DEF LogInv
<1>1. CASE sync
  <2>1. entries \o next = attempted /\ file = Whole(attempted)
    BY <1>1 DEF sync, Progress
  <2>2. TypeOK'
    BY <1>1, <2>1 DEF sync, TypeOK, Steps, args
  <2>3. Progress'
    BY <1>1, <2>1 DEF sync, Progress, Recoverable, args
  <2> QED
    BY <2>2, <2>3
<1>2. CASE sync_fails
  <2>1. TypeOK'
    BY <1>2 DEF sync_fails, TypeOK, Steps, disk, args, history
  <2>2. Progress'
    BY <1>2 DEF sync_fails, Progress, Recoverable, disk, args, history
  <2> QED
    BY <2>1, <2>2
<1> QED
  BY <1>1, <1>2

\* Undoing a failed append, or failing to.
LEMMA RestorePreserves ==
  ASSUME LogInv, restore \/ restore_sync \/ restore_fails
  PROVE  LogInv'
<1> USE DEF LogInv
<1>1. CASE restore
  <2>1. Base = entries /\ confirmed = entries
    BY <1>1, BaseIsEntries DEF restore, Progress
  <2>2. TypeOK'
    BY <1>1, <2>1, FileType DEF restore, TypeOK, Steps, args, history
  <2>3. Progress'
    BY <1>1, <2>1 DEF restore, Progress, Recoverable, args, history
  <2> QED
    BY <2>2, <2>3
<1>2. CASE restore_sync
  <2>1. TypeOK'
    BY <1>2 DEF restore_sync, TypeOK, Steps, args, history
  <2>2. Progress'
    BY <1>2 DEF restore_sync, Progress, Recoverable, args, history
  <2> QED
    BY <2>1, <2>2
<1>3. CASE restore_fails
  <2>1. TypeOK'
    BY <1>3 DEF restore_fails, TypeOK, Steps, disk, args, history
  <2>2. Progress'
    BY <1>3 DEF restore_fails, Progress, Recoverable, disk, args, history
  <2> QED
    BY <2>1, <2>2
<1> QED
  BY <1>1, <1>2, <1>3

\* Cutting a suffix off.
LEMMA CutPreserves ==
  ASSUME LogInv, cut \/ cut_sync \/ cut_fails
  PROVE  LogInv'
<1> USE DEF LogInv
<1>1. CASE cut
  <2>1. file.records = entries /\ attempted = SubSeq(entries, 1, keep)
    BY <1>1 DEF cut, Progress, Whole
  <2>2. file' = Whole(attempted)
    BY <1>1, <2>1 DEF cut
  <2>3. TypeOK'
    BY <1>1, <2>2, FileType DEF cut, TypeOK, Steps, args, history
  <2>4. Progress'
    BY <1>1, <2>2 DEF cut, Progress, Recoverable, args, history
  <2> QED
    BY <2>3, <2>4
<1>2. CASE cut_sync
  <2>1. SubSeq(entries, 1, keep) = attempted /\ file = Whole(attempted)
    BY <1>2 DEF cut_sync, Progress
  <2>2. TypeOK'
    BY <1>2, <2>1 DEF cut_sync, TypeOK, Steps, args
  <2>3. Progress'
    BY <1>2, <2>1 DEF cut_sync, Progress, Recoverable, args
  <2> QED
    BY <2>2, <2>3
<1>3. CASE cut_fails
  <2>1. TypeOK'
    BY <1>3 DEF cut_fails, TypeOK, Steps, disk, args, history
  <2>2. Progress'
    BY <1>3 DEF cut_fails, Progress, Recoverable, disk, args, history
  <2> QED
    BY <2>1, <2>2
<1> QED
  BY <1>1, <1>2, <1>3

\* The end of the process or of the machine.
LEMMA CrashPreserves ==
  ASSUME LogInv, Crash \/ PowerLoss
  PROVE  LogInv'
<1> USE DEF LogInv
<1>1. CASE Crash
  <2>1. TypeOK'
    BY <1>1 DEF Crash, TypeOK, Steps, disk, args, history
  <2>2. Progress'
    BY <1>1 DEF Crash, Progress, Recoverable, disk, args, history
  <2> QED
    BY <2>1, <2>2
<1>2. CASE PowerLoss
  <2>1. TypeOK'
    BY <1>2 DEF PowerLoss, TypeOK, Steps, args, history
  <2>2. Progress'
    BY <1>2 DEF PowerLoss, Progress, Recoverable, args, history
  <2> QED
    BY <2>1, <2>2
<1> QED
  BY <1>1, <1>2

\* Every step preserves the invariant.
LEMMA LogStep == LogInv /\ [Next]_lvars => LogInv'
<1> SUFFICES ASSUME LogInv, [Next]_lvars PROVE LogInv'
  OBVIOUS
<1>1. CASE UNCHANGED lvars
  <2>1. TypeOK'
    BY <1>1 DEF LogInv, TypeOK, lvars, disk, args, history
  <2>2. Progress'
    BY <1>1 DEF LogInv, Progress, Recoverable, lvars, disk, args, history
  <2> QED
    BY <2>1, <2>2 DEF LogInv
<1>2. CASE Next
  BY <1>2, OpenPreserves, BeginPreserves, WritePreserves, SyncPreserves,
     RestorePreserves, CutPreserves, CrashPreserves DEF Next
<1> QED
  BY <1>1, <1>2

\* What a restart finds is the log the node last acted on, or the one an operation
\* cut short was making of it, or a file open refuses (append and truncate_suffix
\* of PersistentLog return only after their sync).
THEOREM ConfirmedRecovered == Spec => []RecoversConfirmed
<1>1. Init => LogInv
  BY LogInit
<1>2. LogInv /\ [Next]_lvars => LogInv'
  BY LogStep
<1>3. LogInv => RecoversConfirmed
  BY InvRecovers
<1> QED
  BY <1>1, <1>2, <1>3, PTL DEF Spec

\* A usable PersistentLog object and the disk agree whenever an operation can
\* begin, also after appends that failed (restore_file_size and io_failed_).
THEOREM FileAgrees == Spec => []FileIsLog
<1>1. Init => LogInv
  BY LogInit
<1>2. LogInv /\ [Next]_lvars => LogInv'
  BY LogStep
<1>3. LogInv => FileIsLog
  BY InvRecovers
<1> QED
  BY <1>1, <1>2, <1>3, PTL DEF Spec
=============================================================================
