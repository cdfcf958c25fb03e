---------------------- MODULE PersistentMetadataProofs ----------------------
(***************************************************************************)
(* No crash, failed system call or loss of power makes a node forget a     *)
(* term or a vote it has acted on, for any number of terms and candidates. *)
(* The invariant follows the bytes through persist: before the rename the  *)
(* disk holds state_ and nothing else, between the rename and the sync of  *)
(* the directory it may hold state_ or the state that replaces it, and     *)
(* both uphold what was promised.                                          *)
(***************************************************************************)
EXTENDS PersistentMetadata, TLAPS

\* Where the process is, and what that says of the disk.
Progress ==
  /\ step # "closed" => promised = state
  /\ step \in {"write", "rename", "sync_directory"} => ~io_failed /\ Upholds(next, state)
  /\ step \in {"rename", "sync_directory"} => synced
  /\ step \in {"idle", "write", "rename"} /\ ~io_failed =>
       images = {file} /\ Decoded(file) = state
  /\ step = "sync_directory" => file = next
  /\ file = Missing => images = {Missing}

\* The inductive invariant.
MetadataInv == TypeOK /\ NeverTorn /\ PromiseKept /\ Progress

\* A file open accepts decodes to a state.
LEMMA DecodedType ==
  ASSUME NEW f \in Metadata \cup {Missing}
  PROVE  Decoded(f) \in Metadata
BY MetadataAssumption DEF Decoded, Fresh, Metadata

\* Upholding is transitive, reflexive, and everything upholds the first state.
LEMMA UpholdsOrder ==
  ASSUME NEW s \in Metadata, NEW t \in Metadata, NEW u \in Metadata
  PROVE  /\ Upholds(s, s)
         /\ Upholds(s, Fresh)
         /\ Upholds(s, t) /\ Upholds(t, u) => Upholds(s, u)
<1>1. /\ s.current_term \in Nat /\ t.current_term \in Nat /\ u.current_term \in Nat
  BY MetadataAssumption DEF Metadata
<1>2. \A c \in Candidate : c # Nobody
  BY MetadataAssumption
<1>3. Upholds(s, s)
  BY DEF Upholds
<1>4. Upholds(s, Fresh)
  BY <1>1 DEF Upholds, Fresh
<1>5. Upholds(s, t) /\ Upholds(t, u) => Upholds(s, u)
  BY <1>1, <1>2 DEF Upholds, Metadata
<1> QED
  BY <1>3, <1>4, <1>5

\* The invariant holds before the first open.
LEMMA MetadataInit == Init => MetadataInv
<1> SUFFICES ASSUME Init PROVE MetadataInv
  OBVIOUS
<1>1. Fresh \in Metadata
  BY DecodedType DEF Decoded
<1>2. TypeOK
  BY <1>1 DEF Init, TypeOK
<1>3. NeverTorn /\ Progress
  BY MetadataAssumption DEF Init, NeverTorn, Progress
<1>4. PromiseKept
  BY <1>1, UpholdsOrder DEF Init, PromiseKept, Decoded
<1> QED
  BY <1>2, <1>3, <1>4 DEF MetadataInv

\* Opening a file, or failing to.
LEMMA OpenPreserves ==
  ASSUME MetadataInv, open \/ open_fails
  PROVE  MetadataInv'
<1> USE DEF MetadataInv
<1>1. file \in Metadata \cup {Missing} /\ Decoded(file) \in Metadata
  BY DecodedType DEF TypeOK, NeverTorn
<1>2. CASE open
  <2>1. images' = {file}
    BY <1>2 DEF open, Certified, Progress
  <2>2. TypeOK'
    BY <1>1, <1>2, <2>1 DEF open, TypeOK
  <2>3. NeverTorn'
    BY <1>2, <2>1 DEF open, NeverTorn
  <2>4. PromiseKept'
    BY <1>1, <1>2, <2>1, UpholdsOrder DEF open, PromiseKept
  <2>5. Progress'
    BY <1>2, <2>1 DEF open, Progress, Upholds, Decoded
  <2> QED
    BY <2>2, <2>3, <2>4, <2>5
<1>3. CASE open_fails
  <2>1. TypeOK' /\ NeverTorn'
    BY <1>3 DEF open_fails, TypeOK, NeverTorn
  <2>2. PromiseKept' /\ Progress'
    BY <1>3 DEF open_fails, PromiseKept, Progress, Upholds, Decoded
  <2> QED
    BY <2>1, <2>2
<1> QED
  BY <1>2, <1>3

\* The updates: the new state upholds the old one.
LEMMA UpdatePreserves ==
  ASSUME MetadataInv,
         \/ \E term \in 0..MaxTerm : advance_term(term)
         \/ \E candidate \in Candidate : vote_for(candidate)
  PROVE  MetadataInv'
<1> USE DEF MetadataInv
<1>1. PICK s \in Metadata : Begin(s) /\ Upholds(s, state)
  <2>1. state.current_term \in 0..MaxTerm
    BY DEF TypeOK, Metadata
  <2>2. CASE \E term \in 0..MaxTerm : advance_term(term)
    <3>1. PICK term \in 0..MaxTerm : advance_term(term)
      BY <2>2
    <3>2. [current_term |-> term, voted_for |-> Nobody] \in Metadata
      BY DEF Metadata
    <3>3. Upholds([current_term |-> term, voted_for |-> Nobody], state)
      BY <3>1 DEF advance_term, Upholds
    <3> QED
      BY <3>1, <3>2, <3>3 DEF advance_term
  <2>3. CASE \E candidate \in Candidate : vote_for(candidate)
    <3>1. PICK c \in Candidate : vote_for(c)
      BY <2>3
    <3>2. [current_term |-> state.current_term, voted_for |-> c] \in Metadata
      BY <2>1, <3>1 DEF Metadata, vote_for
    <3>3. Upholds([current_term |-> state.current_term, voted_for |-> c], state)
      BY <3>1 DEF vote_for, Upholds
    <3> QED
      BY <3>1, <3>2, <3>3 DEF vote_for
  <2> QED
    BY <2>2, <2>3
<1>2. TypeOK' /\ NeverTorn'
  BY <1>1 DEF Begin, TypeOK, NeverTorn, disk
<1>3. PromiseKept'
  BY <1>1 DEF Begin, PromiseKept, disk, Upholds, Decoded
<1>4. Progress'
  BY <1>1 DEF Begin, Progress, disk, Upholds, Decoded
<1> QED
  BY <1>2, <1>3, <1>4

\* The system calls of persist, and the ways they fail.
LEMMA PersistPreserves ==
  ASSUME MetadataInv,
         \/ write_temp \/ write_temp_fails \/ rename \/ rename_fails
         \/ sync_directory \/ sync_directory_fails
  PROVE  MetadataInv'
<1> USE DEF MetadataInv
<1>1. CASE write_temp \/ write_temp_fails \/ sync_directory_fails
  <2>1. TypeOK' /\ NeverTorn'
    BY <1>1 DEF write_temp, write_temp_fails, sync_directory_fails, TypeOK, NeverTorn, disk
  <2>2. PromiseKept' /\ Progress'
    BY <1>1 DEF write_temp, write_temp_fails, sync_directory_fails, PromiseKept, Progress,
                disk, Upholds, Decoded
  <2> QED
    BY <2>1, <2>2
<1>2. CASE rename \/ rename_fails
  <2>1. /\ Renamed = images \cup {next} /\ next \in Metadata /\ next # Missing /\ next # Torn
        /\ Upholds(next, promised) /\ Decoded(next) = next
    BY <1>2, MetadataAssumption
    DEF rename, rename_fails, Renamed, Progress, TypeOK, Decoded
  <2>2. \/ UNCHANGED <<file, images>>
        \/ file' = next /\ images' = images \cup {next}
    BY <1>2, <2>1 DEF rename, rename_fails, disk
  <2>3. TypeOK'
    BY <1>2, <2>1, <2>2 DEF rename, rename_fails, TypeOK
  <2>4. NeverTorn'
    BY <2>1, <2>2 DEF NeverTorn
  <2>5. PromiseKept'
    BY <1>2, <2>1, <2>2 DEF rename, rename_fails, PromiseKept, Upholds, Decoded
  <2>6. Progress'
    BY <1>2, <2>1, <2>2 DEF rename, rename_fails, Progress, Upholds, Decoded
  <2> QED
    BY <2>3, <2>4, <2>5, <2>6
<1>3. CASE sync_directory
  <2>1. next \in Metadata /\ next # Missing /\ file = next
    BY <1>3, MetadataAssumption DEF sync_directory, Progress, TypeOK
  <2>2. TypeOK' /\ NeverTorn'
    BY <1>3, <2>1 DEF sync_directory, TypeOK, NeverTorn
  <2>3. PromiseKept'
    BY <1>3, <2>1, UpholdsOrder DEF sync_directory, PromiseKept, Decoded
  <2>4. Progress'
    BY <1>3, <2>1 DEF sync_directory, Progress, Decoded
  <2> QED
    BY <2>2, <2>3, <2>4
<1> QED
  BY <1>1, <1>2, <1>3

\* Deaths of the process and of the machine.
LEMMA DeathPreserves ==
  ASSUME MetadataInv, Crash \/ PowerLoss
  PROVE  MetadataInv'
<1> USE DEF MetadataInv
<1>1. CASE Crash
  BY <1>1 DEF Crash, TypeOK, NeverTorn, PromiseKept, Progress, disk, Upholds, Decoded
<1>2. CASE PowerLoss
  <2>1. PICK f \in images : file' = f /\ images' = {f}
    BY <1>2 DEF PowerLoss
  <2>2. TypeOK' /\ NeverTorn'
    BY <1>2, <2>1 DEF PowerLoss, TypeOK, NeverTorn
  <2>3. PromiseKept' /\ Progress'
    BY <1>2, <2>1 DEF PowerLoss, PromiseKept, Progress, Upholds, Decoded
  <2> QED
    BY <2>2, <2>3
<1> QED
  BY <1>1, <1>2

\* Every step preserves the invariant.
LEMMA MetadataNext == MetadataInv /\ [Next]_mvars => MetadataInv'
<1> SUFFICES ASSUME MetadataInv, [Next]_mvars PROVE MetadataInv'
  OBVIOUS
<1>1. CASE UNCHANGED mvars
  BY <1>1 DEF mvars, disk, MetadataInv, TypeOK, NeverTorn, PromiseKept, Progress, Upholds, Decoded
<1> QED
  BY <1>1, OpenPreserves, UpdatePreserves, PersistPreserves, DeathPreserves DEF Next

\* A term or vote somebody has acted on is on disk for good; no restart, crash or
\* loss of power brings an older one back.
THEOREM PromisesKept == Spec => []PromiseKept
<1>1. MetadataInv => PromiseKept
  BY DEF MetadataInv
<1> QED
  BY <1>1, MetadataInit, MetadataNext, PTL DEF Spec

\* The file is a whole record at all times, so open never refuses it.
THEOREM RecordsWhole == Spec => []NeverTorn
<1>1. MetadataInv => NeverTorn
  BY DEF MetadataInv
<1> QED
  BY <1>1, MetadataInit, MetadataNext, PTL DEF Spec

\* While an object accepts updates, its state is what the disk holds.
THEOREM StateOnDisk == Spec => []StateDurable
<1>1. MetadataInv => StateDurable
  BY DEF MetadataInv, Progress, StateDurable
<1> QED
  BY <1>1, MetadataInit, MetadataNext, PTL DEF Spec
=============================================================================
