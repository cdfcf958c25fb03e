------------------------- MODULE ServerInputProofs -------------------------
(***************************************************************************)
(* What reaches a node from outside, for every text, number and size: what *)
(* one side encodes the other decodes to the same; no message of entries   *)
(* outgrows its frame; and the console's lines and the blocked peers are   *)
(* what was typed, however reads cut it up.                                *)
(*                                                                         *)
(* That a changed cell is noticed rests on the checksum, which is a stand- *)
(* in here; what is claimed of damaged frames stays with TLC.              *)
(***************************************************************************)
EXTENDS ServerInput, KvProofs
LOCAL INSTANCE SequencesExt
LOCAL INSTANCE FiniteSetsExt

-----------------------------------------------------------------------------
(* Pieces one after another.                                               *)

\* The first k pieces put together.
Upto(s, k) == FlattenSeq([j \in 1..k |-> s[j]])

\* One piece more is put behind the others.
LEMMA UptoGrows ==
  ASSUME NEW s, NEW n \in Nat, s \in [1..n -> Seq(Nat)]
  PROVE  /\ Upto(s, 0) = <<>>
         /\ \A k \in 0..n : Upto(s, k) \in Seq(Nat)
         /\ \A k \in 0..n : k < n => Upto(s, k + 1) = Upto(s, k) \o s[k + 1]
<1> DEFINE t(k) == [j \in 1..k |-> s[j]]
<1>1. ASSUME NEW k \in 0..n PROVE t(k) \in Seq(Seq(Nat))
  <2>1. PICK U : U = Seq(Nat)
    OBVIOUS
  <2>2. t(k) \in [1..k -> U] /\ k \in Nat
    BY <2>1
  <2>3. t(k) \in Seq(U)
    BY <2>2, SeqDef
  <2> QED
    BY <2>1, <2>3
<1>2. ASSUME NEW k \in 0..n, k < n PROVE t(k + 1) = Append(t(k), s[k + 1])
  <2>1. k \in Nat /\ Len(t(k)) = k
    OBVIOUS
  <2> QED
    BY <2>1
<1>3. \A k : Upto(s, k) = FlattenSeq(t(k))
  BY DEF Upto
<1>4. Upto(s, 0) = <<>>
  <2>1. t(0) = <<>> /\ Len(t(0)) = 0
    OBVIOUS
  <2> QED
    BY <1>3, <2>1 DEF FlattenSeq
<1> HIDE DEF t
<1>5. ASSUME NEW k \in 0..n, k < n PROVE Upto(s, k + 1) = Upto(s, k) \o s[k + 1]
  <2>1. t(k) \in Seq(Seq(Nat)) /\ s[k + 1] \in Seq(Nat)
    BY <1>1, <1>5
  <2>2. FlattenSeq(Append(t(k), s[k + 1])) = FlattenSeq(t(k)) \o s[k + 1]
    BY ONLY <2>1, FlattenStep
  <2> QED
    BY <1>2, <1>3, <1>5, <2>2
<1> DEFINE T == {k \in Nat : k <= n => Upto(s, k) \in Seq(Nat)}
<1>6. 0 \in T
  BY <1>4, EmptySeq
<1>7. ASSUME NEW k \in T PROVE k + 1 \in T
  <2>1. ASSUME k + 1 <= n PROVE Upto(s, k + 1) \in Seq(Nat)
    <3>1. Upto(s, k) \in Seq(Nat) /\ k \in 0..n /\ k < n /\ s[k + 1] \in Seq(Nat)
      BY <2>1
    <3>2. Upto(s, k + 1) = Upto(s, k) \o s[k + 1]
      BY <1>5, <3>1
    <3> QED
      BY <3>1, <3>2, ConcatProperties
  <2> QED
    BY <2>1
<1>8. T \in SUBSET Nat
  OBVIOUS
<1> HIDE DEF T
<1>9. T = Nat
  BY ONLY <1>6, <1>7, <1>8, SetInduction
<1>10. \A k \in 0..n : Upto(s, k) \in Seq(Nat)
  BY <1>9 DEF T
<1> QED
  BY <1>4, <1>5, <1>10

\* All pieces put together are as long as they are, and each lies behind those
\* before it.
LEMMA UptoHolds ==
  ASSUME NEW s, NEW n \in Nat, s \in [1..n -> Seq(Nat)], NEW k \in 0..n
  PROVE  \A m \in 0..k : m < k =>
           /\ Len(Upto(s, m)) + Len(s[m + 1]) <= Len(Upto(s, k))
           /\ Len(Upto(s, m + 1)) = Len(Upto(s, m)) + Len(s[m + 1])
           /\ \A i \in 1..Len(s[m + 1]) : Upto(s, k)[Len(Upto(s, m)) + i] = s[m + 1][i]
<1> DEFINE L(m) == Len(Upto(s, m))
           P(m, j) == /\ L(m) + Len(s[m + 1]) <= L(j)
                      /\ \A i \in 1..Len(s[m + 1]) : Upto(s, j)[L(m) + i] = s[m + 1][i]
<1>1. \A m \in 0..n : Upto(s, m) \in Seq(Nat) /\ L(m) \in Nat
  BY UptoGrows, LenProperties
<1>2. ASSUME NEW m \in 0..n, m < n
      PROVE  /\ s[m + 1] \in Seq(Nat) /\ Len(s[m + 1]) \in Nat
             /\ Upto(s, m + 1) = Upto(s, m) \o s[m + 1]
             /\ L(m + 1) = L(m) + Len(s[m + 1])
             /\ \A i \in 1..(L(m) + Len(s[m + 1])) :
                  Upto(s, m + 1)[i] = IF i <= L(m) THEN Upto(s, m)[i] ELSE s[m + 1][i - L(m)]
  <2>1. m + 1 \in 1..n
    BY <1>2
  <2>2. PICK a, b : a = Upto(s, m) /\ b = s[m + 1]
    OBVIOUS
  <2>3. a \in Seq(Nat) /\ b \in Seq(Nat)
    BY <1>1, <2>1, <2>2
  <2>4. Upto(s, m + 1) = a \o b
    BY <1>2, <2>2, UptoGrows
  <2>5. /\ Len(b) \in Nat /\ Len(a \o b) = Len(a) + Len(b)
        /\ \A i \in 1..(Len(a) + Len(b)) : (a \o b)[i] = IF i <= Len(a) THEN a[i] ELSE b[i - Len(a)]
    BY ONLY <2>3, ConcatProperties, LenProperties
  <2> QED
    BY <2>2, <2>3, <2>4, <2>5
<1> DEFINE T == {j \in Nat : j <= n => \A m \in 0..j : m < j => P(m, j)}
<1>3. 0 \in T
  OBVIOUS
<1>4. ASSUME NEW j \in T PROVE j + 1 \in T
  <2>1. ASSUME j + 1 <= n, NEW m \in 0..(j + 1), m < j + 1 PROVE P(m, j + 1)
    <3>1. j \in 0..n /\ j < n /\ m \in 0..n /\ m < n
      BY <2>1
    <3>2. PICK l \in Nat, q \in Nat, x \in Nat, y \in Nat :
            l = L(j) /\ q = Len(s[j + 1]) /\ x = L(m) /\ y = Len(s[m + 1])
      BY <1>1, <1>2, <3>1
    <3>3. /\ L(j + 1) = l + q
          /\ \A i \in 1..(l + q) :
               Upto(s, j + 1)[i] = IF i <= l THEN Upto(s, j)[i] ELSE s[j + 1][i - l]
      BY <1>2, <3>1, <3>2
    <3>4. CASE m = j
      <4>1. ASSUME NEW i \in 1..y PROVE Upto(s, j + 1)[x + i] = s[m + 1][i]
        <5>1. l = x /\ q = y
          BY <3>2, <3>4
        <5>2. x + i \in 1..(l + q) /\ ~(x + i <= l) /\ (x + i) - l = i
          BY <5>1
        <5> QED
          BY <3>3, <3>4, <5>2
      <4>2. x + y <= l + q
        BY <3>2, <3>4
      <4> QED
        BY <3>2, <3>3, <4>1, <4>2
    <3>5. CASE m < j
      <4>1. x + y <= l /\ \A i \in 1..y : Upto(s, j)[x + i] = s[m + 1][i]
        <5>1. P(m, j)
          BY <3>1, <3>5, j \in T
        <5> QED
          BY <3>2, <5>1
      <4>2. ASSUME NEW i \in 1..y PROVE Upto(s, j + 1)[x + i] = s[m + 1][i]
        <5>1. x + i \in 1..(l + q) /\ x + i <= l
          BY <4>1
        <5> QED
          BY <3>3, <4>1, <5>1
      <4>3. x + y <= l + q
        BY <4>1
      <4> QED
        BY <3>2, <3>3, <4>2, <4>3
    <3> QED
      BY <2>1, <3>4, <3>5
  <2> HIDE DEF P
  <2> QED
    BY <2>1
<1>5. T \in SUBSET Nat
  OBVIOUS
<1> HIDE DEF T
<1>6. T = Nat
  BY ONLY <1>3, <1>4, <1>5, SetInduction
<1>7. \A m \in 0..k : m < k => P(m, k)
  <2> HIDE DEF P
  <2>1. k \in T /\ k <= n
    BY <1>6
  <2> QED
    BY <2>1 DEF T
<1>8. \A m \in 0..k : m < k => L(m + 1) = L(m) + Len(s[m + 1])
  BY <1>2
<1> QED
  BY <1>7, <1>8

\* Pieces of bounded size have a bounded whole.
LEMMA UptoFits ==
  ASSUME NEW s, NEW n \in Nat, s \in [1..n -> Seq(Nat)], NEW size \in Nat,
         \A k \in 1..n : Len(s[k]) <= size, NEW k \in 0..n
  PROVE  Len(Upto(s, k)) <= k * size
<1>1. \A m \in 0..n : Len(Upto(s, m)) \in Nat
  BY UptoGrows, LenProperties
<1> DEFINE T == {m \in Nat : m <= n => Len(Upto(s, m)) <= m * size}
<1>2. 0 \in T
  <2>1. Len(Upto(s, 0)) = 0 /\ 0 * size = 0
    BY UptoGrows
  <2> QED
    BY <2>1
<1>3. ASSUME NEW m \in T PROVE m + 1 \in T
  <2>1. ASSUME m + 1 <= n PROVE Len(Upto(s, m + 1)) <= (m + 1) * size
    <3>1. m \in 0..n /\ m + 1 \in 0..n /\ m < n /\ m + 1 \in 1..n /\ m \in 0..(m + 1) /\ m < m + 1
      BY <2>1
    <3>2. Len(Upto(s, m + 1)) = Len(Upto(s, m)) + Len(s[m + 1])
      <4>1. \A j \in 0..(m + 1) : j < m + 1 => Len(Upto(s, j + 1)) = Len(Upto(s, j)) + Len(s[j + 1])
        BY <3>1, UptoHolds
      <4> QED
        BY ONLY <3>1, <4>1
    <3>3. PICK a \in Nat, b \in Nat : a = Len(Upto(s, m)) /\ b = Len(s[m + 1])
      BY <1>1, <3>1, LenProperties
    <3>4. a <= m * size /\ b <= size
      BY <3>1, <3>3, m \in T
    <3>5. (m + 1) * size = m * size + size /\ m * size \in Nat
      OBVIOUS
    <3> HIDE DEF T
    <3> QED
      BY <3>2, <3>3, <3>4, <3>5
  <2> QED
    BY <2>1
<1>4. T \in SUBSET Nat
  OBVIOUS
<1> HIDE DEF T
<1>5. T = Nat
  BY ONLY <1>2, <1>3, <1>4, SetInduction
<1>6. k \in T /\ k <= n
  BY <1>5
<1> QED
  BY <1>6 DEF T

-----------------------------------------------------------------------------
(* The sizes of records.                                                   *)

\* A command takes a header and its texts.
LEMMA CommandSize ==
  ASSUME NEW c \in CommandsOf(Seq(Nat), Nat), NEW b \in encode_command(c)
  PROVE  Len(b) = (IF c.request_id = NoId THEN 4 ELSE 5) + Len(c.key) + Len(c.value)
<1>1. c.key \in Seq(Nat) /\ c.value \in Seq(Nat) /\ (c.request_id = NoId \/ c.request_id \in Nat)
      /\ c.type \in {"Put", "Delete", "NoOp"}
  BY DEF CommandsOf
<1>2. PICK k \in Nat, v \in Nat, tag \in Nat : k = Len(c.key) /\ v = Len(c.value) /\ tag = Tag(c.type)
  BY <1>1, LenProperties DEF Tag
<1>3. PICK h : h = IF c.request_id = NoId THEN <<legacyFormatVersion, tag, k, v>>
                   ELSE <<requestIdFormatVersion, tag, k, v, c.request_id>>
  OBVIOUS
<1>4. h \in Seq(Nat) /\ Len(h) = IF c.request_id = NoId THEN 4 ELSE 5
  <2>1. CASE c.request_id = NoId
    <3>1. h = <<1, tag, k, v>>
      BY <1>3, <2>1 DEF legacyFormatVersion
    <3> QED
      BY <2>1, <3>1
  <2>2. CASE c.request_id # NoId
    <3>1. h = <<2, tag, k, v, c.request_id>> /\ c.request_id \in Nat
      BY <1>1, <1>3, <2>2 DEF requestIdFormatVersion
    <3> QED
      BY <2>2, <3>1
  <2> QED
    BY <2>1, <2>2
<1>5. b = h \o c.key \o c.value
  BY <1>2, <1>3 DEF encode_command
<1>6. Len(b) = Len(h) + Len(c.key) + Len(c.value)
  <2>1. PICK x, y : x = c.key /\ y = c.value
    OBVIOUS
  <2>2. x \in Seq(Nat) /\ y \in Seq(Nat) /\ h \in Seq(Nat) /\ b = h \o x \o y
    BY <1>1, <1>4, <1>5, <2>1
  <2>3. Len(b) = Len(h) + Len(x) + Len(y)
    BY ONLY <2>2, Joined
  <2> QED
    BY <2>1, <2>3
<1> QED
  BY <1>4, <1>6

\* A record takes six cells around its command.
LEMMA RecordSize ==
  ASSUME NEW e \in LogEntries, NEW b \in Seq(Nat), encode_command(e.command) = {b},
         NEW r \in encode_log_entry(e)
  PROVE  Len(r) = Len(b) + 6
<1>1. e.index \in Nat /\ e.term \in Nat
  BY DEF LogEntries
<1>2. PICK m \in Nat : m = Len(b)
  BY LenProperties
<1>3. r \in {Sealed(<<magic, formatVersion, entryMetadataSize + Len(x), e.index, e.term>> \o x) :
               x \in {b}}
  BY DEF encode_log_entry
<1>4. PICK prefix : prefix = <<68, 1, 2 + m, e.index, e.term>>
  OBVIOUS
<1>5. r = Sealed(prefix \o b)
  BY <1>2, <1>3, <1>4 DEF magic, formatVersion, entryMetadataSize
<1>6. prefix \in Seq(Nat) /\ Len(prefix) = 5
  BY <1>1, <1>4
<1>7. prefix \o b \in Seq(Nat) /\ Len(prefix \o b) = 5 + m
  <2>1. prefix \o b \in Seq(Nat) /\ Len(prefix \o b) = Len(prefix) + Len(b)
    BY ONLY <1>6, b \in Seq(Nat), ConcatProperties
  <2> QED
    BY <1>2, <1>6, <2>1
<1>8. PICK body : body = prefix \o b
  OBVIOUS
<1>9. Len(r) = Len(body) + 1
  BY <1>5, <1>7, <1>8, SealedBytes
<1> QED
  BY <1>2, <1>7, <1>8, <1>9

\* Whatever can be written has a record.
LEMMA HasRecord ==
  ASSUME NEW e \in LogEntries, encode_log_entry(e) # {}
  PROVE  \E r : IsRecord(r, e)
<1>1. PICK i, t, c : i = e.index /\ t = e.term /\ c = e.command
  OBVIOUS
<1>2. /\ i \in Nat /\ t \in Nat /\ c \in CommandsOf(Seq(Nat), Nat)
      /\ e = [index |-> i, term |-> t, command |-> c]
  BY <1>1 DEF LogEntries
<1>3. i # 0 /\ t # 0 /\ encode_command(c) # {}
  <2>1. i # 0 /\ t # 0
    BY <1>1 DEF encode_log_entry
  <2>2. PICK r : r \in encode_log_entry(e)
    OBVIOUS
  <2>3. \E b : b \in encode_command(c)
    BY <1>1, <2>2 DEF encode_log_entry
  <2> QED
    BY <2>1, <2>3
<1>4. ValidContents(c)
  BY <1>3 DEF encode_command
<1>5. i \in Nat \ {0} /\ t \in Nat \ {0}
  BY <1>2, <1>3
<1> QED
  BY ONLY <1>2, <1>4, <1>5, EntryBytes

-----------------------------------------------------------------------------
(* Envelopes.                                                              *)

\* The octets of entries, each behind its length.
Pieces(rec, n) == [k \in 1..n |-> <<Len(rec[k])>> \o rec[k]]

\* A record and its length.
LEMMA PieceType ==
  ASSUME NEW n \in Nat, NEW rec \in [1..n -> Seq(Nat)]
  PROVE  /\ Pieces(rec, n) \in [1..n -> Seq(Nat)]
         /\ \A k \in 1..n : /\ Len(rec[k]) \in Nat /\ Len(Pieces(rec, n)[k]) = Len(rec[k]) + 1
                            /\ Pieces(rec, n)[k][1] = Len(rec[k])
                            /\ \A i \in 1..Len(rec[k]) : Pieces(rec, n)[k][i + 1] = rec[k][i]
<1>1. ASSUME NEW k \in 1..n
      PROVE  /\ Len(rec[k]) \in Nat /\ Pieces(rec, n)[k] \in Seq(Nat)
             /\ Len(Pieces(rec, n)[k]) = Len(rec[k]) + 1
             /\ Pieces(rec, n)[k][1] = Len(rec[k])
             /\ \A i \in 1..Len(rec[k]) : Pieces(rec, n)[k][i + 1] = rec[k][i]
  <2>1. PICK r \in Seq(Nat) : r = rec[k]
    OBVIOUS
  <2>2. PICK q \in Nat : q = Len(r)
    BY LenProperties
  <2>3. PICK h : h = <<q>>
    OBVIOUS
  <2>4. h \in Seq(Nat) /\ Len(h) = 1 /\ h[1] = q
    BY <2>3
  <2>5. /\ h \o r \in Seq(Nat) /\ Len(h \o r) = Len(h) + Len(r)
        /\ \A i \in 1..(Len(h) + Len(r)) : (h \o r)[i] = IF i <= Len(h) THEN h[i] ELSE r[i - Len(h)]
    BY ONLY <2>4, r \in Seq(Nat), ConcatProperties
  <2>6. (h \o r)[1] = q
    BY <2>2, <2>4, <2>5
  <2>7. ASSUME NEW i \in 1..q PROVE (h \o r)[i + 1] = r[i]
    <3>1. i + 1 \in 1..(1 + q) /\ ~(i + 1 <= 1) /\ (i + 1) - 1 = i
      OBVIOUS
    <3> QED
      BY <2>2, <2>4, <2>5, <3>1
  <2>8. Pieces(rec, n)[k] = h \o r
    BY <2>1, <2>2, <2>3 DEF Pieces
  <2> QED
    BY <2>1, <2>2, <2>4, <2>5, <2>6, <2>7, <2>8
<1>2. Pieces(rec, n) = [k \in 1..n |-> Pieces(rec, n)[k]]
  BY DEF Pieces
<1> QED
  BY <1>1, <1>2

\* The records of a request's entries.
RecordsOf(rec, r) ==
  /\ rec \in [1..Len(r.entries) -> Seq(Nat)]
  /\ \A k \in 1..Len(r.entries) : encode_log_entry(r.entries[k]) = {rec[k]}

\* What put_append writes: the numbers, how many entries, and these.
LEMMA AppendBytes ==
  ASSUME NEW r \in AppendRequests, NEW n \in Nat, n = Len(r.entries), NEW rec, RecordsOf(rec, r)
  PROVE  put_append(r) = {r.numbers \o <<n>> \o Upto(Pieces(rec, n), n)}
<1>1. r.entries \in Seq(LogEntries)
  BY DEF AppendRequests
<1>2. DOMAIN r.entries = 1..n
  BY <1>1, LenProperties
<1> DEFINE records == [k \in DOMAIN r.entries |-> encode_log_entry(r.entries[k])]
           piece(b) == <<Len(b)>> \o b
<1>3. records = [k \in 1..n |-> {rec[k]}]
  BY <1>2 DEF RecordsOf
<1>4. ~\E k \in DOMAIN records : records[k] = {}
  BY <1>3
<1>5. [k \in DOMAIN records |-> piece(CHOOSE b \in records[k] : TRUE)] = Pieces(rec, n)
  <2>1. DOMAIN records = 1..n
    BY <1>3
  <2> DEFINE chosen(k) == CHOOSE b \in records[k] : TRUE
  <2>2. \A k \in 1..n : chosen(k) = rec[k]
    BY <1>3
  <2> HIDE DEF records, chosen
  <2>3. [k \in DOMAIN records |-> piece(chosen(k))] = [k \in 1..n |-> piece(rec[k])]
    BY <2>1, <2>2
  <2> QED
    BY <2>3 DEF Pieces, chosen
<1>6. put_append(r) =
        {r.numbers \o <<n>> \o FlattenSeq([k \in DOMAIN records |-> piece(CHOOSE b \in records[k] : TRUE)])}
  BY <1>4 DEF put_append
<1>7. Upto(Pieces(rec, n), n) = FlattenSeq(Pieces(rec, n))
  <2>1. [j \in 1..n |-> Pieces(rec, n)[j]] = Pieces(rec, n)
    BY DEF Pieces
  <2> QED
    BY <2>1 DEF Upto
<1> HIDE DEF records, piece
<1> QED
  BY <1>5, <1>6, <1>7

\* The octets of an envelope before its checksum.
BodyOf(e, r) == <<raft_version, e.kind, e.sender_id>> \o e.numbers \o r

\* An envelope is written if it has a sender and fits.
LEMMA EnvelopeBytes ==
  ASSUME NEW e, RaftEnvelope(e), NEW r,
         IF e.append = {} THEN r = <<>> ELSE UNION {put_append(x) : x \in e.append} = {r}
  PROVE  encode_raft_envelope(e) =
           IF e.sender_id # 0 /\ Len(BodyOf(e, r)) <= max_raft_frame_size - checksumSize
             THEN {Sealed(BodyOf(e, r))} ELSE {}
<1>1. (IF e.append = {} THEN {<<>>} ELSE UNION {put_append(x) : x \in e.append}) = {r}
  OBVIOUS
<1>2. {<<raft_version, e.kind, e.sender_id>> \o e.numbers \o x :
         x \in IF e.append = {} THEN {<<>>} ELSE UNION {put_append(x) : x \in e.append}}
        = {BodyOf(e, r)}
  BY <1>1 DEF BodyOf
<1> QED
  BY <1>2 DEF encode_raft_envelope

\* A function of the first n numbers is a sequence.
LEMMA FunctionIsSeq ==
  ASSUME NEW n \in Nat, NEW f \in [1..n -> Nat]
  PROVE  f \in Seq(Nat) /\ Len(f) = n
<1>1. f \in Seq(Nat)
  BY SeqDef
<1>2. PICK m \in Nat : m = Len(f) /\ DOMAIN f = 1..m
  BY <1>1, LenProperties
<1>3. 1..m = 1..n
  BY <1>2
<1>4. m = n
  <2>1. CASE m < n
    BY <1>3, <2>1, n \in 1..n
  <2>2. CASE n < m
    BY <1>3, <2>2, m \in 1..m
  <2> QED
    BY <2>1, <2>2
<1> QED
  BY <1>1, <1>2, <1>4

\* Where the parts of an envelope lie.
BodyLies(b, e, r) ==
  /\ Leading[e.kind] \in Nat /\ b \in Seq(Nat) /\ Len(b) = 3 + Leading[e.kind] + Len(r)
  /\ b[1] = raft_version /\ b[2] = e.kind /\ b[3] = e.sender_id
  /\ \A k \in 1..Leading[e.kind] : b[3 + k] = e.numbers[k]
  /\ \A k \in 1..Len(r) : b[3 + Leading[e.kind] + k] = r[k]

\* Every message is laid out so.
LEMMA BodyParts ==
  ASSUME NEW e, RaftEnvelope(e), NEW r \in Seq(Nat)
  PROVE  BodyLies(BodyOf(e, r), e, r)
<1>0. PICK b : b = BodyOf(e, r)
  OBVIOUS
<1>1. PICK l \in Nat : l = Leading[e.kind]
  BY DEF RaftEnvelope, Leading
<1>2. e.kind \in Nat /\ e.sender_id \in Nat /\ e.numbers \in [1..l -> Nat]
  BY <1>1 DEF RaftEnvelope
<1>3. e.numbers \in Seq(Nat) /\ Len(e.numbers) = l
  BY <1>2, FunctionIsSeq
<1>4. PICK h : h = <<raft_version, e.kind, e.sender_id>>
  OBVIOUS
<1>5. /\ h \in Seq(Nat) /\ Len(h) = 3 /\ h[1] = raft_version /\ h[2] = e.kind
      /\ h[3] = e.sender_id
  BY <1>2, <1>4 DEF raft_version
<1>6. PICK m, hm : m = e.numbers /\ hm = h \o m
  OBVIOUS
<1>7. m \in Seq(Nat) /\ Len(m) = l
  BY <1>3, <1>6
<1>8. /\ hm \in Seq(Nat) /\ Len(hm) = 3 + l
      /\ \A k \in 1..(3 + l) : hm[k] = IF k <= 3 THEN h[k] ELSE m[k - 3]
  <2>1. /\ h \o m \in Seq(Nat) /\ Len(h \o m) = Len(h) + Len(m)
        /\ \A k \in 1..(Len(h) + Len(m)) : (h \o m)[k] = IF k <= Len(h) THEN h[k] ELSE m[k - Len(h)]
    BY ONLY <1>5, <1>7, ConcatProperties
  <2> QED
    BY <1>5, <1>6, <1>7, <2>1
<1>9. PICK q \in Nat : q = Len(r)
  BY LenProperties
<1>10. /\ b \in Seq(Nat) /\ Len(b) = (3 + l) + q
       /\ \A k \in 1..((3 + l) + q) : b[k] = IF k <= 3 + l THEN hm[k] ELSE r[k - (3 + l)]
  <2>1. /\ hm \o r \in Seq(Nat) /\ Len(hm \o r) = Len(hm) + Len(r)
        /\ \A k \in 1..(Len(hm) + Len(r)) : (hm \o r)[k] = IF k <= Len(hm) THEN hm[k] ELSE r[k - Len(hm)]
    BY ONLY <1>8, r \in Seq(Nat), ConcatProperties
  <2>2. b = hm \o r
    BY <1>0, <1>4, <1>6 DEF BodyOf
  <2> QED
    BY <1>8, <1>9, <2>1, <2>2
<1>11. b[1] = h[1] /\ b[2] = h[2] /\ b[3] = h[3]
  <2>1. \A k \in 1..3 : k \in 1..((3 + l) + q) /\ k <= 3 + l /\ k \in 1..(3 + l) /\ k <= 3
    OBVIOUS
  <2>2. \A k \in 1..3 : b[k] = h[k]
    BY <1>8, <1>10, <2>1
  <2> QED
    BY <2>2
<1>12. ASSUME NEW k \in 1..l PROVE b[3 + k] = m[k]
  <2>1. /\ 3 + k \in 1..((3 + l) + q) /\ 3 + k <= 3 + l /\ 3 + k \in 1..(3 + l) /\ ~(3 + k <= 3)
        /\ (3 + k) - 3 = k
    OBVIOUS
  <2> QED
    BY <1>8, <1>10, <2>1
<1>13. ASSUME NEW k \in 1..q PROVE b[3 + l + k] = r[k]
  <2>1. 3 + l + k \in 1..((3 + l) + q) /\ ~(3 + l + k <= 3 + l) /\ (3 + l + k) - (3 + l) = k
    OBVIOUS
  <2> QED
    BY <1>10, <2>1
<1>14. Len(b) = 3 + l + q
  BY <1>10
<1> QED
  BY <1>0, <1>1, <1>5, <1>6, <1>9, <1>10, <1>11, <1>12, <1>13, <1>14 DEF BodyLies

\* b is numbers, how many entries follow, and these.
IsAppend(b, m, n, u) == b = m \o <<n>> \o u

\* Where they lie.
AppendLies(b, m, n, u) ==
  /\ b \in Seq(Nat) /\ Len(b) = 7 + Len(u)
  /\ \A k \in 1..6 : b[k] = m[k]
  /\ b[7] = n
  /\ \A k \in 1..Len(u) : b[7 + k] = u[k]

\* Where the parts of a request with entries lie.
LEMMA AppendParts ==
  ASSUME NEW m \in [1..6 -> Nat], NEW n \in Nat, NEW u \in Seq(Nat), NEW b, IsAppend(b, m, n, u)
  PROVE  AppendLies(b, m, n, u)
<1>1. m \in Seq(Nat) /\ Len(m) = 6
  BY FunctionIsSeq, 6 \in Nat
<1>2. PICK c : c = <<n>>
  OBVIOUS
<1>3. c \in Seq(Nat) /\ Len(c) = 1 /\ c[1] = n
  BY <1>2
<1>4. PICK mc : mc = m \o c
  OBVIOUS
<1>5. /\ mc \in Seq(Nat) /\ Len(mc) = 7 /\ \A k \in 1..7 : mc[k] = IF k <= 6 THEN m[k] ELSE c[k - 6]
  <2>1. /\ m \o c \in Seq(Nat) /\ Len(m \o c) = Len(m) + Len(c)
        /\ \A k \in 1..(Len(m) + Len(c)) : (m \o c)[k] = IF k <= Len(m) THEN m[k] ELSE c[k - Len(m)]
    BY ONLY <1>1, <1>3, ConcatProperties
  <2>2. Len(m) = 6 /\ Len(c) = 1 /\ 6 + 1 = 7
    BY <1>1, <1>3
  <2> QED
    BY ONLY <1>4, <2>1, <2>2
<1>6. PICK q \in Nat : q = Len(u)
  BY LenProperties
<1>7. /\ b \in Seq(Nat) /\ Len(b) = 7 + q
      /\ \A k \in 1..(7 + q) : b[k] = IF k <= 7 THEN mc[k] ELSE u[k - 7]
  <2>1. /\ mc \o u \in Seq(Nat) /\ Len(mc \o u) = Len(mc) + Len(u)
        /\ \A k \in 1..(Len(mc) + Len(u)) : (mc \o u)[k] = IF k <= Len(mc) THEN mc[k] ELSE u[k - Len(mc)]
    BY ONLY <1>5, u \in Seq(Nat), ConcatProperties
  <2>2. b = mc \o u
    BY <1>2, <1>4 DEF IsAppend
  <2> QED
    BY <1>5, <1>6, <2>1, <2>2
<1>8. ASSUME NEW k \in 1..6 PROVE b[k] = m[k]
  <2>1. k \in 1..7 /\ k \in 1..(7 + q) /\ k <= 7 /\ k <= 6
    OBVIOUS
  <2>2. b[k] = mc[k]
    BY <1>7, <2>1
  <2>3. mc[k] = m[k]
    BY <1>5, <2>1
  <2> QED
    BY ONLY <2>2, <2>3
<1>9. b[7] = n
  <2>1. 7 \in 1..7 /\ 7 \in 1..(7 + q) /\ ~(7 <= 6) /\ 7 - 6 = 1
    OBVIOUS
  <2>2. b[7] = mc[7] /\ mc[7] = c[1]
    BY ONLY <1>5, <1>7, <2>1
  <2> QED
    BY <1>3, <2>2
<1>10. ASSUME NEW k \in 1..q PROVE b[7 + k] = u[k]
  <2>1. 7 + k \in 1..(7 + q) /\ ~(7 + k <= 7) /\ (7 + k) - 7 = k
    OBVIOUS
  <2> QED
    BY <1>7, <2>1
<1> QED
  BY <1>6, <1>7, <1>8, <1>9, <1>10 DEF AppendLies

-----------------------------------------------------------------------------
(* No message outgrows its frame.                                          *)

\* An entry with its place in the log.
At(e, k) == [e EXCEPT !.index = k]

\* Four of any entry fit a frame, wherever it stands in the log.
LEMMA EntryFits ==
  ASSUME NEW e \in Entries
  PROVE  \E size \in Nat :
           /\ 4 * size + 13 <= max_raft_frame_size
           /\ \A k \in Nat \ {0} : \E r : IsRecord(r, At(e, k)) /\ Len(r) + 1 <= size
<1>1. PICK t, c : t = e.term /\ c = e.command
  OBVIOUS
<1>2. /\ t \in Nat \ {0} /\ c \in CommandsOf(Seq(Nat), Nat) /\ ValidContents(c)
      /\ \A k : At(e, k) = [index |-> k, term |-> t, command |-> c]
  <2>1. e \in LogEntries /\ e.term # 0 /\ ValidContents(e.command)
    BY EntriesAssumption
  <2>2. e.term \in Nat /\ e.command \in CommandsOf(Seq(Nat), Nat)
    BY <2>1 DEF LogEntries
  <2>3. \A k : At(e, k) = [index |-> k, term |-> e.term, command |-> e.command]
    BY <2>1 DEF LogEntries, At
  <2> QED
    BY <1>1, <2>1, <2>2, <2>3
<1>3. PICK b \in Seq(Nat) : encode_command(c) = {b}
  BY <1>2, CommandBytes
<1>4. PICK m \in Nat : m = Len(b)
  BY LenProperties
<1>5. PICK size \in Nat : m + 7 <= size /\ 4 * size + 13 <= max_raft_frame_size
  <2>1. CASE \A x \in encode_command(c) : Len(x) <= max_client_request_size - 3
    <3>1. m <= max_client_request_size - 3
      BY <1>3, <1>4, <2>1
    <3>2. max_client_request_size + 4 \in Nat /\ m + 7 <= max_client_request_size + 4
      BY <3>1, SizeAssumption
    <3> QED
      BY <3>2, EntriesAssumption
  <2>2. CASE c.request_id = NoId /\ Len(c.key) + Len(c.value) <= MaxLine
    <3>1. m = 4 + Len(c.key) + Len(c.value)
      BY <1>2, <1>3, <1>4, <2>2, CommandSize
    <3>2. Len(c.key) \in Nat /\ Len(c.value) \in Nat
      BY <1>2, LenProperties DEF CommandsOf
    <3>3. MaxLine + 11 \in Nat /\ m + 7 <= MaxLine + 11
      <4>0. \A i, j, l \in Nat : i + j <= l => (4 + i + j) + 7 <= l + 11 /\ l + 11 \in Nat
        OBVIOUS
      <4>1. PICK x \in Nat, y \in Nat, z \in Nat :
              x = Len(c.key) /\ y = Len(c.value) /\ z = MaxLine
        BY <3>2, InputAssumption
      <4>2. m = 4 + x + y /\ x + y <= z
        BY <2>2, <3>1, <4>1
      <4> QED
        BY <4>0, <4>1, <4>2
    <3>4. 4 * (MaxLine + 11) + 13 <= max_raft_frame_size
      BY EntriesAssumption
    <3> QED
      BY <3>3, <3>4
  <2> QED
    BY <1>1, <2>1, <2>2, EntriesAssumption
<1>6. ASSUME NEW k \in Nat \ {0} PROVE \E r : IsRecord(r, At(e, k)) /\ Len(r) + 1 <= size
  <2>1. PICK x : x = At(e, k)
    OBVIOUS
  <2>2. x = [index |-> k, term |-> t, command |-> c] /\ x \in LogEntries /\ x.command = c
    BY <1>2, <2>1 DEF LogEntries
  <2>3. PICK r : IsRecord(r, x)
    BY ONLY <1>2, <2>2, k \in Nat \ {0}, EntryBytes
  <2>4. r \in encode_log_entry(x)
    BY <2>3 DEF IsRecord
  <2>5. encode_command(x.command) = {b}
    BY <1>3, <2>2
  <2>6. Len(r) = Len(b) + 6
    BY ONLY <2>2, <2>4, <2>5, b \in Seq(Nat), RecordSize
  <2>7. Len(r) + 1 <= size
    BY <1>4, <1>5, <2>6
  <2> QED
    BY <2>1, <2>3, <2>7
<1> QED
  BY <1>5, <1>6

\* What a node asks make_request for is a message.
LEMMA BatchType ==
  ASSUME NEW kind \in {AppendEntries, AppendEntriesReply}, NEW n \in Nat, NEW e \in Entries
  PROVE  /\ RaftEnvelope(Batch(kind, n, e))
         /\ \E r \in AppendRequests :
              /\ Batch(kind, n, e).append = {r} /\ Len(r.entries) = n
              /\ \A k \in 1..n : r.entries[k] = At(e, k)
<1>1. PICK s : s = [k \in 1..n |-> At(e, k)]
  OBVIOUS
<1>2. s \in Seq(LogEntries)
  <2>1. \A k \in 1..n : At(e, k) \in LogEntries
    BY EntriesAssumption DEF At, LogEntries
  <2>2. s \in [1..n -> LogEntries]
    BY <1>1, <2>1
  <2> QED
    BY <2>2, SeqDef
<1>3. Len(s) = n
  BY <1>1
<1>4. PICK r : r = [numbers |-> <<Term, Me, 0, 0, 0, 0>>, entries |-> s]
  OBVIOUS
<1>5. r \in AppendRequests
  <2>1. <<2, Me, 0, 0, 0, 0>> \in [1..6 -> Nat]
    BY InputAssumption
  <2> QED
    BY <1>2, <1>4, <2>1 DEF AppendRequests, Term
<1>6. PICK m : m = IF kind = AppendEntriesReply THEN <<Term, 1>> ELSE <<>>
  OBVIOUS
<1>7. Batch(kind, n, e) = [kind |-> kind, sender_id |-> Me, numbers |-> m, append |-> {r}]
  BY <1>1, <1>4, <1>6 DEF Batch, At
<1>8. PICK x : x = Batch(kind, n, e)
  OBVIOUS
<1>9. RaftEnvelope(x)
  <2>1. x.kind = kind /\ x.sender_id = Me /\ x.numbers = m /\ x.append = {r}
    BY <1>7, <1>8
  <2>2. kind \in 3..4 /\ kind \notin {RequestVote, RequestVoteReply} /\ Me \in Nat
    BY InputAssumption DEF AppendEntries, AppendEntriesReply, RequestVote, RequestVoteReply
  <2>3. m \in [1..Leading[kind] -> Nat] /\ (kind = AppendEntriesReply => m[2] \in {0, 1})
    <3>1. CASE kind = AppendEntriesReply
      <4>1. m = <<2, 1>> /\ Leading[kind] = 2
        BY <1>6, <3>1 DEF Term, Leading, AppendEntriesReply
      <4> QED
        BY <4>1
    <3>2. CASE kind = AppendEntries
      <4>1. m = <<>> /\ Leading[kind] = 0
        BY <1>6, <3>2 DEF Leading, AppendEntries, AppendEntriesReply
      <4>2. m \in [1..0 -> Nat]
        BY <4>1
      <4> QED
        BY <3>2, <4>1, <4>2 DEF AppendEntries, AppendEntriesReply
    <3> QED
      BY <3>1, <3>2
  <2>4. x = [kind |-> x.kind, sender_id |-> x.sender_id, numbers |-> x.numbers, append |-> x.append]
    BY <1>7, <1>8
  <2>5. x.kind \in 1..4
    BY <2>1, <2>2
  <2> QED
    BY <1>5, <2>1, <2>2, <2>3, <2>4, <2>5 DEF RaftEnvelope
<1>10. x.append = {r} /\ r.entries = s
  BY <1>4, <1>7, <1>8
<1> QED
  BY <1>1, <1>3, <1>5, <1>8, <1>9, <1>10

\* So many entries always fit.
LEMMA BatchFits ==
  ASSUME NEW kind \in {AppendEntries, AppendEntriesReply}, NEW n \in 0..batch_size,
         NEW e \in Entries
  PROVE  encode_raft_envelope(Batch(kind, n, e)) # {}
<1>1. n \in Nat /\ n <= 4
  BY DEF batch_size
<1>2. PICK x : x = Batch(kind, n, e)
  OBVIOUS
<1>3. PICK r \in AppendRequests :
        /\ x.append = {r} /\ Len(r.entries) = n /\ \A k \in 1..n : r.entries[k] = At(e, k)
  BY <1>1, <1>2, BatchType
<1>4. RaftEnvelope(x)
  BY <1>1, <1>2, BatchType
<1>5. PICK size \in Nat :
        /\ 4 * size + 13 <= max_raft_frame_size
        /\ \A k \in Nat \ {0} : \E y : IsRecord(y, At(e, k)) /\ Len(y) + 1 <= size
  BY EntryFits
<1> DEFINE rec == [k \in 1..n |-> CHOOSE y : IsRecord(y, At(e, k)) /\ Len(y) + 1 <= size]
<1>6. \A k \in 1..n : IsRecord(rec[k], At(e, k)) /\ Len(rec[k]) + 1 <= size
  <2> SUFFICES ASSUME NEW k \in 1..n
               PROVE  IsRecord(rec[k], At(e, k)) /\ Len(rec[k]) + 1 <= size
    OBVIOUS
  <2>1. k \in Nat \ {0}
    BY <1>1
  <2>2. \E y : IsRecord(y, At(e, k)) /\ Len(y) + 1 <= size
    BY <1>5, <2>1
  <2> QED
    BY <2>2
<1>7. rec = [k \in 1..n |-> rec[k]]
  OBVIOUS
<1> HIDE DEF rec
<1>8. rec \in [1..n -> Seq(Nat)]
  BY <1>6, <1>7 DEF IsRecord
<1>9. RecordsOf(rec, r)
  BY <1>3, <1>6, <1>8 DEF RecordsOf, IsRecord
<1>10. PICK s : s = Pieces(rec, n)
  OBVIOUS
<1>11. s \in [1..n -> Seq(Nat)] /\ \A k \in 1..n : Len(s[k]) <= size
  <2>1. /\ s \in [1..n -> Seq(Nat)]
        /\ \A k \in 1..n : Len(s[k]) = Len(rec[k]) + 1
    <3>1. /\ Pieces(rec, n) \in [1..n -> Seq(Nat)]
          /\ \A k \in 1..n : Len(Pieces(rec, n)[k]) = Len(rec[k]) + 1
      BY ONLY <1>1, <1>8, PieceType
    <3> QED
      BY ONLY <1>10, <3>1
  <2>2. \A k \in 1..n : Len(rec[k]) + 1 <= size
    BY ONLY <1>6
  <2> QED
    BY ONLY <2>1, <2>2
<1>12. PICK u : u = Upto(s, n)
  OBVIOUS
<1>13. u \in Seq(Nat) /\ Len(u) \in Nat /\ Len(u) <= n * size
  <2>1. n \in 0..n
    BY <1>1
  <2>2. u \in Seq(Nat)
    BY <1>1, <1>11, <1>12, <2>1, UptoGrows
  <2>3. Len(u) <= n * size
    BY <1>1, <1>11, <1>12, <2>1, UptoFits
  <2> QED
    BY <2>2, <2>3, LenProperties
<1>14. PICK b : b = r.numbers \o <<n>> \o u
  OBVIOUS
<1>15. b \in Seq(Nat) /\ Len(b) = 7 + Len(u)
  <2>1. PICK m : m = r.numbers /\ m \in [1..6 -> Nat]
    BY DEF AppendRequests
  <2>2. IsAppend(b, m, n, u)
    BY <1>14, <2>1 DEF IsAppend
  <2>3. AppendLies(b, m, n, u)
    BY ONLY <1>1, <1>13, <2>1, <2>2, AppendParts
  <2> QED
    BY <2>3 DEF AppendLies
<1>16. put_append(r) = {b}
  BY <1>1, <1>3, <1>9, <1>10, <1>12, <1>14, AppendBytes
<1>17. x.append # {} /\ UNION {put_append(y) : y \in x.append} = {b}
  BY <1>3, <1>16
<1>18. Len(BodyOf(x, b)) = 3 + Leading[x.kind] + Len(b)
  <2>1. BodyLies(BodyOf(x, b), x, b)
    BY <1>4, <1>15, BodyParts
  <2> QED
    BY <2>1 DEF BodyLies
<1>19. x.kind = kind /\ x.sender_id = Me
  BY <1>2 DEF Batch
<1>20. Leading[x.kind] <= 2 /\ Leading[x.kind] \in Nat
  BY <1>19 DEF Leading, AppendEntries, AppendEntriesReply
<1>21. n * size <= 4 * size
  <2>1. n = 0 \/ n = 1 \/ n = 2 \/ n = 3 \/ n = 4
    BY <1>1
  <2> QED
    BY <2>1
<1>22. Len(BodyOf(x, b)) <= max_raft_frame_size - checksumSize
  <2>1. PICK i \in Nat, j \in Nat, w \in Nat, f \in Nat :
          i = Leading[x.kind] /\ j = Len(u) /\ w = n * size /\ f = max_raft_frame_size
    BY <1>1, <1>13, <1>20, SizeAssumption
  <2>2. Len(BodyOf(x, b)) = 3 + i + (7 + j)
    BY <1>15, <1>18, <2>1
  <2>3. i <= 2 /\ j <= w /\ w <= 4 * size /\ 4 * size + 13 <= f
    BY <1>5, <1>13, <1>20, <1>21, <2>1
  <2>4. 3 + i + (7 + j) <= f - 1
    BY ONLY SMTT(30), <2>1, <2>3, size \in Nat
  <2> QED
    BY <2>1, <2>2, <2>4 DEF checksumSize
<1>23. x.sender_id # 0
  BY <1>19, InputAssumption
<1>24. encode_raft_envelope(x) = {Sealed(BodyOf(x, b))}
  BY <1>4, <1>17, <1>22, <1>23, EnvelopeBytes
<1> QED
  BY <1>2, <1>24

\* A node never stops because of the size of what it replicates, however large the
\* requests and lines were that brought the entries (queue_append, encode_raft_envelope,
\* process).
THEOREM FramesAreBounded == Spec => []FramesBounded
<1>1. Init => FramesBounded
  BY DEF Init, FramesBounded, Connection
<1>2. FramesBounded /\ [Next]_ivars => FramesBounded'
  <2> SUFFICES ASSUME FramesBounded, [Next]_ivars PROVE FramesBounded'
    OBVIOUS
  <2>1. ASSUME NEW request \in Requests, client_calls(request) \/ client_fails(request)
        PROVE  FramesBounded'
    <3>1. last'.operation = request.operation
      BY <2>1 DEF client_calls, client_fails, Connection
    <3>2. request.operation \in {"Write", "Read", "Status"}
      BY SentAssumption
    <3> QED
      BY <3>1, <3>2 DEF FramesBounded
  <2>2. ASSUME NEW envelope \in Envelopes, peer_sends(envelope) PROVE FramesBounded'
    <3>1. last'.operation = "Raft"
      BY <2>2 DEF peer_sends, Connection
    <3> QED
      BY <3>1 DEF FramesBounded
  <2>3. ASSUME NEW peer \in PeerIds, NEW kind \in {AppendEntries, AppendEntriesReply},
               NEW n \in 0..batch_size, NEW e \in Entries,
               process_sends(peer, Batch(kind, n, e))
        PROVE  FramesBounded'
    <3>1. last'.intact = (encode_raft_envelope(Batch(kind, n, e)) # {})
      BY <2>3 DEF process_sends, Connection
    <3>2. encode_raft_envelope(Batch(kind, n, e)) # {}
      BY BatchFits
    <3> QED
      BY <3>1, <3>2 DEF FramesBounded
  <2>4. CASE close
    <3>1. last'.operation = "None"
      BY <2>4 DEF close, Connection
    <3> QED
      BY <3>1 DEF FramesBounded
  <2>5. ASSUME NEW count, NEW hung_up, NEW fails, read_console(count, hung_up, fails)
        PROVE  FramesBounded'
    BY <2>5 DEF read_console, FramesBounded
  <2>6. CASE UNCHANGED ivars
    BY <2>6 DEF ivars, FramesBounded
  <2> QED
    BY <2>1, <2>2, <2>3, <2>4, <2>5, <2>6 DEF Next
<1> QED
  BY <1>1, <1>2, PTL DEF Spec

-----------------------------------------------------------------------------
(* What the other side reads from a frame that arrives whole.              *)

\* s is a header and a rest under their checksum.
IsFramed(s, h, r) == s = Sealed(h \o r)

\* Where the parts of a frame lie.
LEMMA Framed ==
  ASSUME NEW h \in Seq(Nat), NEW r \in Seq(Nat), NEW s, IsFramed(s, h, r)
  PROVE  /\ s \in Seq(Nat) /\ Len(s) = Len(h) + Len(r) + 1
         /\ \A k \in 1..Len(h) : s[k] = h[k]
         /\ SubSeq(s, Len(h) + 1, Len(s) - 1) = r
         /\ valid_checksum(s)
<1>1. PICK l \in Nat, m \in Nat : l = Len(h) /\ m = Len(r)
  BY LenProperties
<1>2. PICK b : b = h \o r
  OBVIOUS
<1>3. /\ b \in Seq(Nat) /\ Len(b) = l + m
      /\ \A k \in 1..(l + m) : b[k] = IF k <= l THEN h[k] ELSE r[k - l]
  <2>1. /\ h \o r \in Seq(Nat) /\ Len(h \o r) = Len(h) + Len(r)
        /\ \A k \in 1..(Len(h) + Len(r)) : (h \o r)[k] = IF k <= Len(h) THEN h[k] ELSE r[k - Len(h)]
    BY ONLY h \in Seq(Nat), r \in Seq(Nat), ConcatProperties
  <2> QED
    BY <1>1, <1>2, <2>1
<1>4. /\ s \in Seq(Nat) /\ Len(s) = (l + m) + 1 /\ \A k \in 1..(l + m) : s[k] = b[k]
      /\ valid_checksum(s)
  <2>1. s = Sealed(b)
    BY <1>2 DEF IsFramed
  <2>2. /\ s \in Seq(Nat) /\ Len(s) = Len(b) + 1 /\ \A k \in 1..Len(b) : s[k] = b[k]
        /\ valid_checksum(s)
    BY <1>3, <2>1, SealedBytes
  <2> QED
    BY <1>3, <2>2
<1>5. ASSUME NEW k \in 1..l PROVE s[k] = h[k]
  <2>1. k \in 1..(l + m) /\ k <= l
    OBVIOUS
  <2> QED
    BY <1>3, <1>4, <2>1
<1>6. ASSUME NEW k \in 1..m PROVE s[l + k] = r[k]
  <2>1. l + k \in 1..(l + m) /\ ~(l + k <= l) /\ (l + k) - l = k
    OBVIOUS
  <2> QED
    BY <1>3, <1>4, <2>1
<1>7. SubSeq(s, l + 1, l + m) = r
  <2>1. l + Len(r) <= Len(s) /\ \A k \in 1..Len(r) : s[l + k] = r[k]
    BY <1>1, <1>4, <1>6
  <2>2. SubSeq(s, l + 1, l + Len(r)) = r
    BY ONLY <1>1, <1>4, <2>1, r \in Seq(Nat), PartIs
  <2> QED
    BY <1>1, <2>2
<1>8. Len(s) - 1 = l + m
  BY <1>4
<1> QED
  BY <1>1, <1>4, <1>5, <1>7, <1>8

\* A frame that arrives whole is received as it was sent (write_all, receive_frame).
LEMMA ArrivesWhole ==
  ASSUME NEW f \in Seq(Nat), NEW max \in Nat, Len(f) # 0, Len(f) <= max
  PROVE  Stream(f) # <<>> /\ receive_frame(Stream(f), max) = {f}
<1>1. PICK n \in Nat : n = Len(f)
  BY LenProperties
<1>2. PICK h : h = <<n>>
  OBVIOUS
<1>3. h \in Seq(Nat) /\ Len(h) = 1 /\ h[1] = n
  BY <1>2
<1>4. PICK s : s = h \o f
  OBVIOUS
<1>5. /\ s \in Seq(Nat) /\ Len(s) = 1 + n
      /\ \A k \in 1..(1 + n) : s[k] = IF k <= 1 THEN h[k] ELSE f[k - 1]
  <2>1. /\ h \o f \in Seq(Nat) /\ Len(h \o f) = Len(h) + Len(f)
        /\ \A k \in 1..(Len(h) + Len(f)) : (h \o f)[k] = IF k <= Len(h) THEN h[k] ELSE f[k - Len(h)]
    BY ONLY <1>3, f \in Seq(Nat), ConcatProperties
  <2> QED
    BY <1>1, <1>3, <1>4, <2>1
<1>6. s[1] = n
  BY <1>3, <1>5
<1>7. SubSeq(s, 2, n + 1) = f
  <2>1. ASSUME NEW k \in 1..n PROVE s[1 + k] = f[k]
    <3>1. 1 + k \in 1..(1 + n) /\ ~(1 + k <= 1) /\ (1 + k) - 1 = k
      OBVIOUS
    <3> QED
      BY <1>5, <3>1
  <2>2. 1 + Len(f) <= Len(s) /\ \A k \in 1..Len(f) : s[1 + k] = f[k]
    BY <1>1, <1>5, <2>1
  <2>3. SubSeq(s, 1 + 1, 1 + Len(f)) = f
    BY ONLY <1>5, <2>2, f \in Seq(Nat), 1 \in Nat, PartIs
  <2>4. 1 + 1 = 2 /\ 1 + Len(f) = n + 1
    BY <1>1
  <2> QED
    BY <2>3, <2>4
<1>8. s # <<>>
  <2>1. Len(s) # 0
    BY <1>5
  <2> QED
    BY <2>1
<1>9. Stream(f) = s
  BY <1>1, <1>2, <1>4 DEF Stream
<1>10. ~(s[1] = 0 \/ s[1] > max \/ s[1] > Len(s) - 1)
  BY <1>1, <1>5, <1>6
<1>11. receive_frame(s, max) = {SubSeq(s, 2, s[1] + 1)}
  BY <1>8, <1>10 DEF receive_frame
<1> QED
  BY <1>6, <1>7, <1>8, <1>9, <1>11

\* The answer to a write is read as it was written (encode_client_reply,
\* decode_client_reply).
LEMMA WriteReplyBytes ==
  ASSUME NEW r \in [status : 1..6, term : Nat, index : Nat, leader_hint : Nat],
         ValidWriteReply(r)
  PROVE  \E b \in Seq(Nat) : /\ encode_client_reply(r) = {b} /\ Len(b) = 7
                             /\ decode_client_reply(b) = {r}
<1>0. PICK s \in 1..6, t \in Nat, i \in Nat, h \in Nat :
        r = [status |-> s, term |-> t, index |-> i, leader_hint |-> h]
  OBVIOUS
<1>1. PICK p : p = <<2, 6, s, t, i, h>>
  OBVIOUS
<1>2. /\ p \in Seq(Nat) /\ Len(p) = 6
      /\ p[1] = 2 /\ p[2] = 6 /\ p[3] = s /\ p[4] = t /\ p[5] = i /\ p[6] = h
  BY <1>1
<1>3. PICK b : b = Sealed(p)
  OBVIOUS
<1>4. /\ b \in Seq(Nat) /\ Len(b) = 7 /\ \A k \in 1..6 : b[k] = p[k]
      /\ valid_checksum(b)
  <2>1. /\ b \in Seq(Nat) /\ Len(b) = Len(p) + 1 /\ \A k \in 1..Len(p) : b[k] = p[k]
        /\ valid_checksum(b)
    BY ONLY <1>2, <1>3, SealedBytes
  <2>2. Len(p) = 6 /\ 6 + 1 = 7
    BY <1>2
  <2> QED
    BY ONLY <2>1, <2>2
<1>5. b[1] = 2 /\ b[2] = 6 /\ b[3] = s /\ b[4] = t /\ b[5] = i /\ b[6] = h
  BY <1>2, <1>4
<1>6. encode_client_reply(r) = {b}
  BY <1>0, <1>1, <1>3 DEF encode_client_reply, client_version, reply_kind
<1>7. Genuine(b, client_version, {reply_size + checksumSize}) /\ b[2] = reply_kind
  BY <1>4, <1>5 DEF Genuine, client_version, reply_size, checksumSize, reply_kind
<1>8. {x \in {[status |-> b[3], term |-> b[4], index |-> b[5], leader_hint |-> b[6]]} :
         ValidWriteReply(x)} = {r}
  BY <1>0, <1>5
<1>9. decode_client_reply(b) = {r}
  BY <1>7, <1>8 DEF decode_client_reply
<1> QED
  BY <1>4, <1>6, <1>9

\* The answer to a read is read as it was written (encode_client_read_reply,
\* decode_client_read_reply).
LEMMA ReadReplyBytes ==
  ASSUME NEW r \in [status : 1..6, term : Nat, index : Nat, leader_hint : Nat,
                    value : SUBSET Seq(Nat)],
         NEW text \in Seq(Nat), Len(text) <= max_client_frame_size - 8,
         r.value = IF r.status = 1 THEN {text} ELSE {}, r.status # 1 => text = <<>>,
         r.status \in {1, 2} => r.index # 0
  PROVE  \E b \in Seq(Nat) : /\ encode_client_read_reply(r) = {b}
                             /\ Len(b) # 0 /\ Len(b) <= max_client_frame_size
                             /\ decode_client_read_reply(b) = {r}
<1>0. PICK s \in 1..6, t \in Nat, i \in Nat, h \in Nat, value \in SUBSET Seq(Nat) :
        /\ r = [status |-> s, term |-> t, index |-> i, leader_hint |-> h, value |-> value]
        /\ value = (IF s = 1 THEN {text} ELSE {}) /\ (s # 1 => text = <<>>)
        /\ s \in {1, 2} => i # 0
  OBVIOUS
<1>1. PICK n \in Nat : n = Len(text) /\ n + 8 <= max_client_frame_size
  <2>1. Len(text) \in Nat /\ max_client_frame_size \in Nat
    BY LenProperties, SizeAssumption
  <2> QED
    BY <2>1
<1>2. ValidReadReply(r)
  BY <1>0 DEF ValidReadReply, ReadStatus
<1>3. Characters(r.value) = text
  <2>1. CASE s = 1
    <3>1. r.value = {text}
      BY <1>0, <2>1
    <3> QED
      BY <3>1 DEF Characters
  <2>2. CASE s # 1
    <3>1. r.value = {} /\ text = <<>>
      BY <1>0, <2>2
    <3> QED
      BY <3>1 DEF Characters
  <2> QED
    BY <2>1, <2>2
<1>4. PICK p : p = <<2, 8, s, t, i, h, n>>
  OBVIOUS
<1>5. /\ p \in Seq(Nat) /\ Len(p) = 7
      /\ p[1] = 2 /\ p[2] = 8 /\ p[3] = s /\ p[4] = t /\ p[5] = i /\ p[6] = h /\ p[7] = n
  BY <1>4
<1>6. PICK b : b = Sealed(p \o text)
  OBVIOUS
<1>7. /\ b \in Seq(Nat) /\ Len(b) = 8 + n
      /\ \A k \in 1..7 : b[k] = p[k]
      /\ SubSeq(b, 8, Len(b) - 1) = text
      /\ valid_checksum(b)
  <2>1. IsFramed(b, p, text)
    BY <1>6 DEF IsFramed
  <2>2. /\ b \in Seq(Nat) /\ Len(b) = Len(p) + Len(text) + 1
        /\ \A k \in 1..Len(p) : b[k] = p[k]
        /\ SubSeq(b, Len(p) + 1, Len(b) - 1) = text
        /\ valid_checksum(b)
    BY ONLY <1>5, <2>1, text \in Seq(Nat), Framed
  <2>3. Len(p) = 7 /\ Len(text) = n /\ 7 + 1 = 8 /\ 7 + n + 1 = 8 + n
    BY <1>1, <1>5
  <2> QED
    BY ONLY <2>2, <2>3
<1>8. b[1] = 2 /\ b[2] = 8 /\ b[3] = s /\ b[4] = t /\ b[5] = i /\ b[6] = h /\ b[7] = n
  BY <1>5, <1>7
<1>9. encode_client_read_reply(r) = {b}
  <2>1. ~(Len(Characters(r.value)) > max_client_frame_size - read_reply_size - checksumSize)
    BY <1>1, <1>3, SizeAssumption DEF read_reply_size, checksumSize
  <2>2. <<client_version, read_reply_kind, r.status, r.term, r.index, r.leader_hint,
          Len(Characters(r.value))>> = p
    BY <1>0, <1>1, <1>3, <1>4 DEF client_version, read_reply_kind
  <2> QED
    BY <1>2, <1>3, <1>6, <2>1, <2>2 DEF encode_client_read_reply
<1>10. /\ Genuine(b, client_version, (read_reply_size + checksumSize)..max_client_frame_size)
       /\ b[2] = read_reply_kind
       /\ b[7] = Len(b) - read_reply_size - checksumSize
       /\ b[3] # ReadStatus.Found => b[7] = 0
  <2>1. Len(b) \in 8..max_client_frame_size
    BY <1>1, <1>7, SizeAssumption
  <2>2. s # 1 => n = 0
    BY <1>0, <1>1
  <2>3. b[7] = Len(b) - 7 - 1
    BY <1>7, <1>8
  <2>4. 7 + 1 = 8
    OBVIOUS
  <2> QED
    BY <1>7, <1>8, <2>1, <2>2, <2>3, <2>4
    DEF Genuine, client_version, read_reply_size, checksumSize, read_reply_kind, ReadStatus
<1>11. [status |-> b[3], term |-> b[4], index |-> b[5], leader_hint |-> b[6],
        value |-> IF b[3] = ReadStatus.Found THEN {SubSeq(b, 8, Len(b) - 1)} ELSE {}] = r
  BY <1>0, <1>7, <1>8 DEF ReadStatus
<1>12. decode_client_read_reply(b) = {r}
  BY <1>2, <1>10, <1>11 DEF decode_client_read_reply
<1>13. Len(b) # 0 /\ Len(b) <= max_client_frame_size
  BY <1>1, <1>7
<1> QED
  BY <1>7, <1>9, <1>12, <1>13

\* A status is read as it was written (encode_client_status_reply,
\* decode_client_status_reply).
LEMMA StatusReplyBytes ==
  ASSUME NEW s \in 1..2, NEW role \in 0..3, NEW n \in [1..12 -> Nat], NEW r,
         r = [status |-> s, role |-> role, numbers |-> n], valid_status_reply(r)
  PROVE  \E b \in Seq(Nat) : /\ encode_client_status_reply(r) = {b} /\ Len(b) = 17
                             /\ decode_client_status_reply(b) = {r}
<1>1. PICK p : p = <<2, 10, s, role>>
  OBVIOUS
<1>2. p \in Seq(Nat) /\ Len(p) = 4 /\ p[1] = 2 /\ p[2] = 10 /\ p[3] = s /\ p[4] = role
  BY <1>1
<1>3. n \in Seq(Nat) /\ Len(n) = 12
  BY FunctionIsSeq, 12 \in Nat
<1>4. PICK b : b = Sealed(p \o n)
  OBVIOUS
<1>5. /\ b \in Seq(Nat) /\ Len(b) = 17
      /\ \A k \in 1..4 : b[k] = p[k]
      /\ SubSeq(b, 5, 16) = n
      /\ valid_checksum(b)
  <2>1. IsFramed(b, p, n)
    BY <1>4 DEF IsFramed
  <2>2. /\ b \in Seq(Nat) /\ Len(b) = Len(p) + Len(n) + 1
        /\ \A k \in 1..Len(p) : b[k] = p[k]
        /\ SubSeq(b, Len(p) + 1, Len(b) - 1) = n
        /\ valid_checksum(b)
    BY ONLY <1>2, <1>3, <2>1, Framed
  <2>3. Len(p) = 4 /\ Len(n) = 12 /\ 4 + 1 = 5 /\ 4 + 12 + 1 = 17 /\ 17 - 1 = 16
    BY <1>2, <1>3
  <2> QED
    BY ONLY <2>2, <2>3
<1>6. b[1] = 2 /\ b[2] = 10 /\ b[3] = s /\ b[4] = role
  BY <1>2, <1>5
<1>7. encode_client_status_reply(r) = {b}
  BY <1>1, <1>4 DEF encode_client_status_reply, client_version, status_reply_kind
<1>8. /\ Genuine(b, client_version, {status_reply_size + checksumSize})
      /\ b[2] = status_reply_kind
  BY <1>5, <1>6 DEF Genuine, client_version, status_reply_size, checksumSize, status_reply_kind
<1>9. [status |-> b[3], role |-> b[4], numbers |-> SubSeq(b, 5, status_reply_size)] = r
  BY <1>5, <1>6 DEF status_reply_size
<1>10. decode_client_status_reply(b) = {r}
  BY <1>8, <1>9 DEF decode_client_status_reply
<1> QED
  BY <1>5, <1>7, <1>10

\* What a client reads from a frame, by what it asked for.
ReadBack(operation, bytes) ==
  CASE operation = "Write" -> decode_client_reply(bytes)
    [] operation = "Read" -> decode_client_read_reply(bytes)
    [] operation = "Status" -> decode_client_status_reply(bytes)

\* The replies to a request.
RepliesTo(operation, valid) ==
  CASE operation = "Write" -> WriteReplies(valid)
    [] operation = "Read" -> ReadReplies(valid)
    [] operation = "Status" -> StatusReplies(valid)

\* b is the frame of a reply and is read as it.
IsReply(b, operation, r) ==
  /\ b \in Seq(Nat) /\ Len(b) # 0 /\ Len(b) <= max_client_frame_size
  /\ Reply(operation, r) = {b} /\ ReadBack(operation, b) = {r}

\* Every answer to a write has a frame.
LEMMA WriteAnswers ==
  ASSUME NEW valid, NEW r \in WriteReplies(valid)
  PROVE  \E b : IsReply(b, "Write", r)
<1>1. Me \in Nat /\ 0 \in Nat /\ 2 \in Nat /\ 3 \in Nat
  BY InputAssumption
<1>2. PICK s \in 1..6, i \in {0, 3}, h \in {0, 3, Me} :
        /\ r = [status |-> s, term |-> 2, index |-> i, leader_hint |-> h]
        /\ s = 1 => i = 3
  <2>1. \E name \in DOMAIN WriteStatus, i \in {0, 3}, h \in {0, 3, Me} :
          r = WriteReply(name, i, h) /\ (name = "Committed" => i = 3)
    <3>1. CASE ~valid
      <4>1. r = WriteReply("InvalidRequest", 0, 0)
        BY <3>1 DEF WriteReplies
      <4> QED
        BY <4>1 DEF WriteStatus
    <3>2. CASE valid
      <4>1. \/ r = WriteReply("Committed", 3, Me)
            \/ \E s \in {"InvalidRequest", "Busy"} : r = WriteReply(s, 0, Me)
            \/ \E s \in {"NotLeader", "InternalError"}, h \in {0, 3} : r = WriteReply(s, 0, h)
            \/ \E h \in {0, 3} : r = WriteReply("OutcomeUnknown", 3, h)
        BY <3>2 DEF WriteReplies, Index, Hints
      <4> QED
        BY <4>1 DEF WriteStatus
    <3> QED
      BY <3>1, <3>2
  <2>2. PICK name \in DOMAIN WriteStatus, i \in {0, 3}, h \in {0, 3, Me} :
          r = WriteReply(name, i, h) /\ (name = "Committed" => i = 3)
    BY <2>1
  <2>3. WriteStatus[name] \in 1..6 /\ (WriteStatus[name] = 1 => name = "Committed")
    BY DEF WriteStatus
  <2> QED
    BY <2>2, <2>3 DEF WriteReply, Term
<1>3. i \in Nat /\ h \in Nat
  BY <1>1
<1>4. ValidWriteReply(r)
  BY <1>2 DEF ValidWriteReply, WriteStatus
<1>5. PICK b \in Seq(Nat) : /\ encode_client_reply(r) = {b} /\ Len(b) = 7
                            /\ decode_client_reply(b) = {r}
  <2>1. r \in [status : 1..6, term : Nat, index : Nat, leader_hint : Nat]
    BY <1>2, <1>3
  <2> QED
    BY ONLY <1>4, <2>1, WriteReplyBytes
<1>6. Len(b) # 0 /\ Len(b) <= max_client_frame_size
  BY <1>5, ValuesAssumption, SizeAssumption
<1> QED
  BY <1>5, <1>6 DEF IsReply, Reply, ReadBack

\* Every answer to a read has a frame, whatever value was found.
LEMMA ReadAnswers ==
  ASSUME NEW valid, NEW r \in ReadReplies(valid)
  PROVE  \E b : IsReply(b, "Read", r)
<1>1. Me \in Nat /\ 0 \in Nat /\ 2 \in Nat /\ 3 \in Nat
  BY InputAssumption
<1>2. PICK s \in 1..6, i \in {0, 3}, h \in {0, 3, Me}, text \in {<<>>} \cup Values :
        /\ r = [status |-> s, term |-> 2, index |-> i, leader_hint |-> h,
                value |-> IF s = 1 THEN {text} ELSE {}]
        /\ (s \in {1, 2} => i = 3) /\ (s # 1 => text = <<>>)
  <2>1. \E name \in DOMAIN ReadStatus, i \in {0, 3}, h \in {0, 3, Me}, text \in {<<>>} \cup Values :
          /\ r = ReadReply(name, i, h, IF name = "Found" THEN {text} ELSE {})
          /\ (name \in {"Found", "NotFound"} => i = 3) /\ (name # "Found" => text = <<>>)
    <3>1. CASE ~valid
      <4>1. r = ReadReply("InvalidRequest", 0, 0, {})
        BY <3>1 DEF ReadReplies
      <4>2. "InvalidRequest" \in DOMAIN ReadStatus
        BY DEF ReadStatus
      <4> QED
        BY <4>1, <4>2
    <3>2. CASE valid
      <4>0. DOMAIN ReadStatus = {"Found", "NotFound", "NotLeader", "Busy", "InvalidRequest", "InternalError"}
        BY DEF ReadStatus
      <4>1. \/ \E v \in Values : r = ReadReply("Found", 3, Me, {v})
            \/ r = ReadReply("NotFound", 3, Me, {})
            \/ r = ReadReply("Busy", 0, Me, {})
            \/ \E s \in {"NotLeader", "InternalError"}, h \in {0, 3} : r = ReadReply(s, 0, h, {})
        BY <3>2 DEF ReadReplies, Index, Hints
      <4>2. CASE \E v \in Values : r = ReadReply("Found", 3, Me, {v})
        BY <4>0, <4>2
      <4>3. CASE r = ReadReply("NotFound", 3, Me, {})
        BY <4>0, <4>3
      <4>4. CASE r = ReadReply("Busy", 0, Me, {})
        BY <4>0, <4>4
      <4>5. CASE \E s \in {"NotLeader", "InternalError"}, h \in {0, 3} : r = ReadReply(s, 0, h, {})
        BY <4>0, <4>5
      <4> QED
        BY <4>1, <4>2, <4>3, <4>4, <4>5
    <3> QED
      BY <3>1, <3>2
  <2>2. PICK name \in DOMAIN ReadStatus, i \in {0, 3}, h \in {0, 3, Me}, text \in {<<>>} \cup Values :
          /\ r = ReadReply(name, i, h, IF name = "Found" THEN {text} ELSE {})
          /\ (name \in {"Found", "NotFound"} => i = 3) /\ (name # "Found" => text = <<>>)
    BY <2>1
  <2>3. /\ ReadStatus[name] \in 1..6 /\ (ReadStatus[name] = 1 <=> name = "Found")
        /\ (ReadStatus[name] = 2 <=> name = "NotFound")
    BY DEF ReadStatus
  <2>4. PICK s \in 1..6 : s = ReadStatus[name]
    BY <2>3
  <2>5. r = [status |-> s, term |-> 2, index |-> i, leader_hint |-> h,
             value |-> IF s = 1 THEN {text} ELSE {}]
    BY <2>2, <2>3, <2>4 DEF ReadReply, Term
  <2>6. (s \in {1, 2} => i = 3) /\ (s # 1 => text = <<>>)
    BY <2>2, <2>3, <2>4
  <2> QED
    BY <2>5, <2>6
<1>3. i \in Nat /\ h \in Nat
  BY <1>1
<1>4. text \in Seq(Nat) /\ Len(text) <= max_client_frame_size - 8
  <2>1. CASE text \in Values
    BY <2>1, ValuesAssumption
  <2>2. CASE text = <<>>
    <3>1. Len(text) = 0
      BY <2>2
    <3> QED
      BY <2>2, <3>1, ValuesAssumption, SizeAssumption
  <2> QED
    BY <2>1, <2>2
<1>5. r \in [status : 1..6, term : Nat, index : Nat, leader_hint : Nat, value : SUBSET Seq(Nat)]
  <2>1. PICK value : value = IF s = 1 THEN {text} ELSE {}
    OBVIOUS
  <2>2. value \in SUBSET Seq(Nat)
    BY <1>4, <2>1
  <2> QED
    BY <1>2, <1>3, <2>1, <2>2
<1>6. /\ r.value = (IF r.status = 1 THEN {text} ELSE {}) /\ (r.status # 1 => text = <<>>)
      /\ (r.status \in {1, 2} => r.index # 0)
  BY <1>2
<1>7. PICK b \in Seq(Nat) : /\ encode_client_read_reply(r) = {b}
                            /\ Len(b) # 0 /\ Len(b) <= max_client_frame_size
                            /\ decode_client_read_reply(b) = {r}
  BY ONLY <1>4, <1>5, <1>6, ReadReplyBytes
<1> QED
  BY <1>7 DEF IsReply, Reply, ReadBack

\* Every status has a frame.
LEMMA StatusAnswers ==
  ASSUME NEW valid, NEW r \in StatusReplies(valid)
  PROVE  \E b : IsReply(b, "Status", r)
<1>1. PICK p \in 1..3, q \in 1..3 : p # Me /\ q # Me /\ p # q
        /\ p = (CHOOSE x \in PeerIds : \A y \in PeerIds : x <= y)
        /\ q = (CHOOSE x \in PeerIds : x # p)
  <2>1. PICK a \in 1..3, b \in 1..3 : PeerIds = {a, b} /\ a < b /\ a # Me /\ b # Me
    <3>1. CASE Me = 1
      <4>1. PeerIds = {2, 3}
        BY <3>1 DEF PeerIds
      <4> QED
        BY <3>1, <4>1
    <3>2. CASE Me = 2
      <4>1. PeerIds = {1, 3}
        BY <3>2 DEF PeerIds
      <4> QED
        BY <3>2, <4>1
    <3>3. CASE Me = 3
      <4>1. PeerIds = {1, 2}
        BY <3>3 DEF PeerIds
      <4> QED
        BY <3>3, <4>1
    <3> QED
      BY <3>1, <3>2, <3>3, InputAssumption
  <2>2. (CHOOSE x \in PeerIds : \A y \in PeerIds : x <= y) = a
    <3>1. \E x \in PeerIds : \A y \in PeerIds : x <= y
      BY <2>1
    <3>2. PICK z : z = (CHOOSE x \in PeerIds : \A y \in PeerIds : x <= y)
      OBVIOUS
    <3>3. z \in PeerIds /\ \A y \in PeerIds : z <= y
      BY <3>1, <3>2
    <3> QED
      BY <2>1, <3>2, <3>3
  <2>3. (CHOOSE x \in PeerIds : x # a) = b
    <3>1. \E x \in PeerIds : x # a
      BY <2>1
    <3>2. PICK z : z = (CHOOSE x \in PeerIds : x # a)
      OBVIOUS
    <3>3. z \in PeerIds /\ z # a
      BY <3>1, <3>2
    <3> QED
      BY <2>1, <3>2, <3>3
  <2> QED
    BY <2>1, <2>2, <2>3
<1>2. PICK s \in 1..2, role \in 0..3, n \in [1..12 -> Nat] :
        r = [status |-> s, role |-> role, numbers |-> n] /\ valid_status_reply(r)
  <2>1. CASE ~valid
    <3>1. r = InvalidStatus
      BY <2>1 DEF StatusReplies
    <3>2. PICK z : z = [k \in 1..12 |-> 0]
      OBVIOUS
    <3>3. r = [status |-> 2, role |-> 0, numbers |-> z] /\ z \in [1..12 -> Nat]
      BY <3>1, <3>2 DEF InvalidStatus
    <3>4. valid_status_reply(r)
      BY <3>2, <3>3 DEF valid_status_reply
    <3> QED
      BY <3>3, <3>4
  <2>2. CASE valid
    <3>1. \/ \E h \in {0, 3}, role \in 1..2 :
               r = [status |-> 1, role |-> role,
                    numbers |-> <<Me, 2, h, 3, 3, 2>> \o <<p, 0, 0, q, 0, 0>>]
          \/ r = [status |-> 1, role |-> 3,
                  numbers |-> <<Me, 2, Me, 3, 3, 3>> \o <<p, 4, 0, q, 4, 0>>]
      <4>1. 3 - 1 = 2 /\ 3 + 1 = 4
        OBVIOUS
      <4>2. PICK s \in {1}, role \in 1..3, h \in {0, 3, Me}, a \in {2, 3}, m \in {0, 4} :
              /\ r = [status |-> s, role |-> role,
                      numbers |-> <<Me, 2, h, 3, 3, a>> \o <<p, m, 0, q, m, 0>>]
              /\ \/ role \in 1..2 /\ h \in {0, 3} /\ a = 2 /\ m = 0
                 \/ role = 3 /\ h = Me /\ a = 3 /\ m = 4
        BY <1>1, <2>2, <4>1 DEF StatusReplies, Term, Index, Hints
      <4> QED
        BY <4>2
    <3>2. CASE \E h \in {0, 3}, role \in 1..2 :
                 r = [status |-> 1, role |-> role,
                      numbers |-> <<Me, 2, h, 3, 3, 2>> \o <<p, 0, 0, q, 0, 0>>]
      <4>1. PICK h \in {0, 3}, role \in 1..2 :
              r = [status |-> 1, role |-> role,
                   numbers |-> <<Me, 2, h, 3, 3, 2>> \o <<p, 0, 0, q, 0, 0>>]
        BY <3>2
      <4>2. PICK n : n = <<Me, 2, h, 3, 3, 2, p, 0, 0, q, 0, 0>>
        OBVIOUS
      <4>3. n = <<Me, 2, h, 3, 3, 2>> \o <<p, 0, 0, q, 0, 0>>
        BY <4>2
      <4>4. n \in [1..12 -> Nat]
        BY SMTT(30), <4>2, InputAssumption
      <4>5. /\ n[1] = Me /\ n[2] = 2 /\ n[3] = h /\ n[4] = 3 /\ n[5] = 3 /\ n[6] = 2
            /\ n[7] = p /\ n[8] = 0 /\ n[9] = 0 /\ n[10] = q /\ n[11] = 0 /\ n[12] = 0
        BY <4>2
      <4>6. r = [status |-> 1, role |-> role, numbers |-> n]
        BY <4>1, <4>3
      <4>7. valid_status_reply(r)
        <5>1. /\ n[6] <= n[5] /\ n[5] <= n[4] /\ n[7] # n[10] /\ n[1] \notin {n[7], n[10]}
              /\ 0 \notin {n[7], n[10]} \cup {n[1]}
          BY <1>1, <4>5, InputAssumption
        <5>2. \A x \in {8, 9, 11, 12} : n[x] = 0
          BY <4>5
        <5>3. r.status = 1 /\ r.role = role /\ r.numbers = n
          BY <4>6
        <5> QED
          BY <5>1, <5>2, <5>3 DEF valid_status_reply
      <4> QED
        <5>1. role \in 0..3 /\ 1 \in 1..2
          OBVIOUS
        <5> QED
          BY ONLY <4>4, <4>6, <4>7, <5>1
    <3>3. CASE r = [status |-> 1, role |-> 3,
                    numbers |-> <<Me, 2, Me, 3, 3, 3>> \o <<p, 4, 0, q, 4, 0>>]
      <4>1. PICK n : n = <<Me, 2, Me, 3, 3, 3, p, 4, 0, q, 4, 0>>
        OBVIOUS
      <4>2. n = <<Me, 2, Me, 3, 3, 3>> \o <<p, 4, 0, q, 4, 0>>
        BY <4>1
      <4>3. n \in [1..12 -> Nat]
        BY <4>1, InputAssumption
      <4>4. /\ n[1] = Me /\ n[2] = 2 /\ n[3] = Me /\ n[4] = 3 /\ n[5] = 3 /\ n[6] = 3
            /\ n[7] = p /\ n[8] = 4 /\ n[9] = 0 /\ n[10] = q /\ n[11] = 4 /\ n[12] = 0
        BY <4>1
      <4>5. r = [status |-> 1, role |-> 3, numbers |-> n]
        BY <3>3, <4>2
      <4>6. valid_status_reply(r)
        <5>1. /\ n[6] <= n[5] /\ n[5] <= n[4] /\ n[7] # n[10] /\ n[1] \notin {n[7], n[10]}
              /\ 0 \notin {n[7], n[10]} \cup {n[1]} /\ n[3] = n[1]
          BY <1>1, <4>4, InputAssumption
        <5>2. /\ n[7 + 2] < n[7 + 1] /\ n[7 + 2] <= n[4]
              /\ n[10 + 2] < n[10 + 1] /\ n[10 + 2] <= n[4]
          BY <4>4
        <5>3. \A x \in {7, 10} : n[x + 2] < n[x + 1] /\ n[x + 2] <= n[4]
          BY <5>2
        <5>4. r.status = 1 /\ r.role = 3 /\ r.numbers = n
          BY <4>5
        <5> QED
          BY <5>1, <5>3, <5>4 DEF valid_status_reply
      <4> QED
        BY <4>3, <4>5, <4>6
    <3> QED
      BY <3>1, <3>2, <3>3
  <2> QED
    BY <2>1, <2>2
<1>3. PICK b \in Seq(Nat) : /\ encode_client_status_reply(r) = {b} /\ Len(b) = 17
                            /\ decode_client_status_reply(b) = {r}
  BY ONLY ZenonT(60), <1>2, s \in 1..2, role \in 0..3, n \in [1..12 -> Nat], StatusReplyBytes
<1>4. Len(b) # 0 /\ Len(b) <= max_client_frame_size
  BY <1>3, ValuesAssumption, SizeAssumption
<1> QED
  BY <1>3, <1>4 DEF IsReply, Reply, ReadBack

\* Every answer the handlers build has a frame.
LEMMA AnswersHaveFrames ==
  ASSUME NEW operation \in {"Write", "Read", "Status"}, NEW valid,
         NEW r \in RepliesTo(operation, valid)
  PROVE  \E b : IsReply(b, operation, r)
<1>1. CASE operation = "Write"
  BY <1>1, WriteAnswers DEF RepliesTo
<1>2. CASE operation = "Read"
  BY <1>2, ReadAnswers DEF RepliesTo
<1>3. CASE operation = "Status"
  BY <1>3, StatusAnswers DEF RepliesTo
<1> QED
  BY <1>1, <1>2, <1>3

\* A client reads from a frame that arrives whole the reply in it (exchange).
LEMMA ReadWhole ==
  ASSUME NEW operation \in {"Write", "Read", "Status"}, NEW r, NEW b, IsReply(b, operation, r)
  PROVE  exchange(operation, Stream(b)) = [error |-> "None", reply |-> {r}]
<1>1. receive_frame(Stream(b), max_client_frame_size) = {b}
  BY ArrivesWhole, SizeAssumption DEF IsReply
<1>2. ReadBack(operation, b) = {r}
  BY DEF IsReply
<1>3. UNION {ReadBack(operation, f) : f \in {b}} = {r}
  BY <1>2
<1>4. exchange(operation, Stream(b)) =
        LET frames == receive_frame(Stream(b), max_client_frame_size)
            replies == UNION {ReadBack(operation, f) : f \in frames}
        IN IF replies # {} THEN [error |-> "None", reply |-> replies]
           ELSE IF frames # {} \/ (Stream(b) # <<>> /\ Stream(b)[1] \notin 1..max_client_frame_size)
           THEN Failure("InvalidReply")
           ELSE Failure("ConnectionLost")
  BY DEF exchange, ReadBack
<1> QED
  BY <1>1, <1>3, <1>4

\* The kind of frame a client sends.
KindOf(operation) ==
  CASE operation = "Write" -> request_kind
    [] operation = "Read" -> read_request_kind
    [] operation = "Status" -> status_request_kind

\* The answer to a frame is a reply to what its kind says.
LEMMA AnswersFit ==
  ASSUME NEW operation \in {"Write", "Read", "Status"}, NEW f, Len(f) >= 2,
         f[2] = KindOf(operation), NEW a \in Answers(f)
  PROVE  /\ a.reply \in RepliesTo(operation, Taken(f) # {})
         /\ a.bytes = Reply(operation, a.reply)
<1>1. CASE operation = "Write"
  <2>1. f[2] = request_kind
    BY <1>1 DEF KindOf
  <2>2. Answers(f) = {[reply |-> r, bytes |-> Reply("Write", r)] : r \in WriteReplies(Taken(f) # {})}
    BY <2>1 DEF Answers, request_kind, read_request_kind, status_request_kind
  <2> QED
    BY <1>1, <2>2 DEF RepliesTo
<1>2. CASE operation = "Read"
  <2>1. f[2] = read_request_kind
    BY <1>2 DEF KindOf
  <2>2. Answers(f) = {[reply |-> r, bytes |-> Reply("Read", r)] : r \in ReadReplies(Taken(f) # {})}
    BY <2>1 DEF Answers, request_kind, read_request_kind, status_request_kind
  <2> QED
    BY <1>2, <2>2 DEF RepliesTo
<1>3. CASE operation = "Status"
  <2>1. f[2] = status_request_kind
    BY <1>3 DEF KindOf
  <2>2. Answers(f) = {[reply |-> r, bytes |-> Reply("Status", r)] : r \in StatusReplies(Taken(f) # {})}
    BY <2>1 DEF Answers, request_kind, read_request_kind, status_request_kind
  <2> QED
    BY <1>3, <2>2 DEF RepliesTo
<1> QED
  BY <1>1, <1>2, <1>3

\* f is a frame of a client's request and is taken for it.
IsAsked(f, request) ==
  /\ f \in Seq(Nat) /\ Len(f) \in 3..max_raft_frame_size
  /\ f[2] = KindOf(request.operation)
  /\ Taken(f) = {request}

\* A frame for a peer has room for any request of a client.
LEMMA RoomForRequests ==
  /\ 3 <= max_raft_frame_size /\ max_client_request_size <= max_raft_frame_size
  /\ max_raft_frame_size \in Nat /\ max_client_request_size \in Nat
BY EntriesAssumption, SizeAssumption

\* A write is taken for what was asked (encode_client_request, decode_client_request).
LEMMA WriteRequestTaken ==
  ASSUME NEW c \in CommandsOf(Seq(Nat), Nat), NEW f \in encode_client_request(c)
  PROVE  IsAsked(f, [operation |-> "Write", body |-> c])
<1>1. PICK m \in encode_command(c) :
        /\ f = Sealed(<<2, 5>> \o m) /\ WriteCommand(c) /\ Len(m) <= max_client_request_size - 3
  BY DEF encode_client_request, client_version, request_kind
<1>2. ValidContents(c)
  BY <1>1 DEF encode_command
<1>3. m \in Seq(Nat) /\ decode_command(m) = {c}
  <2>1. \E bytes \in Seq(Nat) : /\ encode_command(c) = {bytes} /\ decode_command(bytes) = {c}
                                /\ Len(bytes) >= headerSize
    BY <1>2, CommandBytes
  <2> QED
    BY <1>1, <2>1
<1>4. PICK n \in Nat : n = Len(m) /\ n + 3 <= max_client_request_size
  <2>1. Len(m) \in Nat /\ max_client_request_size \in Nat
    BY <1>3, LenProperties, SizeAssumption
  <2> QED
    BY <1>1, <2>1
<1>5. PICK h : h = <<2, 5>>
  OBVIOUS
<1>6. h \in Seq(Nat) /\ Len(h) = 2 /\ h[1] = 2 /\ h[2] = 5
  BY <1>5
<1>7. /\ f \in Seq(Nat) /\ Len(f) = n + 3
      /\ \A k \in 1..2 : f[k] = h[k]
      /\ SubSeq(f, 3, Len(f) - 1) = m
      /\ valid_checksum(f)
  <2>1. IsFramed(f, h, m)
    BY <1>1, <1>5 DEF IsFramed
  <2>2. /\ f \in Seq(Nat) /\ Len(f) = Len(h) + Len(m) + 1
        /\ \A k \in 1..Len(h) : f[k] = h[k]
        /\ SubSeq(f, Len(h) + 1, Len(f) - 1) = m
        /\ valid_checksum(f)
    BY ONLY <1>3, <1>6, <2>1, Framed
  <2>3. Len(h) = 2 /\ Len(m) = n /\ 2 + 1 = 3 /\ 2 + n + 1 = n + 3
    BY <1>4, <1>6
  <2> QED
    BY ONLY <2>2, <2>3
<1>8. f[1] = 2 /\ f[2] = 5
  BY <1>6, <1>7
<1>9. Len(f) \in 3..max_client_request_size
  BY <1>4, <1>7, SizeAssumption
<1>10. Genuine(f, client_version, 3..max_client_request_size) /\ f[2] = request_kind
  BY <1>7, <1>8, <1>9 DEF Genuine, client_version, request_kind
<1>11. decode_client_request(f) = {c}
  <2>1. {x \in decode_command(SubSeq(f, 3, Len(f) - 1)) : WriteCommand(x)} = {c}
    BY <1>1, <1>3, <1>7
  <2> QED
    BY <1>10, <2>1 DEF decode_client_request
<1>12. Len(f) >= 2
  BY <1>4, <1>7
<1>13. Taken(f) = {[operation |-> "Write", body |-> x] : x \in decode_client_request(f)}
  BY <1>8, <1>12 DEF Taken, request_kind, read_request_kind, status_request_kind
<1>14. Taken(f) = {[operation |-> "Write", body |-> c]}
  BY <1>11, <1>13
<1> QED
  BY <1>7, <1>8, <1>9, <1>14, RoomForRequests DEF IsAsked, KindOf, request_kind

\* A read is taken for what was asked (encode_client_read_request,
\* decode_client_read_request).
LEMMA ReadRequestTaken ==
  ASSUME NEW key \in Seq(Nat), NEW f \in encode_client_read_request(key)
  PROVE  IsAsked(f, [operation |-> "Read", body |-> key])
<1>1. PICK n \in Nat : n = Len(key) /\ n + 4 <= max_client_request_size
  <2>1. Len(key) \in Nat /\ max_client_request_size \in Nat
    BY LenProperties, SizeAssumption
  <2>2. ~(Len(key) > max_client_request_size - 4)
    BY DEF encode_client_read_request
  <2> QED
    BY <2>1, <2>2
<1>2. PICK h : h = <<2, 7, n>>
  OBVIOUS
<1>3. h \in Seq(Nat) /\ Len(h) = 3 /\ h[1] = 2 /\ h[2] = 7 /\ h[3] = n
  BY <1>2
<1>4. f = Sealed(h \o key)
  BY <1>1, <1>2 DEF encode_client_read_request, client_version, read_request_kind
<1>5. /\ f \in Seq(Nat) /\ Len(f) = n + 4
      /\ \A k \in 1..3 : f[k] = h[k]
      /\ SubSeq(f, 4, Len(f) - 1) = key
      /\ valid_checksum(f)
  <2>1. IsFramed(f, h, key)
    BY <1>4 DEF IsFramed
  <2>2. /\ f \in Seq(Nat) /\ Len(f) = Len(h) + Len(key) + 1
        /\ \A k \in 1..Len(h) : f[k] = h[k]
        /\ SubSeq(f, Len(h) + 1, Len(f) - 1) = key
        /\ valid_checksum(f)
    BY ONLY <1>3, <2>1, key \in Seq(Nat), Framed
  <2>3. Len(h) = 3 /\ Len(key) = n /\ 3 + 1 = 4 /\ 3 + n + 1 = n + 4
    BY <1>1, <1>3
  <2> QED
    BY ONLY <2>2, <2>3
<1>6. f[1] = 2 /\ f[2] = 7 /\ f[3] = n
  BY <1>3, <1>5
<1>7. Len(f) \in 4..max_client_request_size /\ n = Len(f) - 4
  BY <1>1, <1>5, SizeAssumption
<1>8. decode_client_read_request(f) = {key}
  BY <1>5, <1>6, <1>7
  DEF decode_client_read_request, Genuine, client_version, read_request_kind
<1>9. Len(f) >= 2 /\ Len(f) \in 3..max_client_request_size
  BY <1>1, <1>5, <1>7, SizeAssumption
<1>10. Taken(f) = {[operation |-> "Read", body |-> k] : k \in decode_client_read_request(f)}
  BY <1>6, <1>9 DEF Taken, request_kind, read_request_kind, status_request_kind
<1>11. Taken(f) = {[operation |-> "Read", body |-> key]}
  BY <1>8, <1>10
<1> QED
  BY <1>5, <1>6, <1>9, <1>11, RoomForRequests DEF IsAsked, KindOf, read_request_kind

\* A request for the status is taken for one (encode_client_status_request,
\* decode_client_status_request).
LEMMA StatusRequestTaken ==
  ASSUME NEW f \in encode_client_status_request
  PROVE  IsAsked(f, [operation |-> "Status", body |-> <<>>])
<1>1. PICK h : h = <<2, 9>>
  OBVIOUS
<1>2. h \in Seq(Nat) /\ Len(h) = 2 /\ h[1] = 2 /\ h[2] = 9
  BY <1>1
<1>3. f = Sealed(h)
  BY <1>1 DEF encode_client_status_request, client_version, status_request_kind
<1>4. f \in Seq(Nat) /\ Len(f) = 3 /\ f[1] = 2 /\ f[2] = 9 /\ valid_checksum(f)
  <2>1. /\ f \in Seq(Nat) /\ Len(f) = Len(h) + 1 /\ \A k \in 1..Len(h) : f[k] = h[k]
        /\ valid_checksum(f)
    BY ONLY <1>2, <1>3, SealedBytes
  <2>2. 2 + 1 = 3 /\ 1 \in 1..2 /\ 2 \in 1..2
    OBVIOUS
  <2> QED
    BY <1>2, <2>1, <2>2
<1>5. decode_client_status_request(f)
  BY <1>4 DEF decode_client_status_request, Genuine, client_version, status_request_kind
<1>6. Taken(f) = {[operation |-> "Status", body |-> <<>>]}
  BY <1>4, <1>5 DEF Taken, request_kind, read_request_kind, status_request_kind
<1>7. Len(f) \in 3..max_raft_frame_size
  BY <1>4, RoomForRequests
<1> QED
  BY <1>4, <1>6, <1>7 DEF IsAsked, KindOf, status_request_kind

\* What a client sends is taken for what it asks.
LEMMA RequestTaken ==
  ASSUME NEW request \in Requests, NEW f \in Encoded(request)
  PROVE  request.operation \in {"Write", "Read", "Status"} /\ IsAsked(f, request)
<1>1. \/ \E c \in CommandsOf(Seq(Nat), Nat) : request = [operation |-> "Write", body |-> c]
      \/ \E key \in Seq(Nat) : request = [operation |-> "Read", body |-> key]
      \/ request = [operation |-> "Status", body |-> <<>>]
  <2>1. \/ request \in [operation : {"Write"}, body : CommandsOf(Seq(Nat), Nat)]
        \/ request \in [operation : {"Read"}, body : Seq(Nat)]
        \/ request = [operation |-> "Status", body |-> <<>>]
    BY SentAssumption
  <2> QED
    BY <2>1
<1>2. CASE \E c \in CommandsOf(Seq(Nat), Nat) : request = [operation |-> "Write", body |-> c]
  <2>1. PICK c \in CommandsOf(Seq(Nat), Nat) : request = [operation |-> "Write", body |-> c]
    BY <1>2
  <2>2. f \in encode_client_request(c)
    BY <2>1 DEF Encoded
  <2> QED
    BY <2>1, <2>2, WriteRequestTaken
<1>3. CASE \E key \in Seq(Nat) : request = [operation |-> "Read", body |-> key]
  <2>1. PICK key \in Seq(Nat) : request = [operation |-> "Read", body |-> key]
    BY <1>3
  <2>2. f \in encode_client_read_request(key)
    BY <2>1 DEF Encoded
  <2> QED
    BY <2>1, <2>2, ReadRequestTaken
<1>4. CASE request = [operation |-> "Status", body |-> <<>>]
  <2>1. f \in encode_client_status_request
    BY <1>4 DEF Encoded
  <2> QED
    BY <1>4, <2>1, StatusRequestTaken
<1> QED
  BY <1>1, <1>2, <1>3, <1>4

-----------------------------------------------------------------------------
(* What a node reads from a message of a peer.                             *)

\* Pieces that are not empty are not more than the cells they have together.
LEMMA UptoIsLong ==
  ASSUME NEW s, NEW n \in Nat, s \in [1..n -> Seq(Nat)], \A k \in 1..n : Len(s[k]) >= 1
  PROVE  n <= Len(Upto(s, n))
<1>1. \A m \in 0..n : Len(Upto(s, m)) \in Nat
  BY UptoGrows, LenProperties
<1>2. \A m \in 0..n : m < n => Len(Upto(s, m + 1)) = Len(Upto(s, m)) + Len(s[m + 1])
  BY UptoHolds, n \in 0..n
<1> DEFINE T == {m \in Nat : m <= n => m <= Len(Upto(s, m))}
<1>3. 0 \in T
  BY <1>1
<1>4. ASSUME NEW m \in T PROVE m + 1 \in T
  <2>1. ASSUME m + 1 <= n PROVE m + 1 <= Len(Upto(s, m + 1))
    <3>1. m \in 0..n /\ m < n /\ m + 1 \in 1..n /\ m + 1 \in 0..n
      BY <2>1
    <3>2. PICK a \in Nat, b \in Nat : a = Len(Upto(s, m)) /\ b = Len(s[m + 1])
      BY <1>1, <3>1, LenProperties
    <3>3. b >= 1 /\ m <= a
      BY <3>1, <3>2, m \in T
    <3>4. Len(Upto(s, m + 1)) = a + b
      BY <1>2, <3>1, <3>2
    <3>5. m \in Nat
      BY <3>1
    <3> HIDE DEF T
    <3> QED
      BY <3>3, <3>4, <3>5
  <2> QED
    BY <2>1
<1>5. T \in SUBSET Nat
  OBVIOUS
<1> HIDE DEF T
<1>6. T = Nat
  BY ONLY <1>3, <1>4, <1>5, SetInduction
<1> QED
  BY <1>6 DEF T

\* What the loop of read_append keeps.
Progress(at, es) == [at |-> at, entries |-> es]

\* A record, behind its length, lies at a place.
LiesAt(r, body, at) ==
  /\ at + Len(r) <= Len(body) /\ body[at] = Len(r)
  /\ \A i \in 1..Len(r) : body[at + i] = r[i]

\* A record is read from where it lies (a turn of read_append).
LEMMA RecordTurn ==
  ASSUME NEW body \in Seq(Nat), NEW at \in Nat, NEW r, NEW e, IsRecord(r, e),
         LiesAt(r, body, at), NEW es
  PROVE  ReadRecord(body, Progress(at, es)) = {Progress(at + Len(r) + 1, Append(es, e))}
<1>0. PICK q : /\ q = Len(r) /\ at + q <= Len(body) /\ body[at] = q
               /\ \A i \in 1..q : body[at + i] = r[i]
  BY DEF LiesAt
<1>1. r \in Seq(Nat) /\ q \in Nat
  BY <1>0, LenProperties DEF IsRecord
<1>2. PICK n \in Nat : n = Len(body)
  BY LenProperties
<1>3. ~(at > Len(body) \/ body[at] > Len(body) - at)
  BY <1>0, <1>1, <1>2
<1>4. SubSeq(body, at + 1, at + q) = r
  <2>1. at + Len(r) <= Len(body) /\ \A i \in 1..Len(r) : body[at + i] = r[i]
    BY <1>0
  <2>2. SubSeq(body, at + 1, at + Len(r)) = r
    BY ONLY <1>1, <2>1, body \in Seq(Nat), at \in Nat, PartIs
  <2> QED
    BY <1>0, <2>2
<1>5. decode_log_entry(r) = {[entry |-> e, bytes_consumed |-> q]}
  <2>1. Begins(r, Len(r), r)
    BY <1>0, <1>1 DEF Begins
  <2> QED
    BY <1>0, <1>1, <2>1 DEF IsRecord
<1>6. {x \in decode_log_entry(r) : x.bytes_consumed = q} = {[entry |-> e, bytes_consumed |-> q]}
  BY <1>5
<1>7. PICK read : read = Progress(at, es)
  OBVIOUS
<1>8. read.at = at /\ read.entries = es
  BY <1>7 DEF Progress
<1>9. PICK D : D = {x \in decode_log_entry(r) : x.bytes_consumed = q}
  OBVIOUS
<1>10. ReadRecord(body, read) = {[at |-> at + q + 1, entries |-> Append(es, d.entry)] : d \in D}
  BY <1>0, <1>3, <1>4, <1>8, <1>9 DEF ReadRecord
<1>11. PICK d : d = [entry |-> e, bytes_consumed |-> q]
  OBVIOUS
<1>12. D = {d} /\ d.entry = e
  BY <1>6, <1>9, <1>11
<1> QED
  BY <1>0, <1>7, <1>10, <1>12 DEF Progress

\* The first entries.
First(s, k) == [j \in 1..k |-> s[j]]

\* One entry more.
LEMMA FirstGrows ==
  ASSUME NEW S, NEW s \in Seq(S)
  PROVE  /\ First(s, 0) = <<>> /\ First(s, Len(s)) = s
         /\ \A k \in 0..Len(s) : k < Len(s) => First(s, k + 1) = Append(First(s, k), s[k + 1])
<1>1. PICK n \in Nat : n = Len(s) /\ DOMAIN s = 1..n /\ s \in [1..n -> S]
  BY LenProperties
<1>2. First(s, 0) = <<>>
  BY DEF First
<1>3. First(s, n) = s
  BY <1>1 DEF First
<1>4. ASSUME NEW k \in 0..n, k < n PROVE First(s, k + 1) = Append(First(s, k), s[k + 1])
  <2>1. k \in Nat /\ Len(First(s, k)) = k
    BY DEF First
  <2> QED
    BY <2>1 DEF First
<1> QED
  BY <1>1, <1>2, <1>3, <1>4

\* g gives what the loop of read_append has read after each record.
Reads(body, from, n, g) ==
  g = [k \in 0..n |-> IF k = 0 THEN {[at |-> from + 7, entries |-> <<>>]}
                      ELSE UNION {ReadRecord(body, r) : r \in g[k - 1]}]

\* u fills the body behind the numbers of a request.
Follows(body, from, u) ==
  Len(body) = from + 6 + Len(u) /\ \A k \in 1..Len(u) : body[from + 6 + k] = u[k]

\* The loop has read es when it ends where the body does.
LoopReads(body, from, n, es) ==
  \E g : /\ Reads(body, from, n, g)
         /\ \A h : Reads(body, from, n, h) => h = g
         /\ g[n] = {[at |-> Len(body) + 1, entries |-> es]}

\* The loop reads the entries that were written, and no more (read_append).
LEMMA EntriesRead ==
  ASSUME NEW body \in Seq(Nat), NEW from \in Nat, NEW es \in Seq(LogEntries), NEW n \in Nat,
         n = Len(es), NEW rec \in [1..n -> Seq(Nat)], \A k \in 1..n : IsRecord(rec[k], es[k]),
         NEW u, u = Upto(Pieces(rec, n), n), Follows(body, from, u)
  PROVE  LoopReads(body, from, n, es)
<1>1. PICK s : s = Pieces(rec, n)
  OBVIOUS
<1>2. /\ s \in [1..n -> Seq(Nat)]
      /\ \A k \in 1..n : /\ Len(rec[k]) \in Nat /\ Len(s[k]) = Len(rec[k]) + 1
                         /\ s[k][1] = Len(rec[k])
                         /\ \A i \in 1..Len(rec[k]) : s[k][i + 1] = rec[k][i]
  BY <1>1, PieceType
<1> DEFINE L(k) == Len(Upto(s, k))
           was(k) == Progress(from + 7 + L(k), First(es, k))
<1>3. \A k \in 0..n : L(k) \in Nat
  BY <1>2, UptoGrows, LenProperties
<1>4. \A k \in 0..n : k < n =>
        /\ L(k) + Len(s[k + 1]) <= L(n)
        /\ L(k + 1) = L(k) + Len(s[k + 1])
        /\ \A i \in 1..Len(s[k + 1]) : u[L(k) + i] = s[k + 1][i]
  <2>1. n \in 0..n /\ s \in [1..n -> Seq(Nat)] /\ n \in Nat
    BY <1>2
  <2>2. \A m \in 0..n : m < n =>
          /\ Len(Upto(s, m)) + Len(s[m + 1]) <= Len(Upto(s, n))
          /\ Len(Upto(s, m + 1)) = Len(Upto(s, m)) + Len(s[m + 1])
          /\ \A i \in 1..Len(s[m + 1]) : Upto(s, n)[Len(Upto(s, m)) + i] = s[m + 1][i]
    BY ONLY <2>1, UptoHolds
  <2>3. Upto(s, n) = u
    BY <1>1
  <2> QED
    BY <2>2, <2>3
<1>5. ASSUME NEW k \in 0..n, k < n PROVE ReadRecord(body, was(k)) = {was(k + 1)}
  <2>1. k + 1 \in 1..n
    BY <1>5
  <2>2. PICK r : r = rec[k + 1] /\ IsRecord(r, es[k + 1])
    BY <2>1
  <2>3. PICK q \in Nat, l \in Nat, t \in Nat : q = Len(r) /\ l = L(k) /\ t = L(n)
    <3>1. L(k) \in Nat /\ L(n) \in Nat
      BY <1>3, n \in 0..n
    <3>2. Len(r) \in Nat
      BY <1>2, <2>1, <2>2
    <3> HIDE DEF L
    <3> QED
      BY <3>1, <3>2
  <2>4. /\ Len(s[k + 1]) = q + 1 /\ s[k + 1][1] = q
        /\ \A i \in 1..q : s[k + 1][i + 1] = r[i]
    BY <1>2, <2>1, <2>2, <2>3
  <2>5. /\ l + (q + 1) <= t /\ L(k + 1) = l + (q + 1)
        /\ \A i \in 1..(q + 1) : u[l + i] = s[k + 1][i]
    BY <1>4, <1>5, <2>3, <2>4
  <2>6. /\ Len(u) = t /\ Len(body) = from + 6 + t
        /\ \A i \in 1..t : body[from + 6 + i] = u[i]
    BY <1>1, <2>3 DEF Follows
  <2>7. ASSUME NEW i \in 1..(q + 1) PROVE body[from + 6 + l + i] = s[k + 1][i]
    <3>1. l + i \in 1..t /\ from + 6 + (l + i) = from + 6 + l + i
      BY <2>5
    <3> QED
      BY <2>5, <2>6, <3>1
  <2>8. PICK at \in Nat : at = from + 7 + l
    OBVIOUS
  <2>9. at + q <= Len(body) /\ body[at] = q /\ \A i \in 1..q : body[at + i] = r[i]
    <3>1. at + q <= Len(body)
      BY <2>5, <2>6, <2>8
    <3>2. body[at] = q
      <4>1. 1 \in 1..(q + 1) /\ from + 6 + l + 1 = at
        BY <2>8
      <4> QED
        BY <2>4, <2>7, <4>1
    <3>3. ASSUME NEW i \in 1..q PROVE body[at + i] = r[i]
      <4>1. i + 1 \in 1..(q + 1) /\ from + 6 + l + (i + 1) = at + i
        BY <2>8
      <4> QED
        BY <2>4, <2>7, <4>1
    <3> QED
      BY <3>1, <3>2, <3>3
  <2>10. PICK x, e : x = First(es, k) /\ e = es[k + 1]
    OBVIOUS
  <2>11. ReadRecord(body, Progress(at, x)) = {Progress(at + q + 1, Append(x, e))}
    <3>1. LiesAt(r, body, at)
      BY <2>3, <2>9 DEF LiesAt
    <3>2. IsRecord(r, e) /\ body \in Seq(Nat) /\ at \in Nat
      BY <2>2, <2>10
    <3>3. ReadRecord(body, Progress(at, x)) = {Progress(at + Len(r) + 1, Append(x, e))}
      BY ONLY <3>1, <3>2, RecordTurn
    <3> QED
      BY <2>3, <3>3
  <2>12. First(es, k + 1) = Append(x, e)
    BY <1>5, <2>10, FirstGrows
  <2>13. from + 7 + L(k + 1) = at + q + 1
    <3>1. PICK w : w = L(k + 1)
      OBVIOUS
    <3>2. w = l + (q + 1)
      BY <2>5, <3>1
    <3>3. from + 7 + w = at + q + 1
      BY <2>8, <3>2
    <3> QED
      BY <3>1, <3>3
  <2> QED
    BY <2>3, <2>8, <2>10, <2>11, <2>12, <2>13
<1>6. was(0) = [at |-> from + 7, entries |-> <<>>]
  <2>1. First(es, 0) = <<>>
    BY FirstGrows
  <2>2. L(0) = 0
    <3>1. Upto(s, 0) = <<>>
      BY <1>2, UptoGrows
    <3>2. Len(<<>>) = 0
      OBVIOUS
    <3> QED
      BY <3>1, <3>2
  <2> QED
    BY <2>1, <2>2 DEF Progress
<1>7. was(n) = [at |-> Len(body) + 1, entries |-> es]
  <2>1. First(es, n) = es
    BY FirstGrows
  <2>2. PICK t \in Nat : t = L(n) /\ t = Len(u)
    BY <1>1, <1>3
  <2>3. from + 7 + L(n) = Len(body) + 1
    BY <2>2 DEF Follows
  <2> QED
    BY <2>1, <2>3 DEF Progress
<1> HIDE DEF was, L
<1> DEFINE g == [k \in 0..n |-> {was(k)}]
<1>8. Reads(body, from, n, g)
  <2>1. ASSUME NEW k \in 0..n
        PROVE  {was(k)} = IF k = 0 THEN {[at |-> from + 7, entries |-> <<>>]}
                          ELSE UNION {ReadRecord(body, r) : r \in g[k - 1]}
    <3>1. CASE k = 0
      BY <1>6, <3>1
    <3>2. CASE k # 0
      <4>1. k - 1 \in 0..n /\ k - 1 < n /\ (k - 1) + 1 = k
        BY <3>2
      <4>2. g[k - 1] = {was(k - 1)}
        BY <4>1
      <4>3. ReadRecord(body, was(k - 1)) = {was(k)}
        BY <1>5, <4>1
      <4> HIDE DEF g
      <4> QED
        BY <3>2, <4>2, <4>3
    <3> QED
      BY <3>1, <3>2
  <2>2. g = [k \in 0..n |-> IF k = 0 THEN {[at |-> from + 7, entries |-> <<>>]}
                            ELSE UNION {ReadRecord(body, r) : r \in g[k - 1]}]
    BY <2>1
  <2> QED
    BY <2>2 DEF Reads
<1>9. ASSUME NEW h, Reads(body, from, n, h) PROVE h = g
  <2>1. h = [k \in 0..n |-> IF k = 0 THEN {[at |-> from + 7, entries |-> <<>>]}
                            ELSE UNION {ReadRecord(body, r) : r \in h[k - 1]}]
    BY <1>9 DEF Reads
  <2> DEFINE T == {k \in Nat : k <= n => h[k] = {was(k)}}
  <2>2. 0 \in T
    <3>1. 0 \in 0..n
      OBVIOUS
    <3>2. h[0] = {[at |-> from + 7, entries |-> <<>>]}
      BY <2>1, <3>1
    <3> QED
      BY <1>6, <3>2
  <2>3. ASSUME NEW k \in T PROVE k + 1 \in T
    <3>1. ASSUME k + 1 <= n PROVE h[k + 1] = {was(k + 1)}
      <4>1. k + 1 \in 0..n /\ k + 1 # 0 /\ (k + 1) - 1 = k /\ k \in 0..n /\ k < n
        BY <3>1
      <4>2. h[k] = {was(k)}
        BY <4>1, k \in T
      <4>3. h[k + 1] = UNION {ReadRecord(body, r) : r \in h[k]}
        BY <2>1, <4>1
      <4>4. ReadRecord(body, was(k)) = {was(k + 1)}
        BY <1>5, <4>1
      <4> QED
        BY <4>2, <4>3, <4>4
    <3> QED
      BY <3>1
  <2>4. T \in SUBSET Nat
    OBVIOUS
  <2> HIDE DEF T
  <2>5. T = Nat
    BY ONLY <2>2, <2>3, <2>4, SetInduction
  <2>6. \A k \in 0..n : h[k] = {was(k)}
    BY <2>5 DEF T
  <2>7. h = [k \in 0..n |-> h[k]]
    BY <2>1
  <2> QED
    BY <2>6, <2>7
<1>10. g[n] = {was(n)}
  BY n \in 0..n
<1> QED
  BY <1>7, <1>8, <1>9, <1>10 DEF LoopReads

\* The records in the octets a of a request.
MadeOf(a, r, rec, u) ==
  LET n == Len(r.entries) IN
  /\ rec \in [1..n -> Seq(Nat)] /\ \A k \in 1..n : IsRecord(rec[k], r.entries[k])
  /\ u \in Seq(Nat) /\ u = Upto(Pieces(rec, n), n)
  /\ IsAppend(a, r.numbers, n, u)
  /\ put_append(r) = {a}

\* What put_append writes is made of the records of the entries.
LEMMA AppendMade ==
  ASSUME NEW r \in AppendRequests, NEW a \in put_append(r)
  PROVE  \E rec, u : MadeOf(a, r, rec, u)
<1>1. PICK n \in Nat : n = Len(r.entries) /\ DOMAIN r.entries = 1..n
                       /\ \A k \in 1..n : r.entries[k] \in LogEntries
  BY LenProperties, ElementOfSeq DEF AppendRequests
<1>2. \A k \in 1..n : encode_log_entry(r.entries[k]) # {}
  <2> DEFINE records == [k \in DOMAIN r.entries |-> encode_log_entry(r.entries[k])]
  <2>1. ~\E k \in DOMAIN records : records[k] = {}
    <3>1. CASE \E k \in DOMAIN records : records[k] = {}
      BY <3>1 DEF put_append
    <3> QED
      BY <3>1
  <2> QED
    BY <1>1, <2>1
<1> DEFINE rec == [k \in 1..n |-> CHOOSE b : IsRecord(b, r.entries[k])]
<1>3. ASSUME NEW k \in 1..n PROVE IsRecord(rec[k], r.entries[k])
  <2>1. PICK e : e = r.entries[k] /\ e \in LogEntries /\ encode_log_entry(e) # {}
    BY <1>1, <1>2
  <2>2. \E b : IsRecord(b, e)
    BY <2>1, HasRecord
  <2> QED
    BY <2>1, <2>2
<1>4. rec = [k \in 1..n |-> rec[k]]
  OBVIOUS
<1> HIDE DEF rec
<1>5. rec \in [1..n -> Seq(Nat)]
  BY <1>3, <1>4 DEF IsRecord
<1>6. RecordsOf(rec, r)
  BY <1>1, <1>3, <1>5 DEF RecordsOf, IsRecord
<1>7. PICK u : u = Upto(Pieces(rec, n), n)
  OBVIOUS
<1>8. u \in Seq(Nat)
  <2>1. n \in 0..n /\ Pieces(rec, n) \in [1..n -> Seq(Nat)]
    BY <1>5, PieceType
  <2> QED
    BY <1>7, <2>1, UptoGrows
<1>9. put_append(r) = {r.numbers \o <<n>> \o u}
  BY <1>1, <1>6, <1>7, AppendBytes
<1>10. IsAppend(a, r.numbers, n, u) /\ put_append(r) = {a}
  BY <1>9 DEF IsAppend
<1> QED
  BY <1>1, <1>3, <1>5, <1>7, <1>8, <1>10 DEF MadeOf

\* a fills the body behind its first cells.
EndsWith(body, base, a) ==
  Len(body) = base + Len(a) /\ \A k \in 1..Len(a) : body[base + k] = a[k]

\* A request is read as it was written (put_append, read_append).
LEMMA AppendRead ==
  ASSUME NEW body \in Seq(Nat), NEW base \in Nat, NEW r \in AppendRequests,
         NEW a \in put_append(r), EndsWith(body, base, a)
  PROVE  read_append(body, base + 1) = {r}
<1>1. PICK rec, u : MadeOf(a, r, rec, u)
  BY AppendMade
<1>2. PICK m, es : m = r.numbers /\ es = r.entries
  OBVIOUS
<1>3. m \in [1..6 -> Nat] /\ es \in Seq(LogEntries) /\ r = [numbers |-> m, entries |-> es]
  BY <1>2 DEF AppendRequests
<1>4. PICK n \in Nat : n = Len(es)
  BY <1>3, LenProperties
<1>5. /\ rec \in [1..n -> Seq(Nat)] /\ \A k \in 1..n : IsRecord(rec[k], es[k])
      /\ u \in Seq(Nat) /\ u = Upto(Pieces(rec, n), n) /\ IsAppend(a, m, n, u)
  BY <1>1, <1>2, <1>4 DEF MadeOf
<1>6. /\ a \in Seq(Nat) /\ Len(a) = 7 + Len(u)
      /\ \A k \in 1..6 : a[k] = m[k]
      /\ a[7] = n
      /\ \A k \in 1..Len(u) : a[7 + k] = u[k]
  <2>1. AppendLies(a, m, n, u)
    BY ONLY <1>3, <1>5, n \in Nat, AppendParts
  <2> QED
    BY <2>1 DEF AppendLies
<1>7. PICK t \in Nat : t = Len(u)
  BY <1>5, LenProperties
<1>8. Len(body) = base + (7 + t) /\ \A k \in 1..(7 + t) : body[base + k] = a[k]
  BY <1>6, <1>7 DEF EndsWith
<1>9. PICK from \in Nat : from = base + 1
  OBVIOUS
<1>10. body[from + 6] = n
  <2>1. 7 \in 1..(7 + t) /\ base + 7 = from + 6
    BY <1>9
  <2> QED
    BY <1>6, <1>8, <2>1
<1>11. Len(body) = from + 6 + t /\ \A k \in 1..t : body[from + 6 + k] = u[k]
  <2>1. ASSUME NEW k \in 1..t PROVE body[from + 6 + k] = u[k]
    <3>1. 7 + k \in 1..(7 + t) /\ base + (7 + k) = from + 6 + k
      BY <1>9
    <3> QED
      BY <1>6, <1>7, <1>8, <3>1
  <2> QED
    BY <1>8, <1>9, <2>1
<1>12. n <= t
  <2>1. PICK s : s = Pieces(rec, n)
    OBVIOUS
  <2>2. s \in [1..n -> Seq(Nat)] /\ \A k \in 1..n : Len(s[k]) >= 1
    <3>1. /\ s \in [1..n -> Seq(Nat)]
          /\ \A k \in 1..n : Len(rec[k]) \in Nat /\ Len(s[k]) = Len(rec[k]) + 1
      BY <1>5, <2>1, PieceType
    <3>2. ASSUME NEW k \in 1..n PROVE Len(s[k]) >= 1
      <4>1. PICK q \in Nat : q = Len(rec[k])
        BY <3>1
      <4> QED
        BY <3>1, <4>1
    <3> QED
      BY <3>1, <3>2
  <2>3. n <= Len(Upto(s, n))
    BY ONLY <2>2, n \in Nat, UptoIsLong
  <2> QED
    BY <1>5, <1>7, <2>1, <2>3
<1>13. PICK g : /\ Reads(body, from, n, g)
                /\ \A h : Reads(body, from, n, h) => h = g
                /\ g[n] = {[at |-> Len(body) + 1, entries |-> es]}
  <2>1. Follows(body, from, u)
    BY <1>7, <1>11 DEF Follows
  <2>2. LoopReads(body, from, n, es)
    BY ONLY <1>3, <1>4, <1>5, <2>1, n \in Nat, body \in Seq(Nat), from \in Nat, EntriesRead
  <2> QED
    BY <2>2 DEF LoopReads
<1>14. SubSeq(body, from, from + 5) = m
  <2>1. m \in Seq(Nat) /\ Len(m) = 6
    BY <1>3, FunctionIsSeq, 6 \in Nat
  <2>2. base + 6 <= Len(body) /\ \A k \in 1..6 : body[base + k] = m[k]
    <3>1. ASSUME NEW k \in 1..6 PROVE body[base + k] = m[k]
      <4>1. k \in 1..(7 + t)
        OBVIOUS
      <4> QED
        BY <1>6, <1>8, <4>1
    <3> QED
      BY <1>8, <3>1
  <2>3. base + Len(m) <= Len(body) /\ \A k \in 1..Len(m) : body[base + k] = m[k]
    BY <2>1, <2>2
  <2>4. SubSeq(body, base + 1, base + Len(m)) = m
    BY ONLY <2>1, <2>3, body \in Seq(Nat), base \in Nat, PartIs
  <2>5. base + Len(m) = from + 5
    BY <1>9, <2>1
  <2> QED
    BY <1>9, <2>4, <2>5
<1>15. ~(from + 6 > Len(body) \/ body[from + 6] > Len(body) - (from + 6))
  BY <1>10, <1>11, <1>12
<1>16. read_append(body, from) =
         {[numbers |-> SubSeq(body, from, from + 5), entries |-> x.entries] :
            x \in {y \in (CHOOSE h : Reads(body, from, body[from + 6], h))[body[from + 6]] :
                     y.at = Len(body) + 1}}
  BY <1>15 DEF read_append, Reads
<1>17. (CHOOSE h : Reads(body, from, n, h)) = g
  BY <1>13
<1>18. read_append(body, from) =
         {[numbers |-> m, entries |-> x.entries] : x \in {y \in g[n] : y.at = Len(body) + 1}}
  BY <1>10, <1>14, <1>16, <1>17
<1>19. PICK z : z = [at |-> Len(body) + 1, entries |-> es]
  OBVIOUS
<1>20. {y \in g[n] : y.at = Len(body) + 1} = {z} /\ z.entries = es
  BY <1>13, <1>19
<1>21. read_append(body, from) = {[numbers |-> m, entries |-> es]}
  BY <1>18, <1>20
<1> QED
  BY <1>3, <1>9, <1>21

\* The octets of the request in a message, none for a vote.
LEMMA RestExists ==
  ASSUME NEW e, RaftEnvelope(e), encode_raft_envelope(e) # {}
  PROVE  \E r \in Seq(Nat) :
           /\ IF e.append = {} THEN r = <<>> ELSE UNION {put_append(x) : x \in e.append} = {r}
           /\ e.kind \in {RequestVote, RequestVoteReply} => e.append = {} /\ r = <<>>
           /\ e.kind \notin {RequestVote, RequestVoteReply} =>
                \E x \in AppendRequests : e.append = {x} /\ r \in put_append(x)
<1>1. CASE e.kind \in {RequestVote, RequestVoteReply}
  <2>1. e.append = {}
    BY <1>1 DEF RaftEnvelope
  <2>2. <<>> \in Seq(Nat)
    BY EmptySeq
  <2> QED
    BY <1>1, <2>1, <2>2
<1>2. CASE e.kind \notin {RequestVote, RequestVoteReply}
  <2>1. PICK x \in AppendRequests : e.append = {x}
    BY <1>2 DEF RaftEnvelope
  <2>2. PICK a : a \in put_append(x)
    <3>1. UNION {put_append(y) : y \in e.append} # {}
      BY <2>1 DEF encode_raft_envelope
    <3> QED
      BY <2>1, <3>1
  <2>3. PICK rec, u : MadeOf(a, x, rec, u)
    BY <2>2, AppendMade
  <2>4. put_append(x) = {a}
    BY <2>3 DEF MadeOf
  <2>5. a \in Seq(Nat)
    <3>1. PICK m, n : m = x.numbers /\ n = Len(x.entries)
      OBVIOUS
    <3>2. m \in [1..6 -> Nat] /\ n \in Nat
      BY <3>1, LenProperties DEF AppendRequests
    <3>3. u \in Seq(Nat) /\ IsAppend(a, m, n, u)
      BY <2>3, <3>1 DEF MadeOf
    <3>4. AppendLies(a, m, n, u)
      BY ONLY <3>2, <3>3, AppendParts
    <3> QED
      BY <3>4 DEF AppendLies
  <2>6. UNION {put_append(y) : y \in e.append} = {a}
    BY <2>1, <2>4
  <2> QED
    BY <1>2, <2>1, <2>2, <2>5, <2>6
<1> QED
  BY <1>1, <1>2

\* A message is read as it was written (encode_raft_envelope, decode_raft_envelope).
LEMMA EnvelopeRead ==
  ASSUME NEW e, RaftEnvelope(e), NEW f \in encode_raft_envelope(e)
  PROVE  /\ f \in Seq(Nat) /\ Len(f) \in 4..max_raft_frame_size /\ f[2] = e.kind
         /\ decode_raft_envelope(f) = {e}
<1>1. PICK r \in Seq(Nat) :
        /\ IF e.append = {} THEN r = <<>> ELSE UNION {put_append(x) : x \in e.append} = {r}
        /\ e.kind \in {RequestVote, RequestVoteReply} => e.append = {} /\ r = <<>>
        /\ e.kind \notin {RequestVote, RequestVoteReply} =>
             \E x \in AppendRequests : e.append = {x} /\ r \in put_append(x)
  BY RestExists
<1>2. PICK b : b = BodyOf(e, r)
  OBVIOUS
<1>3. f = Sealed(b) /\ e.sender_id # 0 /\ Len(b) <= max_raft_frame_size - 1
  BY <1>1, <1>2, EnvelopeBytes DEF checksumSize
<1>4. PICK kind \in 1..4, l \in Nat, q \in Nat, m \in {e.numbers} :
        kind = e.kind /\ l = Leading[kind] /\ q = Len(r) /\ m = e.numbers
  <2>1. e.kind \in 1..4 /\ Len(r) \in Nat
    BY LenProperties DEF RaftEnvelope
  <2>2. Leading[e.kind] \in Nat
    BY <2>1 DEF Leading
  <2> QED
    BY <2>1, <2>2
<1>5. /\ b \in Seq(Nat) /\ Len(b) = 3 + l + q
      /\ b[1] = 3 /\ b[2] = kind /\ b[3] = e.sender_id
      /\ \A k \in 1..l : b[3 + k] = m[k]
      /\ \A k \in 1..q : b[3 + l + k] = r[k]
  <2>1. BodyLies(b, e, r)
    BY <1>2, BodyParts
  <2> QED
    BY <1>4, <2>1 DEF BodyLies, raft_version
<1>6. /\ f \in Seq(Nat) /\ Len(f) = 3 + l + q + 1
      /\ \A k \in 1..(3 + l + q) : f[k] = b[k]
      /\ Body(f) = b /\ valid_checksum(f)
  <2>1. /\ f \in Seq(Nat) /\ Len(f) = Len(b) + 1
        /\ \A k \in 1..Len(b) : f[k] = b[k]
        /\ Body(f) = b /\ valid_checksum(f)
    BY ONLY <1>3, <1>5, SealedBytes
  <2> QED
    BY <1>5, <2>1
<1>7. f[1] = 3 /\ f[2] = kind /\ f[3] = e.sender_id
  <2>1. 1 \in 1..(3 + l + q) /\ 2 \in 1..(3 + l + q) /\ 3 \in 1..(3 + l + q)
    OBVIOUS
  <2> QED
    BY <1>5, <1>6, <2>1
<1>8. Len(f) \in 4..max_raft_frame_size
  <2>1. PICK max \in Nat : max = max_raft_frame_size
    BY SizeAssumption
  <2>2. 3 + l + q <= max - 1
    BY <1>3, <1>5, <2>1
  <2>3. 3 + l + q + 1 \in 4..max
    BY <2>2
  <2> QED
    BY <1>6, <2>1, <2>3
<1>9. m \in Seq(Nat) /\ Len(m) = l
  BY <1>4, FunctionIsSeq DEF RaftEnvelope
<1>10. SubSeq(f, 4, 3 + l) = m
  <2>1. ASSUME NEW k \in 1..l PROVE f[3 + k] = m[k]
    <3>1. 3 + k \in 1..(3 + l + q)
      OBVIOUS
    <3> QED
      BY <1>5, <1>6, <3>1
  <2>2. 3 + Len(m) <= Len(f) /\ \A k \in 1..Len(m) : f[3 + k] = m[k]
    <3>1. 3 + l <= 3 + l + q + 1
      OBVIOUS
    <3> QED
      BY <1>6, <1>9, <2>1, <3>1
  <2>3. SubSeq(f, 3 + 1, 3 + Len(m)) = m
    BY ONLY <1>6, <1>9, <2>2, 3 \in Nat, PartIs
  <2> QED
    BY <1>9, <2>3
<1>11. ~(l = 2 /\ f[5] > 1)
  <2>1. ASSUME l = 2 PROVE f[5] \in {0, 1}
    <3>1. kind \in {RequestVoteReply, AppendEntriesReply}
      BY <1>4, <2>1 DEF Leading, RequestVoteReply, AppendEntriesReply
    <3>2. m[2] \in {0, 1}
      BY <1>4, <3>1 DEF RaftEnvelope
    <3>3. 5 \in 1..(3 + l + q) /\ 2 \in 1..l /\ 3 + 2 = 5
      BY <2>1
    <3>4. f[5] = m[2]
      BY ZenonT(60), <1>5, <1>6, <3>3
    <3> QED
      BY <3>2, <3>4
  <2> QED
    BY <2>1
<1>12. ~(\/ ~Genuine(f, raft_version, 4..max_raft_frame_size)
         \/ f[2] \notin 1..4
         \/ f[3] = 0
         \/ Len(f) - 1 < 3 + Leading[f[2]]
         \/ Leading[f[2]] = 2 /\ f[5] > 1)
  <2>1. Genuine(f, raft_version, 4..max_raft_frame_size)
    BY <1>6, <1>7, <1>8 DEF Genuine, raft_version
  <2>2. ~(Len(f) - 1 < 3 + l)
    BY <1>6
  <2> QED
    BY <1>3, <1>4, <1>7, <1>11, <2>1, <2>2
<1>13. (IF kind \in {RequestVote, RequestVoteReply}
          THEN IF Len(f) = 4 + l THEN {{}} ELSE {}
          ELSE {{x} : x \in read_append(Body(f), 4 + l)}) = {e.append}
  <2>1. CASE kind \in {RequestVote, RequestVoteReply}
    <3>1. e.append = {} /\ q = 0
      <4>1. e.append = {} /\ r = <<>>
        BY <1>1, <1>4, <2>1
      <4> QED
        BY <1>4, <4>1
    <3>2. Len(f) = 4 + l
      BY <1>6, <3>1
    <3> QED
      BY <2>1, <3>1, <3>2
  <2>2. CASE kind \notin {RequestVote, RequestVoteReply}
    <3>1. PICK x \in AppendRequests : e.append = {x} /\ r \in put_append(x)
      BY <1>1, <1>4, <2>2
    <3>2. PICK base \in Nat : base = 3 + l
      OBVIOUS
    <3>3. EndsWith(b, base, r)
      BY <1>4, <1>5, <3>2 DEF EndsWith
    <3>4. read_append(b, base + 1) = {x}
      BY ONLY <1>5, <3>1, <3>3, x \in AppendRequests, base \in Nat, AppendRead
    <3>5. base + 1 = 4 + l
      BY <3>2
    <3>6. read_append(Body(f), 4 + l) = {x}
      BY <1>6, <3>4, <3>5
    <3> QED
      BY <2>2, <3>1, <3>6
  <2> QED
    BY <2>1, <2>2
<1>14. PICK appends :
         appends = IF kind \in {RequestVote, RequestVoteReply}
                     THEN IF Len(f) = 4 + l THEN {{}} ELSE {}
                     ELSE {{x} : x \in read_append(Body(f), 4 + l)}
  OBVIOUS
<1>15. decode_raft_envelope(f) =
         {[kind |-> kind, sender_id |-> f[3], numbers |-> SubSeq(f, 4, (4 + l) - 1), append |-> x] :
            x \in appends}
  BY <1>4, <1>7, <1>12, <1>14 DEF decode_raft_envelope
<1>16. appends = {e.append}
  BY <1>13, <1>14
<1>17. (4 + l) - 1 = 3 + l
  OBVIOUS
<1>18. decode_raft_envelope(f) =
         {[kind |-> kind, sender_id |-> e.sender_id, numbers |-> m, append |-> e.append]}
  BY <1>7, <1>10, <1>15, <1>16, <1>17
<1>19. e = [kind |-> kind, sender_id |-> e.sender_id, numbers |-> m, append |-> e.append]
  BY <1>4 DEF RaftEnvelope
<1> QED
  BY <1>4, <1>6, <1>7, <1>8, <1>18, <1>19

\* What a peer sends is taken for what it sent, unless the peer is blocked or unknown
\* (receive_one).
LEMMA EnvelopeTaken ==
  ASSUME NEW e \in Envelopes, NEW f \in encode_raft_envelope(e)
  PROVE  /\ receive_frame(Stream(f), max_raft_frame_size) = {f}
         /\ Taken(f) = IF e.sender_id \in Heard THEN {[operation |-> "Raft", body |-> e]} ELSE {}
<1>1. RaftEnvelope(e)
  BY SentAssumption
<1>2. /\ f \in Seq(Nat) /\ Len(f) \in 4..max_raft_frame_size /\ f[2] = e.kind
      /\ decode_raft_envelope(f) = {e}
  BY <1>1, EnvelopeRead
<1>3. receive_frame(Stream(f), max_raft_frame_size) = {f}
  BY <1>2, ArrivesWhole, SizeAssumption
<1>4. e.kind \in 1..4
  BY <1>1 DEF RaftEnvelope
<1>5. Taken(f) = {[operation |-> "Raft", body |-> x] :
                    x \in {y \in decode_raft_envelope(f) : y.sender_id \in Heard}}
  <2>1. Len(f) >= 2
    BY <1>2, SizeAssumption
  <2>2. f[2] # 5 /\ f[2] # 7 /\ f[2] # 9
    BY <1>2, <1>4
  <2> QED
    BY <2>1, <2>2 DEF Taken, request_kind, read_request_kind, status_request_kind
<1> QED
  BY <1>2, <1>3, <1>5

-----------------------------------------------------------------------------
(* Whole frames.                                                           *)

\* What a step puts into the record of the last connection.
LEMMA CallMade ==
  ASSUME NEW request \in Requests, client_calls(request), last'.intact
  PROVE  /\ last'.operation = request.operation
         /\ last'.sent = {request} /\ last'.taken = {request}
         /\ WholeUnderstood'
<1>0. PICK frame \in Encoded(request) : \E stream \in Arrivals(frame) :
        LET frames == receive_frame(stream, max_raft_frame_size)
            answers == {{}} \cup {{a} : a \in UNION {Answers(f) : f \in frames}}
        IN \E answer \in answers :
             LET octets == UNION {a.bytes : a \in answer} IN
             \E back \in IF octets = {} THEN {<<>>}
                         ELSE IF stream # Stream(frame) THEN {Stream(b) : b \in octets}
                         ELSE UNION {Arrivals(b) : b \in octets} :
               last' = Connection(request.operation, {request}, stream = Stream(frame),
                                  UNION {Taken(f) : f \in frames},
                                  {a.reply : a \in answer},
                                  \E b \in octets : back = Stream(b),
                                  {exchange(request.operation, back)})
  BY DEF client_calls
<1>1. PICK stream \in Arrivals(frame) :
        LET frames == receive_frame(stream, max_raft_frame_size)
            answers == {{}} \cup {{a} : a \in UNION {Answers(f) : f \in frames}}
        IN \E answer \in answers :
             LET octets == UNION {a.bytes : a \in answer} IN
             \E back \in IF octets = {} THEN {<<>>}
                         ELSE IF stream # Stream(frame) THEN {Stream(b) : b \in octets}
                         ELSE UNION {Arrivals(b) : b \in octets} :
               last' = Connection(request.operation, {request}, stream = Stream(frame),
                                  UNION {Taken(f) : f \in frames},
                                  {a.reply : a \in answer},
                                  \E b \in octets : back = Stream(b),
                                  {exchange(request.operation, back)})
  BY <1>0
<1>2. PICK frames : frames = receive_frame(stream, max_raft_frame_size)
  OBVIOUS
<1>3. PICK answer \in {{}} \cup {{a} : a \in UNION {Answers(f) : f \in frames}} :
        LET octets == UNION {a.bytes : a \in answer} IN
        \E back \in IF octets = {} THEN {<<>>}
                    ELSE IF stream # Stream(frame) THEN {Stream(b) : b \in octets}
                    ELSE UNION {Arrivals(b) : b \in octets} :
          last' = Connection(request.operation, {request}, stream = Stream(frame),
                             UNION {Taken(f) : f \in frames},
                             {a.reply : a \in answer},
                             \E b \in octets : back = Stream(b),
                             {exchange(request.operation, back)})
  BY <1>1, <1>2
<1>30. PICK back :
         last' = Connection(request.operation, {request}, stream = Stream(frame),
                            UNION {Taken(f) : f \in frames},
                            {a.reply : a \in answer},
                            \E b \in UNION {a.bytes : a \in answer} : back = Stream(b),
                            {exchange(request.operation, back)})
  BY <1>3
<1>4. /\ last'.operation = request.operation /\ last'.sent = {request}
      /\ last'.intact = (stream = Stream(frame))
      /\ last'.taken = UNION {Taken(f) : f \in frames}
      /\ last'.answer = {a.reply : a \in answer}
      /\ last'.returned = (\E b \in UNION {a.bytes : a \in answer} : back = Stream(b))
      /\ last'.result = {exchange(request.operation, back)}
  BY <1>30 DEF Connection
<1>5. stream = Stream(frame)
  BY <1>4
<1>6. request.operation \in {"Write", "Read", "Status"} /\ IsAsked(frame, request)
  BY RequestTaken
<1>7. frames = {frame}
  <2>1. /\ frame \in Seq(Nat) /\ max_raft_frame_size \in Nat /\ Len(frame) # 0
        /\ Len(frame) <= max_raft_frame_size /\ Len(frame) >= 2
    BY <1>6, SizeAssumption DEF IsAsked
  <2> QED
    BY <1>2, <1>5, <2>1, ArrivesWhole
<1>8. last'.taken = {request}
  BY <1>4, <1>6, <1>7 DEF IsAsked
<1>9. \A a \in answer : a \in Answers(frame)
  BY <1>3, <1>7
<1>10. ASSUME NEW a \in answer
       PROVE  \E b : IsReply(b, request.operation, a.reply) /\ a.bytes = {b}
  <2>1. Len(frame) >= 2 /\ frame[2] = KindOf(request.operation)
    BY <1>6, SizeAssumption DEF IsAsked
  <2>2. /\ a.reply \in RepliesTo(request.operation, Taken(frame) # {})
        /\ a.bytes = Reply(request.operation, a.reply)
    BY <1>6, <1>9, <2>1, AnswersFit
  <2>3. PICK b : IsReply(b, request.operation, a.reply)
    BY <1>6, <2>2, AnswersHaveFrames
  <2> QED
    BY <2>2, <2>3 DEF IsReply
<1>11. ASSUME NEW x \in last'.answer
       PROVE  \E b \in Reply(request.operation, x) : Len(b) <= max_client_frame_size
  <2>1. PICK a \in answer : x = a.reply
    BY <1>4
  <2>2. PICK b : IsReply(b, request.operation, x)
    BY <1>10, <2>1
  <2> QED
    BY <2>2 DEF IsReply
<1>12. ASSUME last'.returned, NEW z \in last'.result PROVE z.reply = last'.answer
  <2>0. PICK b \in UNION {a.bytes : a \in answer} : back = Stream(b)
    BY <1>4, <1>12
  <2>1. PICK a \in answer : b \in a.bytes
    BY <2>0
  <2>2. answer = {a}
    BY <1>3, <2>1
  <2>3. PICK operation, r : operation = request.operation /\ r = a.reply
    OBVIOUS
  <2>4. operation \in {"Write", "Read", "Status"} /\ IsReply(b, operation, r)
    BY <1>6, <1>10, <2>1, <2>3
  <2>5. exchange(request.operation, back) = [error |-> "None", reply |-> {a.reply}]
    <3>1. exchange(operation, Stream(b)) = [error |-> "None", reply |-> {r}]
      BY <2>4, ReadWhole
    <3> QED
      BY <2>0, <2>3, <3>1
  <2>6. last'.answer = {a.reply}
    BY <1>4, <2>2
  <2> QED
    BY <1>4, <2>5, <2>6
<1>13. WholeUnderstood'
  BY <1>4, <1>11, <1>12 DEF WholeUnderstood
<1> QED
  BY <1>4, <1>8, <1>13

\* A node takes what arrives whole for what was sent: every request a client can
\* encode, whatever its size, also while peers are blocked, and every message of a
\* peer, of any number of entries, or nothing if the peer is blocked (receive_one, the
\* encoders and decoders).
THEOREM WholeIsTaken == Spec => []WholeTaken
<1>1. Init => WholeTaken
  BY DEF Init, WholeTaken, Connection
<1>2. WholeTaken /\ [Next]_ivars => WholeTaken'
  <2> SUFFICES ASSUME WholeTaken, [Next]_ivars PROVE WholeTaken'
    OBVIOUS
  <2>1. ASSUME NEW request \in Requests, client_calls(request) PROVE WholeTaken'
    BY <2>1, CallMade DEF WholeTaken
  <2>2. ASSUME NEW request \in Requests, client_fails(request) PROVE WholeTaken'
    BY <2>2 DEF client_fails, WholeTaken, Connection
  <2>3. ASSUME NEW envelope \in Envelopes, peer_sends(envelope) PROVE WholeTaken'
    <3>0. PICK f \in encode_raft_envelope(envelope) : \E stream \in Arrivals(f) :
            last' = Connection("Raft", {[operation |-> "Raft", body |-> envelope]},
                               stream = Stream(f),
                               UNION {Taken(x) : x \in receive_frame(stream, max_raft_frame_size)},
                               {}, TRUE, {})
      BY <2>3 DEF peer_sends
    <3>1. PICK stream \in Arrivals(f) :
            last' = Connection("Raft", {[operation |-> "Raft", body |-> envelope]},
                               stream = Stream(f),
                               UNION {Taken(x) : x \in receive_frame(stream, max_raft_frame_size)},
                               {}, TRUE, {})
      BY <3>0
    <3>2. /\ last'.operation = "Raft" /\ last'.intact = (stream = Stream(f))
          /\ last'.sent = {[operation |-> "Raft", body |-> envelope]}
          /\ last'.taken = UNION {Taken(x) : x \in receive_frame(stream, max_raft_frame_size)}
      BY <3>1 DEF Connection
    <3>3. CASE stream = Stream(f)
      <4>1. last'.taken = Taken(f)
        BY <3>2, <3>3, EnvelopeTaken
      <4>2. last'.taken # {} => last'.taken = last'.sent
        BY <3>2, <4>1, EnvelopeTaken
      <4> QED
        BY <3>2, <4>2 DEF WholeTaken
    <3>4. CASE stream # Stream(f)
      BY <3>2, <3>4 DEF WholeTaken
    <3> QED
      BY <3>3, <3>4
  <2>4. ASSUME NEW peer \in PeerIds, NEW e, process_sends(peer, e) PROVE WholeTaken'
    BY <2>4 DEF process_sends, WholeTaken, Connection
  <2>5. CASE close
    BY <2>5 DEF close, WholeTaken, Connection
  <2>6. ASSUME NEW count, NEW hung_up, NEW fails, read_console(count, hung_up, fails)
        PROVE  WholeTaken'
    BY <2>6 DEF read_console, WholeTaken
  <2>7. CASE UNCHANGED ivars
    BY <2>7 DEF ivars, WholeTaken
  <2> QED
    BY <2>1, <2>2, <2>3, <2>4, <2>5, <2>6, <2>7 DEF Next
<1> QED
  BY <1>1, <1>2, PTL DEF Spec

\* Every answer a node builds fits a frame, whatever value was found, and a client that
\* gets it whole reads from it what the node put in (the encoders and decoders of
\* replies, exchange).
THEOREM WholeIsUnderstood == Spec => []WholeUnderstood
<1>1. Init => WholeUnderstood
  BY DEF Init, WholeUnderstood, Connection
<1>2. WholeUnderstood /\ [Next]_ivars => WholeUnderstood'
  <2> SUFFICES ASSUME WholeUnderstood, [Next]_ivars PROVE WholeUnderstood'
    OBVIOUS
  <2>1. ASSUME NEW request \in Requests, client_calls(request) PROVE WholeUnderstood'
    <3>1. CASE last'.intact
      BY <2>1, <3>1, CallMade
    <3>2. CASE ~last'.intact
      BY <3>2 DEF WholeUnderstood
    <3> QED
      BY <3>1, <3>2
  <2>2. ASSUME NEW request \in Requests, client_fails(request) PROVE WholeUnderstood'
    BY <2>2 DEF client_fails, WholeUnderstood, Connection
  <2>3. ASSUME NEW envelope \in Envelopes, peer_sends(envelope) PROVE WholeUnderstood'
    <3>1. last'.operation = "Raft"
      BY <2>3 DEF peer_sends, Connection
    <3> QED
      BY <3>1 DEF WholeUnderstood
  <2>4. ASSUME NEW peer \in PeerIds, NEW e, process_sends(peer, e) PROVE WholeUnderstood'
    BY <2>4 DEF process_sends, WholeUnderstood, Connection
  <2>5. CASE close
    BY <2>5 DEF close, WholeUnderstood, Connection
  <2>6. ASSUME NEW count, NEW hung_up, NEW fails, read_console(count, hung_up, fails)
        PROVE  WholeUnderstood'
    BY <2>6 DEF read_console, WholeUnderstood
  <2>7. CASE UNCHANGED ivars
    BY <2>7 DEF ivars, WholeUnderstood
  <2> QED
    BY <2>1, <2>2, <2>3, <2>4, <2>5, <2>6, <2>7 DEF Next
<1> QED
  BY <1>1, <1>2, PTL DEF Spec

-----------------------------------------------------------------------------
(* The lines in a text.                                                    *)

\* A part of a sequence.
LEMMA PartType ==
  ASSUME NEW S, NEW s \in Seq(S), NEW a \in Nat \ {0}, NEW b \in Nat, a <= b + 1, b <= Len(s)
  PROVE  /\ SubSeq(s, a, b) \in Seq(S) /\ Len(SubSeq(s, a, b)) = (b + 1) - a
         /\ \A i \in 1..((b + 1) - a) : SubSeq(s, a, b)[i] = s[(a - 1) + i]
<1>1. a \in Int /\ b \in Int
  OBVIOUS
<1>2. \A k \in a..b : s[k] \in S
  <2> TAKE k \in a..b
  <2>1. PICK n \in Nat : n = Len(s)
    BY LenProperties
  <2>2. k \in 1..n
    BY <2>1
  <2> QED
    BY <2>1, <2>2, ElementOfSeq
<1>3. PICK u : u = SubSeq(s, a, b)
  OBVIOUS
<1>4. /\ u \in Seq(S) /\ Len(u) = IF a <= b THEN b - a + 1 ELSE 0
      /\ \A i \in 1..(b - a + 1) : u[i] = s[a + i - 1]
  BY ONLY <1>1, <1>2, <1>3, SubSeqProperties
<1>5. b - a + 1 = (b + 1) - a /\ (~(a <= b) => (b + 1) - a = 0)
  OBVIOUS
<1>6. ASSUME NEW i \in 1..((b + 1) - a) PROVE u[i] = s[(a - 1) + i]
  <2>1. i \in 1..(b - a + 1) /\ a + i - 1 = (a - 1) + i
    OBVIOUS
  <2> QED
    BY <1>4, <2>1
<1> QED
  BY <1>3, <1>4, <1>5, <1>6

\* The newlines among the first m words, and 0.
Breaks(text, m) == {0} \cup {j \in 1..m : text[j] = NewLine}

\* Where the line of the k-th word begins.
Begin(text, k) == 1 + Max(Breaks(text, k - 1))

\* A line begins behind the newline before it.
LEMMA LineBegins ==
  ASSUME NEW text, NEW k \in Nat \ {0}
  PROVE  /\ Begin(text, 1) = 1
         /\ Begin(text, k) \in 1..k
         /\ Begin(text, k + 1) = IF text[k] = NewLine THEN k + 1 ELSE Begin(text, k)
<1> DEFINE S(m) == Breaks(text, m)
           IsMax(x, m) == x \in S(m) /\ \A y \in S(m) : x >= y
           T == {m \in Nat : \E x : IsMax(x, m)}
<1>1. \A m \in Nat : S(m) \subseteq 0..m /\ 0 \in S(m)
  BY DEF Breaks
<1>2. \A m \in Nat : S(m + 1) = IF text[m + 1] = NewLine THEN S(m) \cup {m + 1} ELSE S(m)
  <2> TAKE m \in Nat
  <2>1. 1..(m + 1) = (1..m) \cup {m + 1}
    OBVIOUS
  <2> QED
    BY <2>1 DEF Breaks
<1> HIDE DEF S
<1>3. ASSUME NEW m \in Nat, text[m + 1] = NewLine PROVE IsMax(m + 1, m + 1)
  <2>1. S(m + 1) = S(m) \cup {m + 1} /\ S(m) \subseteq 0..m
    BY <1>1, <1>2, <1>3
  <2> QED
    BY <2>1
<1>4. ASSUME NEW m \in Nat, text[m + 1] # NewLine, NEW x, IsMax(x, m) PROVE IsMax(x, m + 1)
  BY <1>2, <1>4
<1>5. IsMax(0, 0)
  <2>1. S(0) = {0}
    BY DEF S, Breaks
  <2> QED
    BY <2>1
<1>6. \A m \in Nat : \A x, y : IsMax(x, m) /\ IsMax(y, m) => x = y
  <2> SUFFICES ASSUME NEW m \in Nat, NEW x, NEW y, IsMax(x, m), IsMax(y, m) PROVE x = y
    OBVIOUS
  <2>1. x \in 0..m /\ y \in 0..m /\ x >= y /\ y >= x
    BY <1>1
  <2> QED
    BY <2>1
<1> HIDE DEF IsMax
<1>7. 0 \in T
  BY <1>5
<1>8. ASSUME NEW m \in T PROVE m + 1 \in T
  BY <1>3, <1>4
<1>9. T \in SUBSET Nat
  OBVIOUS
<1>10. T = Nat
  <2> HIDE DEF T
  <2> QED
    BY ONLY <1>7, <1>8, <1>9, SetInduction
<1>11. \A m \in Nat : \E x : IsMax(x, m)
  BY <1>10
<1> HIDE DEF T
<1>12. ASSUME NEW m \in Nat PROVE IsMax(Max(S(m)), m)
  <2>1. \E x \in S(m) : \A y \in S(m) : x >= y
    BY <1>11 DEF IsMax
  <2>2. PICK z : z = (CHOOSE x \in S(m) : \A y \in S(m) : x >= y)
    OBVIOUS
  <2>3. z \in S(m) /\ \A y \in S(m) : z >= y
    BY <2>1, <2>2
  <2>4. Max(S(m)) = z
    BY <2>2 DEF Max
  <2> QED
    BY <2>3, <2>4 DEF IsMax
<1>13. \A m \in Nat : Begin(text, m + 1) = 1 + Max(S(m))
  <2> TAKE m \in Nat
  <2>1. (m + 1) - 1 = m
    OBVIOUS
  <2> QED
    BY <2>1 DEF Begin, S
<1>14. Begin(text, 1) = 1
  <2>1. Max(S(0)) = 0
    BY <1>5, <1>6, <1>12
  <2>2. Begin(text, 0 + 1) = 1 + Max(S(0))
    BY <1>13
  <2> QED
    BY <2>1, <2>2
<1>15. PICK m \in Nat : k = m + 1
  <2>1. k - 1 \in Nat /\ k = (k - 1) + 1
    OBVIOUS
  <2> QED
    BY <2>1
<1>16. PICK x : x = Max(S(m)) /\ IsMax(x, m) /\ x \in 0..m
  BY <1>1, <1>12 DEF IsMax
<1>17. Begin(text, k) = 1 + x
  BY <1>13, <1>15, <1>16
<1>18. Begin(text, k) \in 1..k
  BY <1>15, <1>16, <1>17
<1>19. Begin(text, k + 1) = 1 + Max(S(k))
  BY <1>13
<1>20. Max(S(k)) = IF text[k] = NewLine THEN k ELSE x
  <2>1. IsMax(Max(S(k)), k)
    BY <1>12
  <2>2. CASE text[k] = NewLine
    <3>1. IsMax(k, k)
      BY <1>3, <1>15, <2>2
    <3> QED
      BY <1>6, <2>1, <2>2, <3>1
  <2>3. CASE text[k] # NewLine
    <3>1. IsMax(x, k)
      BY <1>4, <1>15, <1>16, <2>3
    <3> QED
      BY <1>6, <2>1, <2>3, <3>1
  <2> QED
    BY <2>2, <2>3
<1>21. 1 + k = k + 1
  OBVIOUS
<1> QED
  BY <1>14, <1>17, <1>18, <1>19, <1>20, <1>21

\* What a newline does to the lines collected so far.
Turn(text, k, v) ==
  IF text[k] = NewLine /\ k - Begin(text, k) <= MaxLine
    THEN Append(v, SubSeq(text, Begin(text, k), k - 1)) ELSE v

\* The function of LinesRead.
Collects(text, n, g) == g = [k \in 0..n |-> IF k = 0 THEN <<>> ELSE Turn(text, k, g[k - 1])]

\* It is a function.
LEMMA CollectsExist ==
  ASSUME NEW text, NEW n \in Nat
  PROVE  \E g : Collects(text, n, g)
<1> DEFINE T == {m \in Nat : \E g : Collects(text, m, g)}
<1>1. 0 \in T
  <2>1. Collects(text, 0, [k \in 0..0 |-> <<>>])
    BY DEF Collects
  <2> QED
    BY <2>1
<1>2. ASSUME NEW m \in T PROVE m + 1 \in T
  <2>1. PICK g : Collects(text, m, g)
    OBVIOUS
  <2>2. g = [k \in 0..m |-> IF k = 0 THEN <<>> ELSE Turn(text, k, g[k - 1])]
    BY <2>1 DEF Collects
  <2> DEFINE h == [k \in 0..(m + 1) |-> IF k = m + 1 THEN Turn(text, m + 1, g[m]) ELSE g[k]]
  <2>3. ASSUME NEW k \in 0..(m + 1)
        PROVE  h[k] = IF k = 0 THEN <<>> ELSE Turn(text, k, h[k - 1])
    <3>1. CASE k = m + 1
      <4>1. h[m] = g[m] /\ h[k] = Turn(text, k, g[m]) /\ k - 1 = m /\ k # 0
        BY <3>1
      <4> QED
        BY <4>1
    <3>2. CASE k \in 0..m
      <4>1. h[k] = g[k] /\ (k # 0 => h[k - 1] = g[k - 1])
        BY <3>2
      <4>2. g[k] = IF k = 0 THEN <<>> ELSE Turn(text, k, g[k - 1])
        BY <2>2, <3>2
      <4> QED
        BY <4>1, <4>2
    <3> QED
      BY <3>1, <3>2
  <2>4. h = [k \in 0..(m + 1) |-> h[k]]
    OBVIOUS
  <2> HIDE DEF h
  <2>5. h = [k \in 0..(m + 1) |-> IF k = 0 THEN <<>> ELSE Turn(text, k, h[k - 1])]
    BY <2>3, <2>4
  <2>6. Collects(text, m + 1, h)
    BY <2>5 DEF Collects
  <2> QED
    BY <2>6
<1>3. T \in SUBSET Nat
  OBVIOUS
<1> HIDE DEF T
<1>4. T = Nat
  BY ONLY <1>1, <1>2, <1>3, SetInduction
<1> QED
  BY <1>4 DEF T

\* One turn of it.
LEMMA CollectsTurn ==
  ASSUME NEW text, NEW n \in Nat, NEW g, Collects(text, n, g)
  PROVE  g[0] = <<>> /\ \A k \in 1..n : g[k] = Turn(text, k, g[k - 1])
<1>1. g = [k \in 0..n |-> IF k = 0 THEN <<>> ELSE Turn(text, k, g[k - 1])]
  BY DEF Collects
<1> QED
  BY <1>1

\* The lines LinesRead is about.
LEMMA LinesCollected ==
  ASSUME NEW n, n = Len(ReadSoFar)
  PROVE  LinesRead = (CHOOSE g : Collects(ReadSoFar, n, g))[n]
BY DEF LinesRead, Collects, Turn, Begin, Breaks

\* What is collected are lines of words.
LEMMA CollectedType ==
  ASSUME NEW text \in Seq(STRING), NEW n \in Nat, n <= Len(text), NEW g, Collects(text, n, g)
  PROVE  \A k \in 0..n : g[k] \in Seq(Seq(STRING))
<1>1. g[0] = <<>> /\ \A k \in 1..n : g[k] = Turn(text, k, g[k - 1])
  BY CollectsTurn
<1>2. ASSUME NEW k \in 1..n, NEW v \in Seq(Seq(STRING))
      PROVE  Turn(text, k, v) \in Seq(Seq(STRING))
  <2>1. PICK N \in Nat : N = Len(text)
    BY LenProperties
  <2>2. PICK b \in 1..k : b = Begin(text, k)
    BY SMTT(30), LineBegins
  <2>3. PICK j \in Nat : j = k - 1
    OBVIOUS
  <2>4. b \in Nat \ {0} /\ b <= j + 1 /\ j <= N
    BY <2>1, <2>2, <2>3
  <2>5. SubSeq(text, b, j) \in Seq(STRING)
    BY ONLY <2>1, <2>4, text \in Seq(STRING), j \in Nat, PartType
  <2>6. PICK u \in Seq(STRING) : u = SubSeq(text, Begin(text, k), k - 1)
    BY <2>2, <2>3, <2>5
  <2>7. Append(v, u) \in Seq(Seq(STRING))
    BY AppendProperties
  <2> QED
    BY <2>6, <2>7 DEF Turn
<1> DEFINE T == {k \in Nat : k <= n => g[k] \in Seq(Seq(STRING))}
<1>3. 0 \in T
  <2>1. <<>> \in Seq(Seq(STRING))
    OBVIOUS
  <2> QED
    BY <1>1, <2>1
<1>4. ASSUME NEW m \in T PROVE m + 1 \in T
  <2>1. ASSUME m + 1 <= n PROVE g[m + 1] \in Seq(Seq(STRING))
    <3>1. m + 1 \in 1..n /\ g[m] \in Seq(Seq(STRING)) /\ (m + 1) - 1 = m
      BY <2>1
    <3>2. g[m + 1] = Turn(text, m + 1, g[m])
      BY <1>1, <3>1
    <3> QED
      BY <1>2, <3>1, <3>2
  <2> QED
    BY <2>1
<1>5. T \in SUBSET Nat
  OBVIOUS
<1>6. T = Nat
  <2> HIDE DEF T
  <2> QED
    BY ONLY <1>3, <1>4, <1>5, SetInduction
<1> QED
  BY <1>6

\* What the beginning of a text holds is the same for the whole text.
LEMMA BeginningsAgree ==
  ASSUME NEW s \in Seq(STRING), NEW r \in Nat, r <= Len(s), NEW t, t = SubSeq(s, 1, r),
         NEW g, Collects(s, Len(s), g), NEW h, Collects(t, r, h)
  PROVE  h[r] = g[r]
<1>1. PICK N \in Nat : N = Len(s)
  BY LenProperties
<1>2. t \in Seq(STRING) /\ Len(t) = r /\ \A i \in 1..r : t[i] = s[i]
  <2>1. 1 \in Nat \ {0} /\ 1 <= r + 1 /\ (r + 1) - 1 = r /\ \A i \in 1..r : (1 - 1) + i = i
    OBVIOUS
  <2>2. /\ SubSeq(s, 1, r) \in Seq(STRING) /\ Len(SubSeq(s, 1, r)) = (r + 1) - 1
        /\ \A i \in 1..((r + 1) - 1) : SubSeq(s, 1, r)[i] = s[(1 - 1) + i]
    BY ONLY <2>1, s \in Seq(STRING), r \in Nat, r <= Len(s), PartType
  <2> QED
    BY <2>1, <2>2
<1>3. ASSUME NEW k \in 1..r, NEW v PROVE Turn(t, k, v) = Turn(s, k, v)
  <2>1. Breaks(t, k - 1) = Breaks(s, k - 1)
    BY <1>2 DEF Breaks
  <2>2. Begin(t, k) = Begin(s, k)
    BY <2>1 DEF Begin
  <2>3. PICK b \in 1..k : b = Begin(s, k)
    BY SMTT(30), LineBegins
  <2>4. PICK j \in Nat : j = k - 1
    OBVIOUS
  <2>5. b \in Nat \ {0} /\ b <= j + 1 /\ j <= r /\ j <= N
    BY <1>1, <2>3, <2>4
  <2>6. PICK u : u = SubSeq(t, b, j)
    OBVIOUS
  <2>7. PICK w : w = SubSeq(s, b, j)
    OBVIOUS
  <2>8. /\ u \in Seq(STRING) /\ Len(u) = (j + 1) - b
        /\ \A i \in 1..((j + 1) - b) : u[i] = t[(b - 1) + i]
    BY ONLY <1>2, <2>5, <2>6, j \in Nat, r \in Nat, PartType
  <2>9. /\ w \in Seq(STRING) /\ Len(w) = (j + 1) - b
        /\ \A i \in 1..((j + 1) - b) : w[i] = s[(b - 1) + i]
    BY ONLY <1>1, <2>5, <2>7, j \in Nat, s \in Seq(STRING), PartType
  <2>10. ASSUME NEW i \in 1..Len(u) PROVE u[i] = w[i]
    <3>1. i \in 1..((j + 1) - b) /\ (b - 1) + i \in 1..r
      BY <2>5, <2>8
    <3> QED
      BY <1>2, <2>8, <2>9, <3>1
  <2>11. u = w
    BY <2>8, <2>9, <2>10, SeqEqual
  <2> QED
    BY <1>2, <2>2, <2>3, <2>4, <2>6, <2>7, <2>11 DEF Turn
<1>4. g[0] = <<>> /\ \A k \in 1..N : g[k] = Turn(s, k, g[k - 1])
  BY ZenonT(60), <1>1, CollectsTurn
<1>5. h[0] = <<>> /\ \A k \in 1..r : h[k] = Turn(t, k, h[k - 1])
  BY CollectsTurn
<1> DEFINE T == {k \in Nat : k <= r => h[k] = g[k]}
<1>6. 0 \in T
  BY <1>4, <1>5
<1>7. ASSUME NEW m \in T PROVE m + 1 \in T
  <2>1. ASSUME m + 1 <= r PROVE h[m + 1] = g[m + 1]
    <3>1. m + 1 \in 1..r /\ m + 1 \in 1..N /\ h[m] = g[m] /\ (m + 1) - 1 = m
      BY <1>1, <2>1
    <3>2. h[m + 1] = Turn(t, m + 1, h[m]) /\ g[m + 1] = Turn(s, m + 1, g[m])
      BY <1>4, <1>5, <3>1
    <3> QED
      BY <1>3, <3>1, <3>2
  <2> QED
    BY <2>1
<1>8. T \in SUBSET Nat
  OBVIOUS
<1>9. T = Nat
  <2> HIDE DEF T
  <2> QED
    BY ONLY <1>6, <1>7, <1>8, SetInduction
<1> QED
  BY <1>9

-----------------------------------------------------------------------------
(* What handling a line does.                                              *)

\* The lines that end the loop.
Ends(ls, fails) == {n \in DOMAIN ls : EndsLoop(n, ls[n], fails)}

\* The lines handled of those that were collected.
Kept(ls, fails) == IF Ends(ls, fails) = {} THEN ls ELSE SubSeq(ls, 1, Min(Ends(ls, fails)))

\* One more line ends the loop.
Ended(ls, line, fails) == EndsLoop(Len(ls) + 1, line, fails)

\* A sequence that was made longer by one.
LEMMA LongerBy ==
  ASSUME NEW S, NEW ls \in Seq(S), NEW x \in S, NEW n \in Nat, n = Len(ls), NEW v, v = Append(ls, x)
  PROVE  /\ v \in Seq(S) /\ Len(v) = n + 1 /\ v[n + 1] = x
         /\ \A k \in 1..n : v[k] = ls[k]
         /\ DOMAIN ls = 1..n /\ DOMAIN v = 1..(n + 1)
BY AppendProperties, LenProperties

\* The first of them is one of them.
LEMMA FirstEnd ==
  ASSUME NEW fails, NEW S, NEW ls \in Seq(S), Ends(ls, fails) # {}
  PROVE  /\ Min(Ends(ls, fails)) \in Ends(ls, fails)
         /\ \A k \in Ends(ls, fails) : Min(Ends(ls, fails)) <= k
<1>1. PICK n \in Nat : n = Len(ls)
  BY LenProperties
<1>2. DOMAIN ls = 1..n
  BY <1>1, LenProperties
<1>3. Ends(ls, fails) \in SUBSET Nat
  BY <1>2 DEF Ends
<1>4. \E x \in Ends(ls, fails) : \A y \in Ends(ls, fails) : x <= y
  BY <1>3, LeastNumber
<1>5. PICK z : z = (CHOOSE x \in Ends(ls, fails) : \A y \in Ends(ls, fails) : x <= y)
  OBVIOUS
<1>6. z \in Ends(ls, fails) /\ \A y \in Ends(ls, fails) : z <= y
  BY <1>4, <1>5
<1>7. Min(Ends(ls, fails)) = z
  BY <1>5 DEF Min
<1> QED
  BY <1>6, <1>7

\* One more line adds to them if it is one.
LEMMA EndsGrow ==
  ASSUME NEW fails, NEW ls \in Seq(Seq(STRING)), NEW line \in Seq(STRING),
         NEW n \in Nat, n = Len(ls)
  PROVE  Ends(Append(ls, line), fails) =
           Ends(ls, fails) \cup (IF EndsLoop(n + 1, line, fails) THEN {n + 1} ELSE {})
<1>1. PICK v : v = Append(ls, line)
  OBVIOUS
<1>2. /\ v \in Seq(Seq(STRING)) /\ Len(v) = n + 1 /\ v[n + 1] = line
      /\ \A k \in 1..n : v[k] = ls[k]
      /\ DOMAIN ls = 1..n /\ DOMAIN v = 1..(n + 1)
  BY <1>1, LongerBy
<1>3. ASSUME NEW k
      PROVE  k \in Ends(v, fails) <=>
               k \in Ends(ls, fails) \/ (k = n + 1 /\ EndsLoop(n + 1, line, fails))
  <2>1. k \in 1..(n + 1) <=> k \in 1..n \/ k = n + 1
    OBVIOUS
  <2>2. n + 1 \notin 1..n
    OBVIOUS
  <2> QED
    BY <1>2, <2>1, <2>2 DEF Ends
<1> QED
  BY <1>1, <1>3

\* After the line that ends the loop nothing is kept.
LEMMA KeptStays ==
  ASSUME NEW fails, NEW ls \in Seq(Seq(STRING)), NEW line \in Seq(STRING), Ends(ls, fails) # {}
  PROVE  Ends(Append(ls, line), fails) # {} /\ Kept(Append(ls, line), fails) = Kept(ls, fails)
<1>1. PICK n \in Nat : n = Len(ls)
  BY LenProperties
<1>2. PICK v : v = Append(ls, line)
  OBVIOUS
<1>3. /\ v \in Seq(Seq(STRING)) /\ Len(v) = n + 1 /\ \A k \in 1..n : v[k] = ls[k]
      /\ DOMAIN ls = 1..n
  BY <1>1, <1>2, LongerBy
<1>4. Ends(v, fails) = Ends(ls, fails) \cup (IF EndsLoop(n + 1, line, fails) THEN {n + 1} ELSE {})
  BY <1>1, <1>2, EndsGrow
<1>5. PICK m : /\ m = Min(Ends(ls, fails)) /\ m \in Ends(ls, fails)
                /\ \A k \in Ends(ls, fails) : m <= k
  BY FirstEnd
<1>6. PICK q : q = Min(Ends(v, fails)) /\ q \in Ends(v, fails) /\ \A k \in Ends(v, fails) : q <= k
  BY <1>3, <1>4, FirstEnd
<1>7. Ends(ls, fails) \subseteq 1..n
  BY <1>3 DEF Ends
<1>8. m = q
  <2>1. m \in Ends(v, fails) /\ m \in 1..n
    BY <1>4, <1>5, <1>7
  <2>2. q <= m
    BY <1>6, <2>1
  <2>3. q \in Ends(ls, fails) \/ q = n + 1
    BY <1>4, <1>6
  <2>4. q \in Ends(ls, fails)
    BY <2>1, <2>2, <2>3
  <2>5. m <= q /\ q \in 1..n
    BY <1>5, <1>7, <2>4
  <2> QED
    BY <2>1, <2>2, <2>5
<1>9. m \in Nat /\ m <= n /\ 1 \in Nat \ {0} /\ 1 <= m + 1 /\ m <= Len(ls) /\ m <= Len(v)
  BY <1>1, <1>3, <1>5, <1>7
<1>10. PICK a : a = SubSeq(ls, 1, m)
  OBVIOUS
<1>11. PICK b : b = SubSeq(v, 1, m)
  OBVIOUS
<1>12. /\ a \in Seq(Seq(STRING)) /\ Len(a) = (m + 1) - 1
       /\ \A i \in 1..((m + 1) - 1) : a[i] = ls[(1 - 1) + i]
  BY ONLY <1>9, <1>10, ls \in Seq(Seq(STRING)), PartType
<1>13. /\ b \in Seq(Seq(STRING)) /\ Len(b) = (m + 1) - 1
       /\ \A i \in 1..((m + 1) - 1) : b[i] = v[(1 - 1) + i]
  BY ONLY <1>3, <1>9, <1>11, PartType
<1>14. ASSUME NEW i \in 1..Len(a) PROVE a[i] = b[i]
  <2>1. i \in 1..((m + 1) - 1) /\ (1 - 1) + i \in 1..n
    BY <1>9, <1>12, <1>1
  <2> QED
    BY <1>3, <1>12, <1>13, <2>1
<1>15. a = b
  BY <1>12, <1>13, <1>14, SeqEqual
<1>16. Kept(ls, fails) = a /\ Kept(v, fails) = b
  BY <1>4, <1>5, <1>6, <1>8, <1>10, <1>11 DEF Kept
<1> QED
  BY <1>2, <1>4, <1>15, <1>16

\* Before that every line is.
LEMMA KeptGrows ==
  ASSUME NEW fails, NEW ls \in Seq(Seq(STRING)), NEW line \in Seq(STRING), Ends(ls, fails) = {}
  PROVE  /\ Kept(ls, fails) = ls /\ Kept(Append(ls, line), fails) = Append(ls, line)
         /\ (Ends(Append(ls, line), fails) = {}) <=> ~Ended(ls, line, fails)
<1>1. PICK n \in Nat : n = Len(ls)
  BY LenProperties
<1>2. PICK v : v = Append(ls, line)
  OBVIOUS
<1>3. v \in Seq(Seq(STRING)) /\ Len(v) = n + 1
  BY <1>1, <1>2, LongerBy
<1>4. Ends(v, fails) = IF Ended(ls, line, fails) THEN {n + 1} ELSE {}
  <2>1. Ends(v, fails) =
          Ends(ls, fails) \cup (IF EndsLoop(n + 1, line, fails) THEN {n + 1} ELSE {})
    BY <1>1, <1>2, EndsGrow
  <2>2. Ended(ls, line, fails) = EndsLoop(n + 1, line, fails)
    BY <1>1 DEF Ended
  <2> QED
    BY <2>1, <2>2
<1>5. Kept(v, fails) = v
  <2>1. CASE Ended(ls, line, fails)
    <3>1. Ends(v, fails) # {} /\ Ends(v, fails) = {n + 1}
      BY <1>4, <2>1
    <3>2. Min(Ends(v, fails)) = n + 1
      <4>1. Min(Ends(v, fails)) \in Ends(v, fails)
        BY ONLY <1>3, <3>1, FirstEnd
      <4> QED
        BY <3>1, <4>1
    <3>3. 0 + Len(v) <= Len(v) /\ \A k \in 1..Len(v) : v[0 + k] = v[k]
      BY <1>3
    <3>4. SubSeq(v, 0 + 1, 0 + Len(v)) = v
      BY ONLY <1>3, <3>3, 0 \in Nat, PartIs
    <3>5. SubSeq(v, 1, n + 1) = v
      BY <1>3, <3>4
    <3> QED
      BY <3>1, <3>2, <3>5 DEF Kept
  <2>2. CASE ~Ended(ls, line, fails)
    BY <1>4, <2>2 DEF Kept
  <2> QED
    BY <2>1, <2>2
<1> QED
  BY <1>2, <1>4, <1>5 DEF Kept

\* The peers that lines block.
BlockedIn(ls) ==
  {p \in PeerIds :
     \E k \in DOMAIN ls :
       /\ ls[k] = <<"block", <<"1", "2", "3">>[p]>>
       /\ \A j \in (k + 1)..Len(ls) : ls[j] # <<"unblock", <<"1", "2", "3">>[p]>>}

\* The peers a line names.
Named(line) == IF Len(line) = 2 THEN PeerNamed(line[2]) ELSE {}

\* A sequence of two.
LEMMA PairOfTwo ==
  ASSUME NEW S, NEW l \in Seq(S), Len(l) = 2
  PROVE  l = <<l[1], l[2]>>
OBVIOUS

\* What one more line does to them.
LEMMA BlockedTurn ==
  ASSUME NEW ls \in Seq(Seq(STRING)), NEW line \in Seq(STRING)
  PROVE  BlockedIn(Append(ls, line)) =
           CASE Operation(line) = "block" -> BlockedIn(ls) \cup Named(line)
             [] Operation(line) = "unblock" -> BlockedIn(ls) \ Named(line)
             [] OTHER -> BlockedIn(ls)
<1>1. PICK n \in Nat : n = Len(ls)
  BY LenProperties
<1>2. PICK v : v = Append(ls, line)
  OBVIOUS
<1>3. /\ v \in Seq(Seq(STRING)) /\ Len(v) = n + 1 /\ v[n + 1] = line
      /\ \A k \in 1..n : v[k] = ls[k]
      /\ DOMAIN ls = 1..n /\ DOMAIN v = 1..(n + 1)
  BY <1>1, <1>2, LongerBy
<1>4. ASSUME NEW op, op # "", NEW word
      PROVE  line = <<op, word>> <=> Operation(line) = op /\ Len(line) = 2 /\ line[2] = word
  <2>1. ASSUME line = <<op, word>> PROVE Operation(line) = op /\ Len(line) = 2 /\ line[2] = word
    BY <2>1 DEF Operation
  <2>2. ASSUME Operation(line) = op, Len(line) = 2, line[2] = word PROVE line = <<op, word>>
    <3>1. line # <<>> /\ line[1] = op
      BY <1>4, <2>2 DEF Operation
    <3>2. line = <<line[1], line[2]>>
      BY ONLY <2>2, line \in Seq(STRING), PairOfTwo
    <3> QED
      BY <2>2, <3>1, <3>2
  <2> QED
    BY <2>1, <2>2
<1>5. ASSUME NEW p \in PeerIds
      PROVE  p \in BlockedIn(v) <=>
               \/ Operation(line) = "block" /\ p \in Named(line)
               \/ p \in BlockedIn(ls) /\ ~(Operation(line) = "unblock" /\ p \in Named(line))
  <2>1. PICK word : word = <<"1", "2", "3">>[p]
    OBVIOUS
  <2> DEFINE B == <<"block", word>>
             U == <<"unblock", word>>
  <2>2. p \in Named(line) <=> Len(line) = 2 /\ line[2] = word
    BY <2>1 DEF Named, PeerNamed
  <2>3. line = B <=> Operation(line) = "block" /\ p \in Named(line)
    <3>1. "block" # ""
      OBVIOUS
    <3>2. line = <<"block", word>> <=>
            Operation(line) = "block" /\ Len(line) = 2 /\ line[2] = word
      BY ONLY <1>4, <3>1
    <3> QED
      BY <2>2, <3>2
  <2>4. line = U <=> Operation(line) = "unblock" /\ p \in Named(line)
    <3>1. "unblock" # ""
      OBVIOUS
    <3>2. line = <<"unblock", word>> <=>
            Operation(line) = "unblock" /\ Len(line) = 2 /\ line[2] = word
      BY ONLY <1>4, <3>1
    <3> QED
      BY <2>2, <3>2
  <2>5. p \in BlockedIn(v) <=>
          \E k \in 1..(n + 1) : v[k] = B /\ \A j \in (k + 1)..(n + 1) : v[j] # U
    BY <1>3, <2>1 DEF BlockedIn
  <2>6. p \in BlockedIn(ls) <=>
          \E k \in 1..n : ls[k] = B /\ \A j \in (k + 1)..n : ls[j] # U
    BY <1>1, <1>3, <2>1 DEF BlockedIn
  <2> HIDE DEF B, U
  <2>7. ASSUME line = B PROVE p \in BlockedIn(v)
    <3>1. n + 1 \in 1..(n + 1) /\ v[n + 1] = B /\ (n + 1 + 1)..(n + 1) = {}
      BY <1>3, <2>7
    <3> QED
      BY <2>5, <3>1
  <2>8. ASSUME p \in BlockedIn(ls), line # U PROVE p \in BlockedIn(v)
    <3>1. PICK k \in 1..n : ls[k] = B /\ \A j \in (k + 1)..n : ls[j] # U
      BY <2>6, <2>8
    <3>2. k \in 1..(n + 1) /\ v[k] = B
      BY <1>3, <3>1
    <3>3. ASSUME NEW j \in (k + 1)..(n + 1) PROVE v[j] # U
      <4>1. CASE j = n + 1
        BY <1>3, <2>8, <4>1
      <4>2. CASE j \in (k + 1)..n
        <5>1. j \in 1..n
          BY <4>2
        <5> QED
          BY <1>3, <3>1, <4>2, <5>1
      <4> QED
        BY <4>1, <4>2
    <3> QED
      BY <2>5, <3>2, <3>3
  <2>9. ASSUME p \in BlockedIn(v), line # B PROVE p \in BlockedIn(ls) /\ line # U
    <3>1. PICK k \in 1..(n + 1) : v[k] = B /\ \A j \in (k + 1)..(n + 1) : v[j] # U
      BY <2>5, <2>9
    <3>2. k # n + 1
      BY <1>3, <2>9, <3>1
    <3>3. k \in 1..n /\ n + 1 \in (k + 1)..(n + 1)
      BY <3>2
    <3>4. ls[k] = B
      BY <1>3, <3>1, <3>3
    <3>5. ASSUME NEW j \in (k + 1)..n PROVE ls[j] # U
      <4>1. j \in 1..n /\ j \in (k + 1)..(n + 1)
        BY <3>3
      <4> QED
        BY <1>3, <3>1, <4>1
    <3> QED
      BY <1>3, <2>6, <3>1, <3>3, <3>4, <3>5
  <2> QED
    BY <2>3, <2>4, <2>7, <2>8, <2>9
<1>6. BlockedIn(v) \subseteq PeerIds /\ BlockedIn(ls) \subseteq PeerIds /\ Named(line) \subseteq PeerIds
  BY DEF BlockedIn, Named, PeerNamed
<1>7. CASE Operation(line) = "block"
  <2>1. BlockedIn(v) = BlockedIn(ls) \cup Named(line)
    BY <1>5, <1>6, <1>7
  <2> QED
    BY <1>2, <1>7, <2>1
<1>8. CASE Operation(line) = "unblock"
  <2>1. BlockedIn(v) = BlockedIn(ls) \ Named(line)
    BY <1>5, <1>6, <1>8
  <2> QED
    BY <1>2, <1>8, <2>1
<1>9. CASE Operation(line) # "block" /\ Operation(line) # "unblock"
  <2>1. BlockedIn(v) = BlockedIn(ls)
    BY <1>5, <1>6, <1>9
  <2> QED
    BY <1>2, <1>9, <2>1
<1> QED
  BY <1>7, <1>8, <1>9

-----------------------------------------------------------------------------
(* What a turn of read_console does.                                       *)

\* What read_console works on.
Reader(l, d, r, b, p, ls) ==
  [line |-> l, discarding |-> d, running |-> r, blocked |-> b, proposals |-> p, lines |-> ls]

\* s is that.
Holds(s, l, d, r, b, p, ls) == s = Reader(l, d, r, b, p, ls)

\* One part of it is set.
LEMMA PartSet ==
  ASSUME NEW s, NEW l, NEW d, NEW r, NEW b, NEW p, NEW ls, Holds(s, l, d, r, b, p, ls),
         NEW u
  PROVE  /\ Holds([s EXCEPT !.line = u], u, d, r, b, p, ls)
         /\ Holds([s EXCEPT !.discarding = u], l, u, r, b, p, ls)
         /\ Holds([s EXCEPT !.running = u], l, d, u, b, p, ls)
         /\ Holds([s EXCEPT !.blocked = u], l, d, r, u, p, ls)
         /\ Holds([s EXCEPT !.proposals = u], l, d, r, b, u, ls)
         /\ Holds([s EXCEPT !.lines = u], l, d, r, b, p, u)
<1>1. [s EXCEPT !.line = u] = Reader(u, d, r, b, p, ls)
  BY DEF Reader, Holds
<1>2. [s EXCEPT !.discarding = u] = Reader(l, u, r, b, p, ls)
  BY DEF Reader, Holds
<1>3. [s EXCEPT !.running = u] = Reader(l, d, u, b, p, ls)
  BY DEF Reader, Holds
<1>4. [s EXCEPT !.blocked = u] = Reader(l, d, r, u, p, ls)
  BY DEF Reader, Holds
<1>5. [s EXCEPT !.proposals = u] = Reader(l, d, r, b, u, ls)
  BY DEF Reader, Holds
<1>6. [s EXCEPT !.lines = u] = Reader(l, d, r, b, p, u)
  BY DEF Reader, Holds
<1> QED
  BY <1>1, <1>2, <1>3, <1>4, <1>5, <1>6 DEF Holds

\* Several parts of it are set.
LEMMA PartsSet ==
  ASSUME NEW s, NEW l, NEW d, NEW r, NEW b, NEW p, NEW ls, Holds(s, l, d, r, b, p, ls),
         NEW u, NEW v, NEW w, NEW x
  PROVE  /\ Holds([s EXCEPT !.line = u, !.discarding = v], u, v, r, b, p, ls)
         /\ Holds([s EXCEPT !.lines = u, !.running = v, !.blocked = w, !.proposals = x],
                  l, d, v, w, x, u)
<1>1. PICK a : a = [s EXCEPT !.line = u]
  OBVIOUS
<1>2. Holds(a, u, d, r, b, p, ls)
  BY <1>1, PartSet
<1>3. [s EXCEPT !.line = u, !.discarding = v] = [a EXCEPT !.discarding = v]
  BY <1>1
<1>4. Holds([a EXCEPT !.discarding = v], u, v, r, b, p, ls)
  BY ONLY <1>2, PartSet
<1>5. PICK c : c = [s EXCEPT !.lines = u]
  OBVIOUS
<1>6. Holds(c, l, d, r, b, p, u)
  BY <1>5, PartSet
<1>7. PICK e : e = [c EXCEPT !.running = v]
  OBVIOUS
<1>8. Holds(e, l, d, v, b, p, u)
  <2>1. Holds([c EXCEPT !.running = v], l, d, v, b, p, u)
    BY ONLY <1>6, PartSet
  <2> QED
    BY <1>7, <2>1
<1>9. PICK f : f = [e EXCEPT !.blocked = w]
  OBVIOUS
<1>10. Holds(f, l, d, v, w, p, u)
  <2>1. Holds([e EXCEPT !.blocked = w], l, d, v, w, p, u)
    BY ONLY <1>8, PartSet
  <2> QED
    BY <1>9, <2>1
<1>11. [s EXCEPT !.lines = u, !.running = v, !.blocked = w, !.proposals = x] =
         [f EXCEPT !.proposals = x]
  BY <1>5, <1>7, <1>9
<1>12. Holds([f EXCEPT !.proposals = x], l, d, v, w, x, u)
  BY ONLY <1>10, PartSet
<1> QED
  BY <1>3, <1>4, <1>11, <1>12

\* Once the loop has ended, nothing changes.
LEMMA WordIgnored ==
  ASSUME NEW fails, NEW s, ~s.running, NEW word
  PROVE  ReadWord(s, word, fails) = s
BY DEF ReadWord

\* The rest of a line that is too long is skipped, up to the newline.
LEMMA WordSkipped ==
  ASSUME NEW fails, NEW l, NEW r, r = TRUE, NEW b, NEW p, NEW ls, NEW word,
         NEW s, Holds(s, l, r, r, b, p, ls), NEW d, d = (word # NewLine)
  PROVE  Holds(ReadWord(s, word, fails), l, d, r, b, p, ls)
<1>1. s.running /\ s.discarding
  BY DEF Holds, Reader
<1>2. ReadWord(s, word, fails) = [s EXCEPT !.discarding = d]
  BY <1>1 DEF ReadWord
<1>3. Holds([s EXCEPT !.discarding = d], l, d, r, b, p, ls)
  BY ONLY Holds(s, l, r, r, b, p, ls), PartSet
<1> QED
  BY <1>2, <1>3

\* A word is added to its line, or begins the rest of one that is too long.
AddsWord(l, b, p, ls, word, fails) ==
  ReadWord(Reader(l, FALSE, TRUE, b, p, ls), word, fails) =
    IF Len(l) < MaxLine THEN Reader(Append(l, word), FALSE, TRUE, b, p, ls)
                        ELSE Reader(<<>>, TRUE, TRUE, b, p, ls)

\* So it is with every word.
LEMMA WordAdded ==
  ASSUME NEW fails, NEW l, NEW b, NEW p, NEW ls, NEW word, word # NewLine
  PROVE  AddsWord(l, b, p, ls, word, fails)
<1>1. PICK s : s = Reader(l, FALSE, TRUE, b, p, ls)
  OBVIOUS
<1>2. s.running /\ ~s.discarding /\ s.line = l
  BY <1>1 DEF Reader
<1>3. CASE Len(l) < MaxLine
  <2>1. ReadWord(s, word, fails) = [s EXCEPT !.line = Append(@, word)]
    BY <1>2, <1>3 DEF ReadWord
  <2>2. [s EXCEPT !.line = Append(@, word)] = Reader(Append(l, word), FALSE, TRUE, b, p, ls)
    <3>1. PICK u : u = Append(l, word)
      OBVIOUS
    <3>2. PICK d : d = FALSE
      OBVIOUS
    <3>3. PICK r : r = TRUE
      OBVIOUS
    <3>4. Holds(s, l, d, r, b, p, ls)
      BY <1>1, <3>2, <3>3 DEF Holds
    <3>5. Holds([s EXCEPT !.line = u], u, d, r, b, p, ls)
      BY ONLY <3>4, PartSet
    <3> QED
      BY <1>2, <3>1, <3>2, <3>3, <3>5 DEF Holds
  <2> QED
    BY <1>1, <1>3, <2>1, <2>2 DEF AddsWord
<1>4. CASE ~(Len(l) < MaxLine)
  <2>1. ReadWord(s, word, fails) = [s EXCEPT !.line = <<>>, !.discarding = TRUE]
    BY <1>2, <1>4 DEF ReadWord
  <2>2. [s EXCEPT !.line = <<>>, !.discarding = TRUE] = Reader(<<>>, TRUE, TRUE, b, p, ls)
    <3>1. PICK u : u = <<>>
      OBVIOUS
    <3>2. PICK d : d = FALSE
      OBVIOUS
    <3>3. PICK r : r = TRUE
      OBVIOUS
    <3>4. Holds(s, l, d, r, b, p, ls)
      BY <1>1, <3>2, <3>3 DEF Holds
    <3>5. Holds([s EXCEPT !.line = u, !.discarding = r], u, r, r, b, p, ls)
      BY ONLY <3>4, PartsSet
    <3> QED
      BY <3>1, <3>3, <3>5 DEF Holds
  <2> QED
    BY <1>1, <1>4, <2>1, <2>2 DEF AddsWord
<1> QED
  BY <1>3, <1>4 DEF AddsWord

\* A newline has its line handled.
HandlesLine(l, b, p, ls, fails) ==
  \E q : ReadWord(Reader(l, FALSE, TRUE, b, p, ls), NewLine, fails) =
           Reader(<<>>, FALSE, ~Ended(ls, l, fails),
                  CASE Operation(l) = "block" -> b \cup Named(l)
                    [] Operation(l) = "unblock" -> b \ Named(l)
                    [] OTHER -> b,
                  q, Append(ls, l))

\* So it is with every line.
LEMMA LineHandled ==
  ASSUME NEW fails, NEW l, NEW b, NEW p, NEW ls
  PROVE  HandlesLine(l, b, p, ls, fails)
<1>1. PICK s : s = Reader(l, FALSE, TRUE, b, p, ls)
  OBVIOUS
<1>2. s.running /\ ~s.discarding /\ s.line = l /\ s.blocked = b /\ s.lines = ls
  BY <1>1 DEF Reader
<1>3. ReadWord(s, NewLine, fails) = [handle_console_line(s, l, fails) EXCEPT !.line = <<>>]
  BY <1>2 DEF ReadWord
<1>4. PICK n : n = CASE Operation(l) = "block" -> b \cup Named(l)
                     [] Operation(l) = "unblock" -> b \ Named(l)
                     [] OTHER -> b
  OBVIOUS
<1> DEFINE Op(type, value) == [type |-> type, key |-> l[2], value |-> value]
           Proposed(q) ==
             CASE Proposes(l) /\ Operation(l) = "put" ->
                    Append(q, Op("Put", SubSeq(l, 3, Len(l))))
               [] Proposes(l) /\ Operation(l) = "delete" -> Append(q, Op("Delete", <<>>))
               [] OTHER -> q
           Blocked(q) ==
             CASE Operation(l) = "block" -> q \cup Named(l)
               [] Operation(l) = "unblock" -> q \ Named(l)
               [] OTHER -> q
<1>5. handle_console_line(s, l, fails) =
        [s EXCEPT !.lines = Append(s.lines, l), !.running = ~Ended(ls, l, fails),
                  !.blocked = Blocked(s.blocked), !.proposals = Proposed(s.proposals)]
  BY <1>2 DEF handle_console_line, Named, Ended
<1> HIDE DEF Proposed
<1>6. PICK q : handle_console_line(s, l, fails) = Reader(l, FALSE, ~Ended(ls, l, fails), n, q, Append(ls, l))
  <2>1. PICK q : q = Proposed(s.proposals)
    OBVIOUS
  <2>2. PICK r : r = (~Ended(ls, l, fails))
    OBVIOUS
  <2>3. Blocked(s.blocked) = n
    BY <1>2, <1>4
  <2> HIDE DEF Blocked
  <2>4. handle_console_line(s, l, fails) =
          [s EXCEPT !.lines = Append(ls, l), !.running = r, !.blocked = n, !.proposals = q]
    BY <1>2, <1>5, <2>1, <2>2, <2>3
  <2>5. handle_console_line(s, l, fails) = Reader(l, FALSE, r, n, q, Append(ls, l))
    <3>1. PICK u : u = Append(ls, l)
      OBVIOUS
    <3>2. PICK d : d = FALSE
      OBVIOUS
    <3>3. PICK t : t = TRUE
      OBVIOUS
    <3>4. Holds(s, l, d, t, b, p, ls)
      BY <1>1, <3>2, <3>3 DEF Holds
    <3>5. Holds([s EXCEPT !.lines = u, !.running = r, !.blocked = n, !.proposals = q],
                l, d, r, n, q, u)
      BY ONLY <3>4, PartsSet
    <3> QED
      BY <2>4, <3>1, <3>2, <3>5 DEF Holds
  <2> QED
    BY <2>2, <2>5
<1>7. [handle_console_line(s, l, fails) EXCEPT !.line = <<>>] =
        Reader(<<>>, FALSE, ~Ended(ls, l, fails), n, q, Append(ls, l))
  <2>1. PICK u : u = <<>>
    OBVIOUS
  <2>2. PICK h : h = handle_console_line(s, l, fails)
    OBVIOUS
  <2>3. PICK d : d = FALSE
    OBVIOUS
  <2>4. PICK r : r = (~Ended(ls, l, fails))
    OBVIOUS
  <2>5. PICK v : v = Append(ls, l)
    OBVIOUS
  <2>6. Holds(h, l, d, r, n, q, v)
    BY <1>6, <2>2, <2>3, <2>4, <2>5 DEF Holds
  <2>7. Holds([h EXCEPT !.line = u], u, d, r, n, q, v)
    BY ONLY <2>6, PartSet
  <2> QED
    BY <2>1, <2>2, <2>3, <2>4, <2>5, <2>7 DEF Holds
<1>8. ReadWord(s, NewLine, fails) = Reader(<<>>, FALSE, ~Ended(ls, l, fails), n, q, Append(ls, l))
  BY <1>3, <1>7
<1> QED
  BY <1>1, <1>4, <1>8 DEF HandlesLine

\* One more element behind a sequence.
LEMMA AppendedTo ==
  ASSUME NEW S, NEW l \in Seq(S), NEW w \in S
  PROVE  /\ Append(l, w) \in Seq(S) /\ Len(Append(l, w)) = Len(l) + 1
         /\ \A i \in 1..Len(l) : Append(l, w)[i] = l[i]
         /\ Append(l, w)[Len(l) + 1] = w
BY AppendProperties

\* What was read of a line, as long as it has room for it.
Held(text, m) == SubSeq(text, Begin(text, m + 1), m)

\* It is the words since the last newline.
LEMMA HeldType ==
  ASSUME NEW text \in Seq(STRING), NEW m \in Nat, m <= Len(text)
  PROVE  /\ Begin(text, m + 1) \in 1..(m + 1)
         /\ Held(text, m) \in Seq(STRING) /\ Len(Held(text, m)) = (m + 1) - Begin(text, m + 1)
         /\ \A i \in 1..((m + 1) - Begin(text, m + 1)) :
              Held(text, m)[i] = text[(Begin(text, m + 1) - 1) + i]
<1>0. PICK q : q = Begin(text, m + 1)
  OBVIOUS
<1> DEFINE l == Held(text, m)
<1>1. q \in 1..(m + 1)
  <2>1. m + 1 \in Nat \ {0}
    OBVIOUS
  <2> QED
    BY <1>0, <2>1, LineBegins
<1>2. q \in Nat \ {0} /\ q <= m + 1 /\ l = SubSeq(text, q, m)
  BY <1>0, <1>1 DEF Held
<1>3. /\ SubSeq(text, q, m) \in Seq(STRING) /\ Len(SubSeq(text, q, m)) = (m + 1) - q
      /\ \A i \in 1..((m + 1) - q) : SubSeq(text, q, m)[i] = text[(q - 1) + i]
  BY ONLY <1>2, text \in Seq(STRING), m \in Nat, m <= Len(text), PartType
<1> QED
  BY <1>0, <1>1, <1>2, <1>3

\* One more word ends it or makes it longer.
LEMMA HeldGrows ==
  ASSUME NEW text \in Seq(STRING), NEW m \in Nat, m + 1 <= Len(text)
  PROVE  /\ text[m + 1] = NewLine =>
              Begin(text, (m + 1) + 1) = (m + 1) + 1 /\ Held(text, m + 1) = <<>>
         /\ text[m + 1] # NewLine =>
              /\ Begin(text, (m + 1) + 1) = Begin(text, m + 1)
              /\ Held(text, m + 1) = Append(Held(text, m), text[m + 1])
<1>1. PICK N \in Nat : N = Len(text)
  BY LenProperties
<1>2. m + 1 \in Nat /\ m <= Len(text) /\ m + 1 \in Nat \ {0} /\ m + 1 \in 1..N
  BY <1>1
<1>3. PICK w \in STRING : w = text[m + 1]
  BY <1>1, <1>2, ElementOfSeq
<1>4. PICK q : q = Begin(text, m + 1)
  OBVIOUS
<1>5. PICK p : p = Begin(text, (m + 1) + 1)
  OBVIOUS
<1>6. p = IF w = NewLine THEN (m + 1) + 1 ELSE q
  BY <1>2, <1>3, <1>4, <1>5, LineBegins
<1>7. PICK l : l = Held(text, m)
  OBVIOUS
<1>8. PICK u : u = Held(text, m + 1)
  OBVIOUS
<1>9. /\ q \in 1..(m + 1) /\ l \in Seq(STRING) /\ Len(l) = (m + 1) - q
      /\ \A i \in 1..((m + 1) - q) : l[i] = text[(q - 1) + i]
  <2>1. /\ Begin(text, m + 1) \in 1..(m + 1)
        /\ Held(text, m) \in Seq(STRING) /\ Len(Held(text, m)) = (m + 1) - Begin(text, m + 1)
        /\ \A i \in 1..((m + 1) - Begin(text, m + 1)) :
             Held(text, m)[i] = text[(Begin(text, m + 1) - 1) + i]
    BY ONLY <1>2, text \in Seq(STRING), m \in Nat, HeldType
  <2> QED
    BY <1>4, <1>7, <2>1
<1>10. /\ p \in 1..((m + 1) + 1) /\ u \in Seq(STRING) /\ Len(u) = ((m + 1) + 1) - p
       /\ \A i \in 1..(((m + 1) + 1) - p) : u[i] = text[(p - 1) + i]
  <2>1. PICK k \in Nat : k = m + 1
    OBVIOUS
  <2>2. k <= Len(text)
    BY <2>1
  <2>3. /\ Begin(text, k + 1) \in 1..(k + 1)
        /\ Held(text, k) \in Seq(STRING) /\ Len(Held(text, k)) = (k + 1) - Begin(text, k + 1)
        /\ \A i \in 1..((k + 1) - Begin(text, k + 1)) :
             Held(text, k)[i] = text[(Begin(text, k + 1) - 1) + i]
    BY ONLY <2>2, k \in Nat, text \in Seq(STRING), HeldType
  <2> QED
    BY <1>5, <1>8, <2>1, <2>3
<1>11. CASE w = NewLine
  <2>1. p = (m + 1) + 1 /\ Len(u) = 0
    BY <1>6, <1>10, <1>11
  <2>2. u = <<>>
    BY <1>10, <2>1, EmptySeq
  <2> QED
    BY <1>3, <1>5, <1>8, <1>11, <2>1, <2>2
<1>12. CASE w # NewLine
  <2>1. p = q
    BY <1>6, <1>12
  <2>2. PICK n \in Nat : n = Len(l)
    BY <1>9, LenProperties
  <2>3. PICK v : v = Append(l, w)
    OBVIOUS
  <2>4. v \in Seq(STRING) /\ Len(v) = n + 1 /\ v[n + 1] = w /\ \A k \in 1..n : v[k] = l[k]
    <3>1. /\ Append(l, w) \in Seq(STRING) /\ Len(Append(l, w)) = Len(l) + 1
          /\ \A i \in 1..Len(l) : Append(l, w)[i] = l[i]
          /\ Append(l, w)[Len(l) + 1] = w
      <4>1. l \in Seq(STRING)
        BY <1>9
      <4>2. w \in STRING
        BY <1>3
      <4> QED
        BY ONLY <4>1, <4>2, AppendedTo
    <3> QED
      BY <2>2, <2>3, <3>1
  <2>5. n + 1 = ((m + 1) + 1) - p /\ (q - 1) + (n + 1) = m + 1 /\ n = (m + 1) - q
    BY <1>9, <2>1, <2>2
  <2>6. Len(u) = Len(v)
    BY <1>10, <2>4, <2>5
  <2>7. ASSUME NEW i \in 1..Len(u) PROVE u[i] = v[i]
    <3>1. i \in 1..(n + 1) /\ i \in 1..(((m + 1) + 1) - p)
      BY <2>4, <2>5, <2>6
    <3>2. u[i] = text[(q - 1) + i]
      BY <1>10, <2>1, <3>1
    <3>3. CASE i = n + 1
      BY <1>3, <2>4, <2>5, <3>2, <3>3
    <3>4. CASE i \in 1..n
      <4>1. i \in 1..((m + 1) - q)
        BY <2>5, <3>4
      <4> QED
        BY <1>9, <2>4, <3>2, <3>4, <4>1
    <3> QED
      BY <3>1, <3>3, <3>4
  <2>8. u = v
    BY ONLY <1>10, <2>4, <2>6, <2>7, SeqEqual
  <2> QED
    BY <1>3, <1>4, <1>5, <1>7, <1>8, <1>12, <2>1, <2>3, <2>8
<1> QED
  BY <1>11, <1>12

\* After the line that ended the loop.
Stopped(ls, s, fails) ==
  /\ Ends(ls, fails) # {}
  /\ \E l, d, p : s = Reader(l, d, FALSE, BlockedIn(Kept(ls, fails)), p, Kept(ls, fails))

\* In the rest of a line that is too long.
Skipping(text, m, ls, s, fails) ==
  /\ Ends(ls, fails) = {} /\ (m + 1) - Begin(text, m + 1) > MaxLine
  /\ \E p : s = Reader(<<>>, TRUE, TRUE, BlockedIn(ls), p, ls)

\* In a line that is not.
Reading(text, m, ls, s, fails) ==
  /\ Ends(ls, fails) = {} /\ (m + 1) - Begin(text, m + 1) <= MaxLine
  /\ \E p : s = Reader(Held(text, m), FALSE, TRUE, BlockedIn(ls), p, ls)

\* The state of the console after m words, of which ls are the lines.
AsRead(text, m, ls, s, fails) ==
  Stopped(ls, s, fails) \/ Skipping(text, m, ls, s, fails) \/ Reading(text, m, ls, s, fails)

\* It stays that with every turn.
LEMMA TurnTaken ==
  ASSUME NEW fails, NEW text \in Seq(STRING), NEW m \in Nat, m + 1 <= Len(text),
         NEW ls \in Seq(Seq(STRING)), NEW s, AsRead(text, m, ls, s, fails)
  PROVE  AsRead(text, m + 1, Turn(text, m + 1, ls), ReadWord(s, text[m + 1], fails), fails)
<1>1. PICK w : w = text[m + 1]
  OBVIOUS
<1>2. PICK q : q = Begin(text, m + 1)
  OBVIOUS
<1>3. PICK l : l = Held(text, m)
  OBVIOUS
<1>4. q \in 1..(m + 1) /\ l \in Seq(STRING) /\ Len(l) = (m + 1) - q
  <2>1. m <= Len(text)
    BY LenProperties
  <2>2. /\ Begin(text, m + 1) \in 1..(m + 1)
        /\ Held(text, m) \in Seq(STRING) /\ Len(Held(text, m)) = (m + 1) - Begin(text, m + 1)
    BY ONLY <2>1, text \in Seq(STRING), m \in Nat, HeldType
  <2> QED
    BY <1>2, <1>3, <2>2
<1>5. PICK t : t = Turn(text, m + 1, ls)
  OBVIOUS
<1>6. t = IF w = NewLine /\ (m + 1) - q <= MaxLine THEN Append(ls, l) ELSE ls
  <2>1. (m + 1) - 1 = m
    OBVIOUS
  <2> QED
    BY <1>1, <1>2, <1>3, <1>5, <2>1 DEF Turn, Held
<1>7. MaxLine \in Nat
  BY InputAssumption
<1>8. PICK z : z = ReadWord(s, w, fails)
  OBVIOUS
<1>9. CASE Stopped(ls, s, fails)
  <2>1. PICK a, d, p : s = Reader(a, d, FALSE, BlockedIn(Kept(ls, fails)), p, Kept(ls, fails))
    BY <1>9 DEF Stopped
  <2>2. z = s
    <3>1. ~s.running
      BY <2>1 DEF Reader
    <3>2. ReadWord(s, w, fails) = s
      BY ONLY <3>1, WordIgnored
    <3> QED
      BY <1>8, <3>2
  <2>3. Ends(t, fails) # {} /\ Kept(t, fails) = Kept(ls, fails)
    <3>1. Ends(ls, fails) # {}
      BY <1>9 DEF Stopped
    <3>2. CASE t = ls
      BY <3>1, <3>2
    <3>3. CASE t = Append(ls, l)
      BY <1>4, <3>1, <3>3, KeptStays
    <3> QED
      BY <1>6, <3>2, <3>3
  <2>4. Stopped(t, z, fails)
    BY <2>1, <2>2, <2>3 DEF Stopped
  <2> QED
    BY <1>1, <1>5, <1>8, <2>4 DEF AsRead
<1>10. CASE Skipping(text, m, ls, s, fails)
  <2>1. PICK p : s = Reader(<<>>, TRUE, TRUE, BlockedIn(ls), p, ls)
    BY <1>10 DEF Skipping
  <2>2. (m + 1) - q > MaxLine /\ Ends(ls, fails) = {}
    BY <1>2, <1>10 DEF Skipping
  <2>3. t = ls
    BY <1>4, <1>6, <1>7, <2>2
  <2>4. z = Reader(<<>>, w # NewLine, TRUE, BlockedIn(ls), p, ls)
    <3>1. PICK e, b : e = <<>> /\ b = BlockedIn(ls)
      OBVIOUS
    <3>2. PICK r : r = TRUE
      OBVIOUS
    <3>3. PICK d : d = (w # NewLine)
      OBVIOUS
    <3>4. Holds(s, e, r, r, b, p, ls)
      BY <2>1, <3>1, <3>2 DEF Holds
    <3>5. Holds(ReadWord(s, w, fails), e, d, r, b, p, ls)
      BY ONLY <3>2, <3>3, <3>4, WordSkipped
    <3> QED
      BY <1>8, <3>1, <3>2, <3>3, <3>5 DEF Holds
  <2>5. CASE w = NewLine
    <3>1. Begin(text, (m + 1) + 1) = (m + 1) + 1 /\ Held(text, m + 1) = <<>>
      BY <1>1, <2>5, HeldGrows
    <3>2. ((m + 1) + 1) - Begin(text, (m + 1) + 1) <= MaxLine
      BY <1>7, <3>1
    <3>3. z = Reader(Held(text, m + 1), FALSE, TRUE, BlockedIn(t), p, t)
      BY <2>3, <2>4, <2>5, <3>1
    <3>4. Reading(text, m + 1, t, z, fails)
      BY <2>2, <2>3, <3>2, <3>3 DEF Reading
    <3> QED
      BY <1>1, <1>5, <1>8, <3>4 DEF AsRead
  <2>6. CASE w # NewLine
    <3>1. Begin(text, (m + 1) + 1) = q
      BY <1>1, <1>2, <2>6, HeldGrows
    <3>2. ((m + 1) + 1) - Begin(text, (m + 1) + 1) > MaxLine
      BY <1>4, <1>7, <2>2, <3>1
    <3>3. z = Reader(<<>>, TRUE, TRUE, BlockedIn(t), p, t)
      BY <2>3, <2>4, <2>6
    <3>4. Skipping(text, m + 1, t, z, fails)
      BY <2>2, <2>3, <3>2, <3>3 DEF Skipping
    <3> QED
      BY <1>1, <1>5, <1>8, <3>4 DEF AsRead
  <2> QED
    BY <2>5, <2>6
<1>11. CASE Reading(text, m, ls, s, fails)
  <2>1. PICK p : s = Reader(l, FALSE, TRUE, BlockedIn(ls), p, ls)
    BY <1>3, <1>11 DEF Reading
  <2>2. (m + 1) - q <= MaxLine /\ Ends(ls, fails) = {}
    BY <1>2, <1>11 DEF Reading
  <2>3. CASE w = NewLine
    <3>1. Begin(text, (m + 1) + 1) = (m + 1) + 1 /\ Held(text, m + 1) = <<>>
      BY <1>1, <2>3, HeldGrows
    <3>2. ((m + 1) + 1) - Begin(text, (m + 1) + 1) <= MaxLine
      BY <1>7, <3>1
    <3>3. t = Append(ls, l)
      BY <1>6, <2>2, <2>3
    <3>4. Kept(t, fails) = t /\ ((Ends(t, fails) = {}) <=> ~Ended(ls, l, fails))
      BY <1>4, <2>2, <3>3, KeptGrows
    <3>5. PICK n : n = BlockedIn(t)
      OBVIOUS
    <3>6. PICK r : r = (~Ended(ls, l, fails))
      OBVIOUS
    <3>7. PICK b : b = BlockedIn(ls)
      OBVIOUS
    <3>8. n = CASE Operation(l) = "block" -> b \cup Named(l)
                [] Operation(l) = "unblock" -> b \ Named(l)
                [] OTHER -> b
      BY <1>4, <3>3, <3>5, <3>7, BlockedTurn
    <3>9. PICK p2 : z = Reader(<<>>, FALSE, ~Ended(ls, l, fails), n, p2, t)
      <4>1. s = Reader(l, FALSE, TRUE, b, p, ls)
        BY <2>1, <3>7
      <4>2. PICK p2 : ReadWord(Reader(l, FALSE, TRUE, b, p, ls), NewLine, fails) =
              Reader(<<>>, FALSE, ~Ended(ls, l, fails),
                     CASE Operation(l) = "block" -> b \cup Named(l)
                       [] Operation(l) = "unblock" -> b \ Named(l)
                       [] OTHER -> b,
                     p2, Append(ls, l))
        <5>1. HandlesLine(l, b, p, ls, fails)
          BY ONLY LineHandled
        <5> QED
          BY <5>1 DEF HandlesLine
      <4>3. z = Reader(<<>>, FALSE, ~Ended(ls, l, fails), n, p2, t)
        BY <1>8, <2>3, <3>3, <3>8, <4>1, <4>2
      <4> QED
        BY <4>3
    <3>10. CASE Ended(ls, l, fails)
      <4>1. z = Reader(<<>>, FALSE, FALSE, BlockedIn(Kept(t, fails)), p2, Kept(t, fails))
        <5>1. (~Ended(ls, l, fails)) = FALSE
          BY <3>10
        <5>2. z = Reader(<<>>, FALSE, FALSE, n, p2, t)
          BY <3>9, <5>1
        <5> QED
          BY <3>4, <3>5, <5>2
      <4>2. Stopped(t, z, fails)
        BY <3>4, <3>10, <4>1 DEF Stopped
      <4> QED
        BY <1>1, <1>5, <1>8, <4>2 DEF AsRead
    <3>11. CASE ~Ended(ls, l, fails)
      <4>1. z = Reader(Held(text, m + 1), FALSE, TRUE, BlockedIn(t), p2, t)
        BY <3>1, <3>5, <3>9, <3>11
      <4>2. Reading(text, m + 1, t, z, fails)
        BY <3>2, <3>4, <3>11, <4>1 DEF Reading
      <4> QED
        BY <1>1, <1>5, <1>8, <4>2 DEF AsRead
    <3> QED
      BY <3>10, <3>11
  <2>4. CASE w # NewLine
    <3>1. Begin(text, (m + 1) + 1) = q /\ Held(text, m + 1) = Append(l, w)
      BY <1>1, <1>2, <1>3, <2>4, HeldGrows
    <3>2. t = ls
      BY <1>6, <2>4
    <3>3. z = IF Len(l) < MaxLine THEN Reader(Append(l, w), FALSE, TRUE, BlockedIn(ls), p, ls)
                                  ELSE Reader(<<>>, TRUE, TRUE, BlockedIn(ls), p, ls)
      <4>1. PICK b : b = BlockedIn(ls)
        OBVIOUS
      <4>2. ReadWord(Reader(l, FALSE, TRUE, b, p, ls), w, fails) =
              IF Len(l) < MaxLine THEN Reader(Append(l, w), FALSE, TRUE, b, p, ls)
                                  ELSE Reader(<<>>, TRUE, TRUE, b, p, ls)
        <5>1. AddsWord(l, b, p, ls, w, fails)
          BY ONLY <2>4, WordAdded
        <5> QED
          BY <5>1 DEF AddsWord
      <4> QED
        BY <1>8, <2>1, <4>1, <4>2
    <3>4. CASE Len(l) < MaxLine
      <4>1. ((m + 1) + 1) - Begin(text, (m + 1) + 1) <= MaxLine
        BY <1>4, <1>7, <3>1, <3>4
      <4>2. z = Reader(Held(text, m + 1), FALSE, TRUE, BlockedIn(t), p, t)
        BY <3>1, <3>2, <3>3, <3>4
      <4>3. Reading(text, m + 1, t, z, fails)
        BY <2>2, <3>2, <4>1, <4>2 DEF Reading
      <4> QED
        BY <1>1, <1>5, <1>8, <4>3 DEF AsRead
    <3>5. CASE ~(Len(l) < MaxLine)
      <4>1. ((m + 1) + 1) - Begin(text, (m + 1) + 1) > MaxLine
        BY <1>4, <1>7, <3>1, <3>5
      <4>2. z = Reader(<<>>, TRUE, TRUE, BlockedIn(t), p, t)
        BY <3>2, <3>3, <3>5
      <4>3. Skipping(text, m + 1, t, z, fails)
        BY <2>2, <3>2, <4>1, <4>2 DEF Skipping
      <4> QED
        BY <1>1, <1>5, <1>8, <4>3 DEF AsRead
    <3> QED
      BY <3>4, <3>5
  <2> QED
    BY <2>3, <2>4
<1> QED
  BY <1>9, <1>10, <1>11 DEF AsRead

-----------------------------------------------------------------------------
(* What a read of the console does.                                        *)

\* The function of read_console.
WordsRead(words, n, s, g, fails) ==
  g = [k \in 0..n |-> IF k = 0 THEN s ELSE ReadWord(g[k - 1], words[k], fails)]

\* It is a function.
LEMMA WordsReadExist ==
  ASSUME NEW fails, NEW words, NEW n \in Nat, NEW s
  PROVE  \E g : WordsRead(words, n, s, g, fails)
<1> DEFINE T == {m \in Nat : \E g : WordsRead(words, m, s, g, fails)}
<1>1. 0 \in T
  <2>1. WordsRead(words, 0, s, [k \in 0..0 |-> s], fails)
    BY DEF WordsRead
  <2> QED
    BY <2>1
<1>2. ASSUME NEW m \in T PROVE m + 1 \in T
  <2>1. PICK g : WordsRead(words, m, s, g, fails)
    OBVIOUS
  <2>2. g = [k \in 0..m |-> IF k = 0 THEN s ELSE ReadWord(g[k - 1], words[k], fails)]
    BY <2>1 DEF WordsRead
  <2> DEFINE h == [k \in 0..(m + 1) |->
                     IF k = m + 1 THEN ReadWord(g[m], words[m + 1], fails) ELSE g[k]]
  <2>3. ASSUME NEW k \in 0..(m + 1)
        PROVE  h[k] = IF k = 0 THEN s ELSE ReadWord(h[k - 1], words[k], fails)
    <3>1. CASE k = m + 1
      <4>1. h[m] = g[m] /\ h[k] = ReadWord(g[m], words[k], fails) /\ k - 1 = m /\ k # 0
        BY <3>1
      <4> QED
        BY <4>1
    <3>2. CASE k \in 0..m
      <4>1. h[k] = g[k] /\ (k # 0 => h[k - 1] = g[k - 1])
        BY <3>2
      <4>2. g[k] = IF k = 0 THEN s ELSE ReadWord(g[k - 1], words[k], fails)
        BY <2>2, <3>2
      <4> QED
        BY <4>1, <4>2
    <3> QED
      BY <3>1, <3>2
  <2>4. h = [k \in 0..(m + 1) |-> h[k]]
    OBVIOUS
  <2> HIDE DEF h
  <2>5. h = [k \in 0..(m + 1) |-> IF k = 0 THEN s ELSE ReadWord(h[k - 1], words[k], fails)]
    BY <2>3, <2>4
  <2>6. WordsRead(words, m + 1, s, h, fails)
    BY <2>5 DEF WordsRead
  <2> QED
    BY <2>6
<1>3. T \in SUBSET Nat
  OBVIOUS
<1> HIDE DEF T
<1>4. T = Nat
  BY ONLY <1>1, <1>2, <1>3, SetInduction
<1> QED
  BY <1>4 DEF T

\* A read takes one turn for each of its words.
LEMMA TurnsTaken ==
  ASSUME NEW fails, NEW text \in Seq(STRING), NEW m \in Nat, NEW n \in Nat, m + n <= Len(text),
         NEW words, \A k \in 1..n : words[k] = text[m + k],
         NEW g, Collects(text, Len(text), g),
         NEW s, AsRead(text, m, g[m], s, fails), NEW h, WordsRead(words, n, s, h, fails)
  PROVE  AsRead(text, m + n, g[m + n], h[n], fails)
<1>1. PICK N \in Nat : N = Len(text)
  BY LenProperties
<1>2. g[0] = <<>> /\ \A k \in 1..N : g[k] = Turn(text, k, g[k - 1])
  <2>1. Collects(text, N, g)
    BY <1>1
  <2> QED
    BY ONLY <2>1, N \in Nat, CollectsTurn
<1>3. \A k \in 0..N : g[k] \in Seq(Seq(STRING))
  BY <1>1, CollectedType
<1>4. \A k \in 0..n : h[k] = IF k = 0 THEN s ELSE ReadWord(h[k - 1], words[k], fails)
  <2>1. h = [k \in 0..n |-> IF k = 0 THEN s ELSE ReadWord(h[k - 1], words[k], fails)]
    BY DEF WordsRead
  <2> QED
    BY <2>1
<1>5. ASSUME NEW k \in Nat, k + 1 <= n, AsRead(text, m + k, g[m + k], h[k], fails)
      PROVE  AsRead(text, m + (k + 1), g[m + (k + 1)], h[k + 1], fails)
  <2>1. PICK j \in Nat, i \in Nat : j = m + k /\ i = k + 1
    OBVIOUS
  <2>2. AsRead(text, j, g[j], h[k], fails)
    BY ONLY <1>5, <2>1
  <2>3. /\ j \in 0..N /\ j + 1 \in 1..N /\ j + 1 <= Len(text) /\ (j + 1) - 1 = j
        /\ i \in 1..n /\ i \in 0..n /\ i # 0 /\ i - 1 = k /\ m + i = j + 1
    <3>1. m + n <= N /\ N = Len(text)
      BY <1>1
    <3> QED
      BY ONLY m \in Nat, n \in Nat, N \in Nat, k \in Nat, <1>5, <2>1, <3>1
  <2>4. g[j] \in Seq(Seq(STRING))
    BY <1>3, <2>3
  <2>5. AsRead(text, j + 1, Turn(text, j + 1, g[j]), ReadWord(h[k], text[j + 1], fails), fails)
    BY ONLY <2>2, <2>3, <2>4, text \in Seq(STRING), j \in Nat, TurnTaken
  <2>6. g[j + 1] = Turn(text, j + 1, g[j])
    BY ONLY <1>2, <2>3
  <2>7. h[i] = ReadWord(h[k], words[i], fails)
    BY ONLY <1>4, <2>3
  <2>8. words[i] = text[j + 1]
    BY <2>3
  <2>9. AsRead(text, j + 1, g[j + 1], h[i], fails)
    BY ONLY <2>5, <2>6, <2>7, <2>8
  <2> QED
    BY ONLY <2>1, <2>3, <2>9
<1> DEFINE T == {k \in Nat : k <= n => AsRead(text, m + k, g[m + k], h[k], fails)}
<1>6. 0 \in T
  <2>1. m + 0 = m /\ 0 \in 0..n
    OBVIOUS
  <2>2. h[0] = s
    BY ONLY <1>4, <2>1
  <2> QED
    BY <2>1, <2>2
<1>7. ASSUME NEW k \in T PROVE k + 1 \in T
  <2>1. k \in Nat /\ (k <= n => AsRead(text, m + k, g[m + k], h[k], fails))
    OBVIOUS
  <2>2. k + 1 \in Nat /\ (k + 1 <= n => k <= n)
    BY ONLY <2>1, n \in Nat
  <2>3. k + 1 <= n => AsRead(text, m + (k + 1), g[m + (k + 1)], h[k + 1], fails)
    BY <1>5, <2>1, <2>2
  <2> QED
    BY ONLY <2>2, <2>3
<1>8. T \in SUBSET Nat
  OBVIOUS
<1>9. T = Nat
  <2> HIDE DEF T
  <2> QED
    BY ONLY <1>6, <1>7, <1>8, SetInduction
<1>10. n \in T
  BY ONLY <1>9, n \in Nat
<1> QED
  BY ONLY <1>10, n \in Nat

\* What is kept are the first lines, up to the first that ends the loop.
LEMMA KeptLength ==
  ASSUME NEW fails, NEW ls \in Seq(Seq(STRING))
  PROVE  /\ \E n \in 0..Len(ls) :
              /\ Kept(ls, fails) = SubSeq(ls, 1, n) /\ n = Len(Kept(ls, fails))
              /\ \A k \in 1..n : Kept(ls, fails)[k] = ls[k]
              /\ Ends(ls, fails) = {} => n = Len(ls)
              /\ Ends(ls, fails) # {} =>
                   n \in Ends(ls, fails) /\ \A k \in Ends(ls, fails) : n <= k
         /\ Ends(ls, fails) # {} => Len(Kept(ls, fails)) # 0
<1>1. PICK N \in Nat : N = Len(ls) /\ DOMAIN ls = 1..N
  BY LenProperties
<1>2. CASE Ends(ls, fails) = {}
  <2>1. Kept(ls, fails) = ls
    BY <1>2 DEF Kept
  <2>2. 0 + Len(ls) <= Len(ls) /\ \A k \in 1..Len(ls) : ls[0 + k] = ls[k]
    BY <1>1
  <2>3. SubSeq(ls, 0 + 1, 0 + Len(ls)) = ls
    BY ONLY <2>2, 0 \in Nat, ls \in Seq(Seq(STRING)), PartIs
  <2>4. SubSeq(ls, 1, N) = ls /\ N \in 0..Len(ls)
    BY <1>1, <2>3
  <2> QED
    BY <1>1, <1>2, <2>1, <2>4
<1>3. CASE Ends(ls, fails) # {}
  <2>1. PICK n : /\ n = Min(Ends(ls, fails)) /\ n \in Ends(ls, fails)
                 /\ \A k \in Ends(ls, fails) : n <= k
    BY <1>3, FirstEnd
  <2>2. n \in 1..N
    BY <1>1, <2>1 DEF Ends
  <2>3. PICK v : v = Kept(ls, fails)
    OBVIOUS
  <2>4. v = SubSeq(ls, 1, n)
    BY <1>3, <2>1, <2>3 DEF Kept
  <2>5. 1 \in Nat \ {0} /\ 1 <= n + 1 /\ n \in Nat /\ n <= Len(ls)
    BY <1>1, <2>2
  <2>6. /\ Len(SubSeq(ls, 1, n)) = (n + 1) - 1
        /\ \A i \in 1..((n + 1) - 1) : SubSeq(ls, 1, n)[i] = ls[(1 - 1) + i]
    BY ONLY <2>5, ls \in Seq(Seq(STRING)), PartType
  <2>7. Len(v) = n /\ \A k \in 1..n : v[k] = ls[k]
    BY <2>2, <2>4, <2>6
  <2>8. n \in 0..Len(ls) /\ n # 0
    BY <1>1, <2>2
  <2> QED
    BY ONLY <1>3, <2>1, <2>3, <2>4, <2>7, <2>8
<1> QED
  BY <1>2, <1>3

\* What the state of the console says.
LEMMA StateHolds ==
  ASSUME NEW fails, NEW text, NEW m, NEW ls, NEW s, AsRead(text, m, ls, s, fails)
  PROVE  /\ s.running \in BOOLEAN
         /\ s.lines = Kept(ls, fails) /\ s.blocked = BlockedIn(s.lines)
         /\ Ends(ls, fails) # {} <=> ~s.running
         /\ s.running =>
              AsRead(text, m, ls,
                     Reader(s.line, s.discarding, TRUE, s.blocked, s.proposals, s.lines), fails)
<1>1. CASE Stopped(ls, s, fails)
  <2>1. PICK l, d, p : s = Reader(l, d, FALSE, BlockedIn(Kept(ls, fails)), p, Kept(ls, fails))
    BY <1>1 DEF Stopped
  <2>2. s.running = FALSE /\ s.lines = Kept(ls, fails) /\ s.blocked = BlockedIn(Kept(ls, fails))
    BY <2>1 DEF Reader
  <2>3. Ends(ls, fails) # {}
    BY <1>1 DEF Stopped
  <2> QED
    BY <2>2, <2>3
<1>2. ASSUME Ends(ls, fails) = {},
             NEW l, NEW d, NEW p, s = Reader(l, d, TRUE, BlockedIn(ls), p, ls)
      PROVE  /\ s.running = TRUE /\ s.lines = ls /\ s.blocked = BlockedIn(ls) /\ Kept(ls, fails) = ls
             /\ s = Reader(s.line, s.discarding, TRUE, s.blocked, s.proposals, s.lines)
  <2>1. s.running = TRUE /\ s.lines = ls /\ s.blocked = BlockedIn(ls)
        /\ s.line = l /\ s.discarding = d /\ s.proposals = p
    BY <1>2 DEF Reader
  <2>2. s = Reader(s.line, s.discarding, TRUE, s.blocked, s.proposals, s.lines)
    BY <1>2, <2>1
  <2> QED
    BY <1>2, <2>1, <2>2 DEF Kept
<1>3. CASE Skipping(text, m, ls, s, fails)
  <2>1. Ends(ls, fails) = {}
    BY <1>3 DEF Skipping
  <2>2. PICK p : s = Reader(<<>>, TRUE, TRUE, BlockedIn(ls), p, ls)
    BY <1>3 DEF Skipping
  <2> QED
    BY <1>2, <2>1, <2>2
<1>4. CASE Reading(text, m, ls, s, fails)
  <2>1. Ends(ls, fails) = {}
    BY <1>4 DEF Reading
  <2>2. PICK p : s = Reader(Held(text, m), FALSE, TRUE, BlockedIn(ls), p, ls)
    BY <1>4 DEF Reading
  <2> QED
    BY <1>2, <2>1, <2>2
<1> QED
  BY <1>1, <1>3, <1>4 DEF AsRead

-----------------------------------------------------------------------------
(* The console between reads.                                              *)

\* What has stopped the node: an error, or the last line.
WhyStopped == fatal \/ (Len(lines) # 0 /\ Operation(lines[Len(lines)]) = "quit")

\* The state is that of the lines collected so far, and none was handled after the one
\* that ended the loop.
Caught(m, ls, fails) ==
  /\ lines = Kept(ls, fails) /\ blocked_peers = BlockedIn(lines)
  /\ Ends(ls, fails) # {} => ~running
  /\ ~running => WhyStopped
  /\ running =>
       AsRead(script, m, ls,
              Reader(console_line, discarding_line, TRUE, blocked_peers, proposals, lines), fails)

\* What is left to read is the end of what is typed.
Left(m) ==
  /\ m <= Len(script) /\ input \in Seq(STRING) /\ Len(input) = Len(script) - m
  /\ \A k \in 1..(Len(script) - m) : input[k] = script[m + k]

\* The state is what was read makes of it.
ConsoleInv ==
  /\ script \in Seq(STRING) /\ running \in BOOLEAN
  /\ \E m \in Nat, fails \in Nat : \E g :
       Left(m) /\ Collects(script, Len(script), g) /\ Caught(m, g[m], fails)

\* Nothing is read at first.
LEMMA ConsoleInit == Init => ConsoleInv
<1> SUFFICES ASSUME Init PROVE ConsoleInv
  OBVIOUS
<1>1. script \in Seq(STRING) /\ input = script /\ running = TRUE
  BY InputAssumption DEF Init
<1>2. PICK N \in Nat : N = Len(script)
  BY <1>1, LenProperties
<1>3. Left(0)
  BY <1>1, <1>2 DEF Left
<1>4. PICK g : Collects(script, N, g)
  BY CollectsExist
<1>5. g[0] = <<>>
  BY <1>4, CollectsTurn
<1>6. Ends(<<>>, 0) = {} /\ BlockedIn(<<>>) = {}
  BY DEF Ends, BlockedIn
<1>7. Held(script, 0) = <<>>
  BY <1>1, <1>2, HeldType, EmptySeq
<1>8. (0 + 1) - Begin(script, 0 + 1) <= MaxLine
  <2>1. Begin(script, 1) = 1
    BY LineBegins, 1 \in Nat \ {0}
  <2>2. MaxLine \in Nat /\ 0 + 1 = 1
    BY InputAssumption
  <2> QED
    BY <2>1, <2>2
<1>9. /\ console_line = <<>> /\ discarding_line = FALSE /\ blocked_peers = {}
      /\ lines = <<>>
  BY DEF Init
<1>10. Reader(console_line, discarding_line, TRUE, blocked_peers, proposals, lines) =
         Reader(Held(script, 0), FALSE, TRUE, BlockedIn(<<>>), proposals, <<>>)
  BY <1>6, <1>7, <1>9
<1>11. Reading(script, 0, <<>>,
               Reader(console_line, discarding_line, TRUE, blocked_peers, proposals, lines), 0)
  BY <1>6, <1>8, <1>10 DEF Reading
<1>12. Caught(0, <<>>, 0)
  BY <1>1, <1>6, <1>9, <1>11 DEF Caught, AsRead, Kept
<1> QED
  BY <1>1, <1>2, <1>3, <1>4, <1>5, <1>12 DEF ConsoleInv

\* Outside read_console nothing changes, but the node may stop with an error.
LEMMA ConsoleLeft ==
  ASSUME ConsoleInv, UNCHANGED <<blocked_peers, console>>,
         UNCHANGED <<running, fatal>> \/ (running' \in BOOLEAN /\ running /\ fatal' = ~running')
  PROVE  ConsoleInv'
<1>1. /\ script' = script /\ input' = input /\ lines' = lines /\ blocked_peers' = blocked_peers
      /\ console_line' = console_line /\ discarding_line' = discarding_line
      /\ proposals' = proposals
  BY DEF console
<1>2. PICK m \in Nat, fails \in Nat : \E g :
        Left(m) /\ Collects(script, Len(script), g) /\ Caught(m, g[m], fails)
  BY DEF ConsoleInv
<1>3. PICK g : Left(m) /\ Collects(script, Len(script), g) /\ Caught(m, g[m], fails)
  BY <1>2
<1>4. Left(m)'
  BY <1>1, <1>3 DEF Left
<1>5. /\ running' \in BOOLEAN /\ script' \in Seq(STRING) /\ (running' => running)
      /\ ~running' => (~running /\ fatal' = fatal) \/ fatal'
  <2>1. running \in BOOLEAN /\ script' \in Seq(STRING)
    BY <1>1 DEF ConsoleInv
  <2>2. CASE UNCHANGED <<running, fatal>>
    BY <2>1, <2>2
  <2>3. CASE running' \in BOOLEAN /\ running /\ fatal' = ~running'
    BY <2>1, <2>3
  <2> QED
    BY <2>2, <2>3
<1>6. ~running' => WhyStopped'
  BY <1>1, <1>3, <1>5 DEF Caught, WhyStopped
<1>7. Caught(m, g[m], fails)'
  BY <1>1, <1>3, <1>5, <1>6 DEF Caught
<1>8. Collects(script', Len(script'), g)
  BY <1>1, <1>3
<1> QED
  BY <1>4, <1>5, <1>7, <1>8 DEF ConsoleInv

\* How much read_console reads.
Sizes(count) == count \in Nat /\ count <= Len(input)

\* It reads what is there.
LEMMA SizesReadable ==
  ASSUME ConsoleInv
  PROVE  /\ \A count \in 1..Readable : Sizes(count)
         /\ Sizes(Readable) /\ (input = <<>> => Sizes(0))
<1>1. input \in Seq(STRING)
  BY DEF ConsoleInv, Left
<1>2. PICK n \in Nat : n = Len(input)
  BY <1>1, LenProperties
<1>3. Readable \in Nat /\ Readable <= n
  BY <1>2, InputAssumption DEF Readable
<1> QED
  BY <1>2, <1>3 DEF Sizes

\* What read_console does.
LEMMA ConsoleRead ==
  ASSUME ConsoleInv, NEW count, Sizes(count), NEW hung_up, NEW fails \in Failing(count),
         read_console(count, hung_up, fails)
  PROVE  ConsoleInv'
<1>1. PICK m \in Nat, before \in Nat : \E g :
        Left(m) /\ Collects(script, Len(script), g) /\ Caught(m, g[m], before)
  BY DEF ConsoleInv
<1>2. PICK g : Left(m) /\ Collects(script, Len(script), g) /\ Caught(m, g[m], before)
  BY <1>1
<1>3. script \in Seq(STRING) /\ running \in BOOLEAN /\ count \in Nat /\ count <= Len(input)
  BY DEF ConsoleInv, Sizes
<1>4. PICK N \in Nat : N = Len(script)
  BY <1>3, LenProperties
<1>5. /\ m <= N /\ input \in Seq(STRING) /\ Len(input) = N - m
      /\ \A k \in 1..(N - m) : input[k] = script[m + k]
  BY <1>2, <1>4 DEF Left
<1>6. running /\ running = TRUE
  BY <1>3 DEF read_console, Idle
<1>7. PICK s0 : s0 = Reader(console_line, discarding_line, TRUE, blocked_peers, proposals, lines)
  OBVIOUS
<1>8. AsRead(script, m, g[m], s0, fails) /\ fails \in Nat
  <2>1. g[m] \in Seq(Seq(STRING))
    BY <1>2, <1>3, <1>4, <1>5, CollectedType
  <2>2. AsRead(script, m, g[m], s0, before) /\ Ends(g[m], before) = {} /\ lines = g[m]
    BY <1>2, <1>6, <1>7 DEF Caught, Kept
  <2>3. PICK n \in Nat : n = Len(lines) /\ DOMAIN g[m] = 1..n
    BY <2>1, <2>2, LenProperties
  <2>4. fails \in Nat /\ fails \notin 1..n
    BY <1>3, <2>3 DEF Failing
  <2>5. Ends(g[m], fails) = {}
    BY <2>2, <2>3, <2>4 DEF Ends, EndsLoop
  <2> QED
    BY <2>2, <2>4, <2>5 DEF AsRead, Stopped, Skipping, Reading
<1>9. PICK h : WordsRead(input, count, s0, h, fails) /\
               h = (CHOOSE f : WordsRead(input, count, s0, f, fails))
  BY <1>3, WordsReadExist
<1>10. PICK s : s = h[count]
  OBVIOUS
<1>11. /\ console_line' = s.line /\ discarding_line' = s.discarding /\ running' = s.running
       /\ fatal' = (~s.running /\ Operation(s.lines[Len(s.lines)]) # "quit")
       /\ blocked_peers' = s.blocked /\ proposals' = s.proposals /\ lines' = s.lines
       /\ script' = script /\ input' = SubSeq(input, count + 1, Len(input))
  <2>1. s0 = [line |-> console_line, discarding |-> discarding_line, running |-> running,
              blocked |-> blocked_peers, proposals |-> proposals, lines |-> lines]
    BY <1>6, <1>7 DEF Reader
  <2>2. s = (CHOOSE f :
               f = [k \in 0..count |->
                      IF k = 0 THEN s0 ELSE ReadWord(f[k - 1], input[k], fails)])[count]
    BY <1>9, <1>10 DEF WordsRead
  <2> QED
    BY <2>1, <2>2 DEF read_console
<1>12. AsRead(script, m + count, g[m + count], s, fails)
  <2>1. m + count <= Len(script) /\ \A k \in 1..count : input[k] = script[m + k]
    BY <1>3, <1>4, <1>5
  <2>2. AsRead(script, m + count, g[m + count], h[count], fails)
    BY ONLY <1>2, <1>3, <1>8, <1>9, <2>1, m \in Nat, TurnsTaken
  <2> QED
    BY <1>10, <2>2
<1>13. PICK ls : ls = g[m + count]
  OBVIOUS
<1>14. /\ s.running \in BOOLEAN
       /\ s.lines = Kept(ls, fails) /\ s.blocked = BlockedIn(s.lines)
       /\ Ends(ls, fails) # {} <=> ~s.running
       /\ s.running =>
            AsRead(script, m + count, ls,
                   Reader(s.line, s.discarding, TRUE, s.blocked, s.proposals, s.lines), fails)
  <2>1. PICK j : j = m + count
    OBVIOUS
  <2>2. AsRead(script, j, ls, s, fails)
    BY <1>12, <1>13, <2>1
  <2>3. /\ s.running \in BOOLEAN
        /\ s.lines = Kept(ls, fails) /\ s.blocked = BlockedIn(s.lines)
        /\ Ends(ls, fails) # {} <=> ~s.running
        /\ s.running =>
             AsRead(script, j, ls,
                    Reader(s.line, s.discarding, TRUE, s.blocked, s.proposals, s.lines), fails)
    BY ONLY <2>2, StateHolds
  <2> QED
    BY <2>1, <2>3
<1>15. Caught(m + count, g[m + count], fails)'
  <2>1. ASSUME ~s.running PROVE WhyStopped'
    <3>1. m + count \in 0..N
      BY <1>3, <1>4, <1>5
    <3>2. ls \in Seq(Seq(STRING))
      <4>1. g[m + count] \in Seq(Seq(STRING))
        BY ONLY <1>2, <1>3, <1>4, <3>1, CollectedType
      <4> QED
        BY <1>13, <4>1
    <3>3. Len(Kept(ls, fails)) # 0
      BY <1>14, <2>1, <3>2, KeptLength
    <3>4. Len(s.lines) # 0
      BY <1>14, <3>3
    <3> QED
      BY <1>11, <2>1, <3>4 DEF WhyStopped
  <2> QED
    BY <1>11, <1>13, <1>14, <2>1 DEF Caught
<1>16. Left(m + count)'
  <2>1. PICK n \in Nat : n = Len(input) /\ n = N - m
    BY <1>5, LenProperties
  <2>2. count + 1 \in Nat \ {0} /\ count + 1 <= n + 1 /\ n <= Len(input) /\ (count + 1) - 1 = count
        /\ (n + 1) - (count + 1) = N - (m + count)
    BY <1>3, <2>1
  <2>3. PICK r : r = input'
    OBVIOUS
  <2>4. PICK a : a = count + 1
    OBVIOUS
  <2>5. a \in Nat \ {0} /\ a <= n + 1 /\ n <= Len(input)
    BY <2>2, <2>4
  <2>6. /\ SubSeq(input, a, n) \in Seq(STRING) /\ Len(SubSeq(input, a, n)) = (n + 1) - a
        /\ \A i \in 1..((n + 1) - a) : SubSeq(input, a, n)[i] = input[(a - 1) + i]
    <3>1. PICK v : v = input
      OBVIOUS
    <3>2. v \in Seq(STRING) /\ n <= Len(v) /\ 1 <= a
      BY <1>5, <2>5, <3>1
    <3>3. /\ SubSeq(v, a, n) \in Seq(STRING) /\ Len(SubSeq(v, a, n)) = (n + 1) - a
          /\ \A i \in 1..((n + 1) - a) : SubSeq(v, a, n)[i] = v[(a - 1) + i]
      BY ONLY <2>5, <3>2, n \in Nat, PartType
    <3> QED
      BY ONLY <3>1, <3>3
  <2>7. r = SubSeq(input, a, n)
    BY <1>11, <2>1, <2>3, <2>4
  <2>8. (n + 1) - a = N - (m + count) /\ a - 1 = count
    BY <2>2, <2>4
  <2>9. /\ r \in Seq(STRING) /\ Len(r) = N - (m + count)
        /\ \A i \in 1..(N - (m + count)) : r[i] = input[count + i]
    BY <2>6, <2>7, <2>8
  <2>10. ASSUME NEW i \in 1..(N - (m + count)) PROVE r[i] = script[(m + count) + i]
    <3>1. count + i \in 1..(N - m) /\ m + (count + i) = (m + count) + i
      BY <1>3, <1>4, <1>5
    <3> QED
      BY <1>5, <2>9, <3>1
  <2>11. m + count <= N
    BY <1>3, <1>5
  <2> QED
    BY <1>4, <1>11, <2>3, <2>9, <2>10, <2>11 DEF Left
<1>17. Collects(script', Len(script'), g) /\ script' \in Seq(STRING) /\ running' \in BOOLEAN
  BY <1>2, <1>3, <1>11, <1>14
<1>18. m + count \in Nat
  BY <1>3
<1> QED
  BY <1>8, <1>15, <1>16, <1>17, <1>18 DEF ConsoleInv

\* However reads cut up what is typed, the console's state between them is that of the
\* lines that ended so far, each handled whole and once (read_console,
\* handle_console_line).
THEOREM ConsoleInvariant == Spec => []ConsoleInv
<1>1. Init => ConsoleInv
  BY ConsoleInit
<1>2. ConsoleInv /\ [Next]_ivars => ConsoleInv'
  <2> SUFFICES ASSUME ConsoleInv, [Next]_ivars PROVE ConsoleInv'
    OBVIOUS
  <2>1. ASSUME NEW request \in Requests, client_calls(request) \/ client_fails(request)
        PROVE  ConsoleInv'
    <3>1. UNCHANGED <<running, fatal, blocked_peers, console>>
      BY <2>1 DEF client_calls, client_fails
    <3> QED
      BY <3>1, ConsoleLeft
  <2>2. ASSUME NEW envelope \in Envelopes, peer_sends(envelope) PROVE ConsoleInv'
    <3>1. UNCHANGED <<running, fatal, blocked_peers, console>>
      BY <2>2 DEF peer_sends
    <3> QED
      BY <3>1, ConsoleLeft
  <2>3. ASSUME NEW peer \in PeerIds, NEW e, process_sends(peer, e) PROVE ConsoleInv'
    <3>1. PICK framed \in BOOLEAN : running' = framed /\ fatal' = ~framed
      BY <2>3 DEF process_sends
    <3>2. UNCHANGED <<blocked_peers, console>> /\ running
      BY <2>3 DEF process_sends, Idle
    <3> QED
      BY <3>1, <3>2, ConsoleLeft
  <2>4. CASE close
    <3>1. UNCHANGED <<running, fatal, blocked_peers, console>>
      BY <2>4 DEF close
    <3> QED
      BY <3>1, ConsoleLeft
  <2>5. ASSUME NEW count \in 1..Readable, NEW fails \in Failing(count),
               read_console(count, FALSE, fails)
        PROVE  ConsoleInv'
    BY <2>5, SizesReadable, ConsoleRead
  <2>6. ASSUME NEW fails \in Failing(Readable), read_console(Readable, TRUE, fails)
        PROVE  ConsoleInv'
    BY <2>6, SizesReadable, ConsoleRead
  <2>7. CASE input = <<>> /\ read_console(0, FALSE, 0)
    <3>1. 0 \in Failing(0)
      BY DEF Failing
    <3> QED
      BY <2>7, <3>1, SizesReadable, ConsoleRead
  <2>8. CASE UNCHANGED ivars
    <3>1. UNCHANGED <<running, fatal, blocked_peers, console>>
      BY <2>8 DEF ivars
    <3> QED
      BY <3>1, ConsoleLeft
  <2> QED
    BY <2>1, <2>2, <2>3, <2>4, <2>5, <2>6, <2>7, <2>8 DEF Next
<1> QED
  BY <1>1, <1>2, PTL DEF Spec

\* The lines handled are those read, up to the one that ended the loop.
KeptUpTo(fails) ==
  lines = Kept(LinesRead, fails) /\ (Ends(LinesRead, fails) # {} => ~running)

\* The lines handled are those LinesRead is about.
LEMMA LinesAreKept ==
  ASSUME ConsoleInv
  PROVE  /\ LinesRead \in Seq(Seq(STRING)) /\ (~running => WhyStopped)
         /\ \E fails \in Nat : KeptUpTo(fails)
<1>1. PICK m \in Nat, fails \in Nat : \E g :
        Left(m) /\ Collects(script, Len(script), g) /\ Caught(m, g[m], fails)
  BY DEF ConsoleInv
<1>2. PICK g : Left(m) /\ Collects(script, Len(script), g) /\ Caught(m, g[m], fails)
  BY <1>1
<1>3. script \in Seq(STRING)
  BY DEF ConsoleInv
<1>4. PICK N \in Nat : N = Len(script)
  BY <1>3, LenProperties
<1>5. m <= Len(script) /\ Len(script) - Len(input) = m
  BY <1>2, <1>4 DEF Left
<1>6. PICK t : t = SubSeq(script, 1, m)
  OBVIOUS
<1>7. ReadSoFar = t
  BY <1>5, <1>6 DEF ReadSoFar
<1>8. Len(t) = m
  <2>1. 1 \in Nat \ {0} /\ 1 <= m + 1 /\ (m + 1) - 1 = m
    OBVIOUS
  <2>2. Len(SubSeq(script, 1, m)) = (m + 1) - 1
    BY ONLY <1>3, <1>5, <2>1, m \in Nat, PartType
  <2> QED
    BY <1>6, <2>1, <2>2
<1>9. PICK h : Collects(t, m, h) /\ h = (CHOOSE f : Collects(t, m, f))
  BY CollectsExist
<1>10. LinesRead = h[m]
  <2>1. LinesRead = (CHOOSE f : Collects(ReadSoFar, m, f))[m]
    BY ONLY <1>7, <1>8, LinesCollected
  <2> QED
    BY <1>7, <1>9, <2>1
<1>11. h[m] = g[m]
  <2>1. Collects(script, Len(script), g)
    BY <1>2
  <2>2. Collects(SubSeq(script, 1, m), m, h) /\ m <= Len(script)
    BY <1>5, <1>6, <1>9
  <2> QED
    BY ONLY ZenonT(60), <1>3, <2>1, <2>2, m \in Nat, BeginningsAgree
<1>12. g[m] \in Seq(Seq(STRING))
  BY <1>2, <1>3, <1>4, <1>5, CollectedType
<1>13. KeptUpTo(fails) /\ (~running => WhyStopped)
  BY <1>2, <1>10, <1>11 DEF Caught, KeptUpTo
<1> QED
  BY <1>10, <1>11, <1>12, <1>13

\* The server handles each line whole and once, in order, without the lines that are
\* too long, and none after `quit' or a proposal the node does not survive, for any text
\* and however reads cut it up (read_console, process).
THEOREM LinesAreWhole == Spec => []LinesWhole
<1>1. ConsoleInv => LinesWhole
  <2> SUFFICES ASSUME ConsoleInv PROVE LinesWhole
    OBVIOUS
  <2>1. PICK fails \in Nat, ls \in Seq(Seq(STRING)) :
          /\ ls = LinesRead /\ lines = Kept(ls, fails)
          /\ Ends(ls, fails) # {} => ~running
          /\ ~running => WhyStopped
    <3>1. PICK ls : ls = LinesRead
      OBVIOUS
    <3>2. ls \in Seq(Seq(STRING)) /\ (~running => WhyStopped)
      BY <3>1, LinesAreKept
    <3>3. PICK fails \in Nat : KeptUpTo(fails)
      BY LinesAreKept
    <3>4. lines = Kept(ls, fails) /\ (Ends(ls, fails) # {} => ~running)
      BY <3>1, <3>3 DEF KeptUpTo
    <3> QED
      BY ONLY <3>1, <3>2, <3>4, fails \in Nat
  <2>2. PICK N \in Nat : N = Len(ls) /\ DOMAIN ls = 1..N
    BY LenProperties
  <2>3. PICK n \in 0..N :
          /\ lines = SubSeq(ls, 1, n) /\ n = Len(lines) /\ \A k \in 1..n : lines[k] = ls[k]
          /\ Ends(ls, fails) = {} => n = N
          /\ Ends(ls, fails) # {} => n \in Ends(ls, fails) /\ \A k \in Ends(ls, fails) : n <= k
    BY <2>1, <2>2, KeptLength
  <2>4. \A k \in 1..N : k \in Ends(ls, fails) <=> EndsLoop(k, ls[k], fails)
    BY <2>2 DEF Ends
  <2>5. \A line : Operation(line) = "quit" => line # <<>> /\ line[1] = "quit"
    BY DEF Operation
  <2>6. \A line : line # <<>> /\ line[1] = "quit" => Operation(line) = "quit"
    BY DEF Operation
  <2>7. ASSUME n < N
        PROVE  /\ ~running /\ n # 0
               /\ (lines[n] # <<>> /\ lines[n][1] = "quit") \/ (fatal /\ Proposes(lines[n]))
    <3>1. n \in Ends(ls, fails) /\ ~running
      BY <2>1, <2>3, <2>7
    <3>2. n \in 1..N
      BY <2>2, <3>1 DEF Ends
    <3>3. lines[n] = ls[n] /\ EndsLoop(n, lines[n], fails)
      BY <2>3, <2>4, <3>1, <3>2
    <3>4. fatal \/ Operation(lines[n]) = "quit"
      BY <2>1, <2>3, <3>1 DEF WhyStopped
    <3> QED
      BY <2>5, <3>1, <3>2, <3>3, <3>4 DEF EndsLoop
  <2>8. ASSUME NEW k \in 1..n, lines[k] # <<>> /\ lines[k][1] = "quit"
        PROVE  k = n /\ ~running
    <3>1. k \in 1..N /\ k <= n /\ lines[k] = ls[k]
      BY <2>3
    <3>2. k \in Ends(ls, fails)
      BY <2>4, <2>6, <2>8, <3>1 DEF EndsLoop
    <3>3. n <= k
      BY <2>3, <3>2
    <3> QED
      BY <2>1, <3>1, <3>2, <3>3
  <2>9. ~running => fatal \/ (n # 0 /\ lines[n] # <<>> /\ lines[n][1] = "quit")
    BY <2>1, <2>3, <2>5 DEF WhyStopped
  <2> QED
    BY <2>1, <2>2, <2>3, <2>7, <2>8, <2>9 DEF LinesWhole
<1> QED
  BY <1>1, ConsoleInvariant, PTL

\* The last connection kept to what is blocked.
CutInv ==
  /\ last.operation = "Send" => last.sent \cap blocked_peers = {}
  /\ last.operation = "Raft" /\ last.intact =>
       \A m \in last.sent : (last.taken # {}) = (m.body.sender_id \in Heard)

\* After `block', until `unblock', nothing of a peer is acted on and nothing is sent to
\* it, and otherwise its messages get through, whatever is typed and however reads cut
\* it up (receive_one, process, handle_console_line).
THEOREM BlockingCuts == Spec => []BlockCutsLink
<1>1. Init => CutInv
  BY DEF Init, CutInv, Connection
<1>2. CutInv /\ [Next]_ivars => CutInv'
  <2> SUFFICES ASSUME CutInv, [Next]_ivars PROVE CutInv'
    OBVIOUS
  <2>1. ASSUME NEW request \in Requests, client_calls(request) PROVE CutInv'
    <3>1. last'.operation = request.operation
      BY <2>1 DEF client_calls, Connection
    <3>2. request.operation \in {"Write", "Read", "Status"}
      BY SentAssumption
    <3> QED
      BY <3>1, <3>2 DEF CutInv
  <2>2. ASSUME NEW request \in Requests, client_fails(request) PROVE CutInv'
    <3>1. last'.operation = request.operation
      BY <2>2 DEF client_fails, Connection
    <3>2. request.operation \in {"Write", "Read", "Status"}
      BY SentAssumption
    <3> QED
      BY <3>1, <3>2 DEF CutInv
  <2>3. ASSUME NEW envelope \in Envelopes, peer_sends(envelope) PROVE CutInv'
    <3>0. PICK f \in encode_raft_envelope(envelope) : \E stream \in Arrivals(f) :
            last' = Connection("Raft", {[operation |-> "Raft", body |-> envelope]},
                               stream = Stream(f),
                               UNION {Taken(x) : x \in receive_frame(stream, max_raft_frame_size)},
                               {}, TRUE, {})
      BY <2>3 DEF peer_sends
    <3>1. PICK stream \in Arrivals(f) :
            last' = Connection("Raft", {[operation |-> "Raft", body |-> envelope]},
                               stream = Stream(f),
                               UNION {Taken(x) : x \in receive_frame(stream, max_raft_frame_size)},
                               {}, TRUE, {})
      BY <3>0
    <3>2. /\ last'.operation = "Raft" /\ last'.intact = (stream = Stream(f))
          /\ last'.sent = {[operation |-> "Raft", body |-> envelope]}
          /\ last'.taken = UNION {Taken(x) : x \in receive_frame(stream, max_raft_frame_size)}
      BY <3>1 DEF Connection
    <3>3. blocked_peers' = blocked_peers
      BY <2>3 DEF peer_sends
    <3>4. Heard' = Heard
      BY <3>3 DEF Heard, PeerIds
    <3>5. ASSUME last'.intact, NEW m \in last'.sent
          PROVE  (last'.taken # {}) = (m.body.sender_id \in Heard)
      <4>0. m = [operation |-> "Raft", body |-> envelope]
        BY <3>2
      <4>1. stream = Stream(f) /\ m.body = envelope
        <5>1. m.body = envelope
          BY ONLY <4>0
        <5>2. stream = Stream(f)
          BY <3>2, <3>5
        <5> QED
          BY <5>1, <5>2
      <4>2. last'.taken = Taken(f)
        BY <3>2, <4>1, EnvelopeTaken
      <4>3. Taken(f) = IF envelope.sender_id \in Heard
                         THEN {[operation |-> "Raft", body |-> envelope]} ELSE {}
        BY EnvelopeTaken
      <4>4. last'.taken # {} <=> envelope.sender_id \in Heard
        BY <4>2, <4>3
      <4>5. PICK i : i = envelope.sender_id
        OBVIOUS
      <4>6. m.body.sender_id = i
        BY <4>1, <4>5
      <4>7. (last'.taken # {}) = (i \in Heard)
        BY <4>4, <4>5
      <4> QED
        BY <4>6, <4>7
    <3> QED
      BY <3>2, <3>4, <3>5 DEF CutInv
  <2>4. ASSUME NEW peer \in PeerIds, NEW e, process_sends(peer, e) PROVE CutInv'
    <3>1. peer \notin blocked_peers /\ blocked_peers' = blocked_peers
      BY <2>4 DEF process_sends
    <3>2. last'.operation = "Send" /\ last'.sent = {peer}
      BY <2>4 DEF process_sends, Connection
    <3> QED
      BY <3>1, <3>2 DEF CutInv
  <2>5. CASE close
    BY <2>5 DEF close, CutInv, Connection
  <2>6. ASSUME NEW count, NEW hung_up, NEW fails, read_console(count, hung_up, fails)
        PROVE  CutInv'
    <3>1. last' = last /\ last.operation = "None"
      BY <2>6 DEF read_console, Idle
    <3> QED
      BY <3>1 DEF CutInv
  <2>7. CASE UNCHANGED ivars
    BY <2>7 DEF ivars, CutInv, Heard, PeerIds
  <2> QED
    BY <2>1, <2>2, <2>3, <2>4, <2>5, <2>6, <2>7 DEF Next
<1>3. ConsoleInv /\ CutInv => BlockCutsLink
  <2> SUFFICES ASSUME ConsoleInv, CutInv PROVE BlockCutsLink
    OBVIOUS
  <2>1. blocked_peers = BlockedIn(lines)
    BY DEF ConsoleInv, Caught
  <2>2. BlockedByConsole = BlockedIn(lines)
    BY DEF BlockedByConsole, BlockedIn
  <2> QED
    BY <2>1, <2>2 DEF CutInv, BlockCutsLink, Heard
<1> QED
  BY <1>1, <1>2, <1>3, ConsoleInvariant, PTL DEF Spec

-----------------------------------------------------------------------------
(* Frames that are cut or old, and what exit codes rest on.                 *)

\* Its length goes before a frame (length_prefix).
LEMMA StreamBegins ==
  ASSUME NEW f \in Seq(Nat)
  PROVE  Stream(f) \in Seq(Nat) /\ Len(Stream(f)) = 1 + Len(f) /\ Stream(f)[1] = Len(f)
<1>1. PICK l \in Nat : l = Len(f)
  BY LenProperties
<1>2. PICK h : h = <<l>>
  OBVIOUS
<1>3. h \in Seq(Nat) /\ Len(h) = 1 /\ h[1] = l
  BY <1>2
<1>4. /\ h \o f \in Seq(Nat) /\ Len(h \o f) = Len(h) + Len(f)
      /\ \A k \in 1..(Len(h) + Len(f)) : (h \o f)[k] = IF k <= Len(h) THEN h[k] ELSE f[k - Len(h)]
  BY ONLY <1>3, f \in Seq(Nat), ConcatProperties
<1>5. Stream(f) = h \o f
  BY <1>1, <1>2 DEF Stream
<1>6. 1 \in 1..(1 + l) /\ 1 <= 1
  BY <1>1
<1> QED
  BY <1>1, <1>3, <1>4, <1>5, <1>6

\* A frame that is cut short is not received: its length says that there is more
\* (receive_frame, read_all).
LEMMA CutIsLost ==
  ASSUME NEW f \in Seq(Nat), NEW max \in Nat, NEW n \in 0..Len(f)
  PROVE  receive_frame(SubSeq(Stream(f), 1, n), max) = {}
<1>1. PICK l \in Nat : l = Len(f)
  BY LenProperties
<1>2. PICK s : s = Stream(f)
  OBVIOUS
<1>3. s \in Seq(Nat) /\ Len(s) = 1 + l /\ s[1] = l
  BY <1>1, <1>2, StreamBegins
<1>4. PICK t : t = SubSeq(s, 1, n)
  OBVIOUS
<1>5. t \in Seq(Nat) /\ Len(t) = n /\ \A k \in 1..n : t[k] = s[k]
  <2>1. n \in Nat /\ n <= 1 + l
    BY <1>1
  <2>2. \A k \in 1..n : s[k] \in Nat
    BY <1>3, <2>1, ElementOfSeq
  <2>3. /\ t \in Seq(Nat) /\ Len(t) = IF 1 <= n THEN n - 1 + 1 ELSE 0
        /\ \A k \in 1..(n - 1 + 1) : t[k] = s[1 + k - 1]
    BY ONLY <1>4, <2>1, <2>2, 1 \in Int, SubSeqProperties
  <2> QED
    BY <2>1, <2>3
<1>6. CASE n = 0
  <2>1. t = <<>>
    BY <1>5, <1>6, EmptySeq
  <2> QED
    BY <1>2, <1>4, <2>1 DEF receive_frame
<1>7. CASE n # 0
  <2>1. t[1] = l /\ l > n - 1
    BY <1>1, <1>3, <1>5, <1>7
  <2>2. t[1] > Len(t) - 1
    BY <1>5, <2>1
  <2> QED
    BY <1>2, <1>4, <2>2 DEF receive_frame
<1> QED
  BY <1>6, <1>7

\* Nothing is decoded from a frame of a version neither side has (the decoders).
LEMMA OldIsRefused ==
  ASSUME NEW bytes, bytes[1] \notin {client_version, raft_version}
  PROVE  Taken(bytes) = {}
<1>1. \A sizes : ~Genuine(bytes, client_version, sizes) /\ ~Genuine(bytes, raft_version, sizes)
  BY DEF Genuine
<1>2. decode_client_request(bytes) = {} /\ decode_client_read_request(bytes) = {}
  BY <1>1 DEF decode_client_request, decode_client_read_request
<1>3. ~decode_client_status_request(bytes)
  BY <1>1 DEF decode_client_status_request
<1>4. decode_raft_envelope(bytes) = {}
  BY <1>1 DEF decode_raft_envelope
<1>5. {x \in decode_raft_envelope(bytes) : x.sender_id \in Heard} = {}
  BY <1>4
<1>6. {[operation |-> "Write", body |-> c] : c \in decode_client_request(bytes)} = {}
  BY <1>2
<1>7. {[operation |-> "Read", body |-> k] : k \in decode_client_read_request(bytes)} = {}
  BY <1>2
<1>8. {[operation |-> "Raft", body |-> e] :
         e \in {x \in decode_raft_envelope(bytes) : x.sender_id \in Heard}} = {}
  BY <1>5
<1> QED
  BY <1>3, <1>6, <1>7, <1>8 DEF Taken

\* The frame an older version would have sent.
Older(f) == Sealed([Body(f) EXCEPT ![1] = 1])

\* It is a frame of version 1.
LEMMA OlderFrame ==
  ASSUME NEW f \in Seq(Nat), Len(f) >= 2
  PROVE  Older(f) \in Seq(Nat) /\ Len(Older(f)) = Len(f) /\ Older(f)[1] = 1
<1>1. PICK l \in Nat : l = Len(f)
  BY LenProperties
<1>2. PICK b : b = Body(f)
  OBVIOUS
<1>3. b \in Seq(Nat) /\ Len(b) = l - 1
  <2>1. l - 1 \in Nat /\ l - 1 <= Len(f) /\ l - 1 >= 1
    BY <1>1
  <2>2. \A k \in 1..(l - 1) : f[k] \in Nat
    BY <1>1, <2>1, ElementOfSeq
  <2>3. b = SubSeq(f, 1, l - 1)
    BY <1>1, <1>2 DEF Body
  <2>4. b \in Seq(Nat) /\ Len(b) = IF 1 <= l - 1 THEN l - 1 - 1 + 1 ELSE 0
    BY ONLY <2>1, <2>2, <2>3, 1 \in Int, l - 1 \in Int, SubSeqProperties
  <2> QED
    BY <2>1, <2>4
<1>4. PICK c : c = [b EXCEPT ![1] = 1]
  OBVIOUS
<1>5. c \in Seq(Nat) /\ Len(c) = l - 1 /\ c[1] = 1
  <2>1. 1 \in 1..Len(b)
    BY <1>1, <1>3
  <2> QED
    BY ONLY <1>3, <1>4, <2>1, 1 \in Nat, ExceptSeq
<1>6. PICK s : s = Sealed(c)
  OBVIOUS
<1>7. s \in Seq(Nat) /\ Len(s) = (l - 1) + 1 /\ s[1] = 1
  <2>1. s \in Seq(Nat) /\ Len(s) = Len(c) + 1 /\ \A k \in 1..Len(c) : s[k] = c[k]
    BY <1>5, <1>6, SealedBytes
  <2>2. 1 \in 1..(l - 1)
    BY <1>1
  <2> QED
    BY <1>5, <2>1, <2>2
<1>8. Older(f) = s
  BY <1>2, <1>4, <1>6 DEF Older
<1> QED
  BY <1>1, <1>7, <1>8

\* A node takes nothing from a frame of which the connection brought only a part, and
\* nothing from one that an older version wrote (receive_frame, the decoders).
THEOREM CutAndOldAreDropped ==
  ASSUME NEW f \in Seq(Nat), Len(f) >= 2,
         NEW s \in {SubSeq(Stream(f), 1, n) : n \in 0..Len(f)} \cup {Stream(Older(f))}
  PROVE  UNION {Taken(x) : x \in receive_frame(s, max_raft_frame_size)} = {}
<1>1. CASE s = Stream(Older(f))
  <2>1. PICK b : b = Older(f)
    OBVIOUS
  <2>2. b \in Seq(Nat) /\ Len(b) \in Nat /\ Len(b) # 0 /\ b[1] = 1
    <3>1. b \in Seq(Nat) /\ Len(b) = Len(f) /\ b[1] = 1
      BY <2>1, OlderFrame
    <3>2. Len(f) \in Nat
      BY LenProperties
    <3> QED
      BY <3>1, <3>2
  <2>3. receive_frame(Stream(b), max_raft_frame_size) \in {{}, {b}}
    <3>1. CASE Len(b) <= max_raft_frame_size
      BY <2>2, <3>1, SizeAssumption, ArrivesWhole
    <3>2. CASE ~(Len(b) <= max_raft_frame_size)
      <4>1. Stream(b)[1] = Len(b)
        BY <2>2, StreamBegins
      <4>2. Len(b) > max_raft_frame_size
        BY <2>2, <3>2, SizeAssumption
      <4> QED
        BY <4>1, <4>2 DEF receive_frame
    <3> QED
      BY <3>1, <3>2
  <2>4. Taken(b) = {}
    BY <2>2, OldIsRefused DEF client_version, raft_version
  <2> QED
    BY <1>1, <2>1, <2>3, <2>4
<1>2. CASE s \in {SubSeq(Stream(f), 1, n) : n \in 0..Len(f)}
  <2>1. PICK n \in 0..Len(f) : s = SubSeq(Stream(f), 1, n)
    BY <1>2
  <2>2. receive_frame(s, max_raft_frame_size) = {}
    BY <2>1, CutIsLost, SizeAssumption
  <2> QED
    BY <2>2
<1> QED
  BY <1>1, <1>2

-----------------------------------------------------------------------------
(* What the exit code of a write rests on.                                  *)

\* What exchange makes of what comes back for a write is a reply of which the status
\* is one of the six, or an error that is not the one of a request not sent.
LEMMA ExchangeEnds ==
  ASSUME NEW stream, NEW r, r = exchange("Write", stream)
  PROVE  \/ r.error = "None" /\ r.reply # {} /\ \A x \in r.reply : x.status \in 1..6
         \/ r.error \in {"InvalidReply", "ConnectionLost"}
<1>1. PICK frames : frames = receive_frame(stream, max_client_frame_size)
  OBVIOUS
<1>2. PICK replies : replies = UNION {decode_client_reply(f) : f \in frames}
  OBVIOUS
<1>3. \/ replies # {} /\ r = [error |-> "None", reply |-> replies]
      \/ r = Failure("InvalidReply") \/ r = Failure("ConnectionLost")
  <2>1. r = IF replies # {} THEN [error |-> "None", reply |-> replies]
            ELSE IF frames # {} \/ (stream # <<>> /\ stream[1] \notin 1..max_client_frame_size)
            THEN Failure("InvalidReply")
            ELSE Failure("ConnectionLost")
    BY <1>1, <1>2 DEF exchange
  <2> QED
    BY <2>1
<1>4. ASSUME NEW x \in replies PROVE x.status \in 1..6
  <2>1. PICK f \in frames : x \in decode_client_reply(f)
    BY <1>2
  <2>2. ValidWriteReply(x)
    BY <2>1 DEF decode_client_reply
  <2> QED
    BY <2>2 DEF ValidWriteReply
<1>5. CASE replies # {} /\ r = [error |-> "None", reply |-> replies]
  BY <1>4, <1>5
<1>6. CASE r = Failure("InvalidReply") \/ r = Failure("ConnectionLost")
  BY <1>6 DEF Failure
<1> QED
  BY <1>3, <1>5, <1>6

\* A node answers Committed to what it has taken for a request, and says of a read or
\* a status it could not take that it is not valid.
LEMMA CommittedWasTaken ==
  ASSUME NEW f, NEW a \in Answers(f), a.reply.status = 1
  PROVE  Taken(f) # {}
<1> SUFFICES ASSUME Taken(f) = {} PROVE FALSE
  OBVIOUS
<1>1. PICK valid : valid = (Taken(f) # {})
  OBVIOUS
<1>2. ~valid
  BY <1>1
<1>3. PICK kind : kind = IF Len(f) >= 2 THEN f[2] ELSE 0
  OBVIOUS
<1>4. \/ a \in {[reply |-> r, bytes |-> Reply("Write", r)] : r \in WriteReplies(valid)}
      \/ a \in {[reply |-> r, bytes |-> Reply("Read", r)] : r \in ReadReplies(valid)}
      \/ a \in {[reply |-> r, bytes |-> Reply("Status", r)] : r \in StatusReplies(valid)}
  BY <1>1, <1>3 DEF Answers, request_kind, read_request_kind, status_request_kind
<1>5. \/ a.reply \in WriteReplies(valid) \/ a.reply \in ReadReplies(valid)
      \/ a.reply \in StatusReplies(valid)
  BY <1>4
<1>6. CASE a.reply \in WriteReplies(valid)
  <2>1. a.reply = WriteReply("InvalidRequest", 0, 0)
    BY <1>2, <1>6 DEF WriteReplies
  <2> QED
    BY <2>1 DEF WriteReply, WriteStatus
<1>7. CASE a.reply \in ReadReplies(valid)
  <2>1. a.reply = ReadReply("InvalidRequest", 0, 0, {})
    BY <1>2, <1>7 DEF ReadReplies
  <2> QED
    BY <2>1 DEF ReadReply, ReadStatus
<1>8. CASE a.reply \in StatusReplies(valid)
  <2>1. a.reply = InvalidStatus
    BY <1>2, <1>8 DEF StatusReplies
  <2> QED
    BY <2>1 DEF InvalidStatus
<1> QED
  BY <1>5, <1>6, <1>7, <1>8

\* The exit code of a reply follows from its status (show_result).
LEMMA CodeOfStatus ==
  ASSUME NEW r, NEW x, r.error = "None", r.reply = {x}, x.status \in 1..6
  PROVE  /\ show_result("Write", r) = 0 => x.status = 1
         /\ show_result("Write", r) \in {2, 3} => x.status \in {2, 4}
<1>1. PICK y : y = CHOOSE z \in r.reply : TRUE
  OBVIOUS
<1>2. y = x
  BY <1>1
<1>3. show_result("Write", r) = WriteCodes[x.status]
  BY <1>1, <1>2 DEF show_result
<1>4. PICK s : s = x.status
  OBVIOUS
<1>5. s = 1 \/ s = 2 \/ s = 3 \/ s = 4 \/ s = 5 \/ s = 6
  BY <1>4
<1>6. /\ WriteCodes[1] = 0 /\ WriteCodes[2] = 3 /\ WriteCodes[3] = 4
      /\ WriteCodes[4] = 2 /\ WriteCodes[5] = 5 /\ WriteCodes[6] = 4
  BY DEF WriteCodes
<1> QED
  BY <1>3, <1>4, <1>5, <1>6

\* If nothing damaged is taken for a message, on either way, the exit code is honest.
CodesFollow == TakenAsSent /\ AnswersUnderstood => ExitCodesHonest

\* A call that reached the node, or did not: the code is that of what was read.
LEMMA CallFollows ==
  ASSUME NEW request \in Requests, client_calls(request) PROVE CodesFollow'
<1> SUFFICES ASSUME TakenAsSent', AnswersUnderstood', last'.operation = "Write"
             PROVE  ExitCodesHonest'
  BY DEF CodesFollow, ExitCodesHonest
<1>0. PICK frame \in Encoded(request) : \E stream \in Arrivals(frame) :
        LET frames == receive_frame(stream, max_raft_frame_size)
            answers == {{}} \cup {{a} : a \in UNION {Answers(f) : f \in frames}}
        IN \E answer \in answers :
             LET octets == UNION {a.bytes : a \in answer} IN
             \E back \in IF octets = {} THEN {<<>>}
                         ELSE IF stream # Stream(frame) THEN {Stream(b) : b \in octets}
                         ELSE UNION {Arrivals(b) : b \in octets} :
               last' = Connection(request.operation, {request}, stream = Stream(frame),
                                  UNION {Taken(f) : f \in frames},
                                  {a.reply : a \in answer},
                                  \E b \in octets : back = Stream(b),
                                  {exchange(request.operation, back)})
  BY DEF client_calls
<1>1. PICK stream \in Arrivals(frame) :
        LET frames == receive_frame(stream, max_raft_frame_size)
            answers == {{}} \cup {{a} : a \in UNION {Answers(f) : f \in frames}}
        IN \E answer \in answers :
             LET octets == UNION {a.bytes : a \in answer} IN
             \E back \in IF octets = {} THEN {<<>>}
                         ELSE IF stream # Stream(frame) THEN {Stream(b) : b \in octets}
                         ELSE UNION {Arrivals(b) : b \in octets} :
               last' = Connection(request.operation, {request}, stream = Stream(frame),
                                  UNION {Taken(f) : f \in frames},
                                  {a.reply : a \in answer},
                                  \E b \in octets : back = Stream(b),
                                  {exchange(request.operation, back)})
  BY <1>0
<1>2. PICK frames : frames = receive_frame(stream, max_raft_frame_size)
  OBVIOUS
<1>3. PICK answer \in {{}} \cup {{a} : a \in UNION {Answers(f) : f \in frames}} :
        LET octets == UNION {a.bytes : a \in answer} IN
        \E back \in IF octets = {} THEN {<<>>}
                    ELSE IF stream # Stream(frame) THEN {Stream(b) : b \in octets}
                    ELSE UNION {Arrivals(b) : b \in octets} :
          last' = Connection(request.operation, {request}, stream = Stream(frame),
                             UNION {Taken(f) : f \in frames},
                             {a.reply : a \in answer},
                             \E b \in octets : back = Stream(b),
                             {exchange(request.operation, back)})
  BY <1>1, <1>2
<1>4. PICK back :
        last' = Connection(request.operation, {request}, stream = Stream(frame),
                           UNION {Taken(f) : f \in frames},
                           {a.reply : a \in answer},
                           \E b \in UNION {a.bytes : a \in answer} : back = Stream(b),
                           {exchange(request.operation, back)})
  BY <1>3
<1>5. /\ last'.operation = request.operation
      /\ last'.taken = UNION {Taken(f) : f \in frames}
      /\ last'.answer = {a.reply : a \in answer}
      /\ last'.result = {exchange(request.operation, back)}
  BY <1>4 DEF Connection
<1>6. PICK r : r = exchange("Write", back)
  OBVIOUS
<1>7. last'.result = {r}
  BY <1>5, <1>6
<1>8. PICK code : code = show_result("Write", r)
  OBVIOUS
<1>9. PICK said : said = {a.status : a \in last'.answer}
  OBVIOUS
<1>10. CASE r.error \in {"InvalidReply", "ConnectionLost"}
  <2>1. code \in {4, 5}
    BY <1>8, <1>10 DEF show_result
  <2>2. \A z \in last'.result : show_result("Write", z) \in {4, 5}
    BY <1>7, <1>8, <2>1
  <2> QED
    BY <2>2 DEF ExitCodesHonest
<1>11. CASE r.error = "None" /\ r.reply # {} /\ \A x \in r.reply : x.status \in 1..6
  <2>1. r.reply = last'.answer
    BY <1>7, <1>11 DEF AnswersUnderstood
  <2>2. PICK a : answer = {a} /\ a \in UNION {Answers(f) : f \in frames}
    <3>1. answer # {}
      BY <1>5, <1>11, <2>1
    <3> QED
      BY <1>3, <3>1
  <2>3. PICK f \in frames : a \in Answers(f)
    BY <2>2
  <2>4. PICK x : x = a.reply
    OBVIOUS
  <2>5. last'.answer = {x} /\ r.reply = {x} /\ x.status \in 1..6
    BY <1>5, <1>11, <2>1, <2>2, <2>4
  <2>6. said = {x.status}
    BY <1>9, <2>5
  <2>7. (code = 0 => x.status = 1) /\ (code \in {2, 3} => x.status \in {2, 4})
    BY <1>8, <1>11, <2>5, CodeOfStatus
  <2>8. code = 0 => last'.taken = last'.sent /\ said = {1}
    <3> SUFFICES ASSUME code = 0 PROVE last'.taken = last'.sent /\ said = {1}
      OBVIOUS
    <3>1. x.status = 1
      BY <2>7
    <3>2. Taken(f) # {}
      BY <2>3, <2>4, <3>1, CommittedWasTaken
    <3>3. last'.taken # {}
      BY <1>5, <2>3, <3>2
    <3>4. last'.taken = last'.sent
      BY <3>3 DEF TakenAsSent, WholeTaken
    <3> QED
      BY <2>6, <3>1, <3>4
  <2>9. code \in {2, 3} => said \subseteq {4, 2} /\ said # {}
    BY <2>6, <2>7
  <2>10. \A z \in last'.result : z = r
    BY <1>7
  <2> QED
    BY <1>8, <1>9, <2>8, <2>9, <2>10 DEF ExitCodesHonest, WriteStatus
<1>12. \/ r.error = "None" /\ r.reply # {} /\ \A x \in r.reply : x.status \in 1..6
       \/ r.error \in {"InvalidReply", "ConnectionLost"}
  BY <1>6, ExchangeEnds
<1> QED
  BY <1>10, <1>11, <1>12

\* A client claims no more of its write than is known, as far as no damaged frame is
\* taken for a message: the codes add no error of their own (show_result, run_single).
THEOREM HonestUnlessMisread == Spec => [](TakenAsSent /\ AnswersUnderstood => ExitCodesHonest)
<1>1. Init => CodesFollow
  BY DEF Init, CodesFollow, ExitCodesHonest, Connection
<1>2. CodesFollow /\ [Next]_ivars => CodesFollow'
  <2> SUFFICES ASSUME CodesFollow, [Next]_ivars PROVE CodesFollow'
    OBVIOUS
  <2>1. ASSUME NEW request \in Requests, client_calls(request) PROVE CodesFollow'
    BY <2>1, CallFollows
  <2>2. ASSUME NEW request \in Requests, client_fails(request) PROVE CodesFollow'
    <3>1. last'.result \in {{Failure("NotSent")}, {Failure("ServerUnavailable")}}
      BY <2>2 DEF client_fails, Connection
    <3>2. ASSUME NEW r \in last'.result
          PROVE  \/ show_result("Write", r) = 5
                 \/ r.error = "NotSent" /\ show_result("Write", r) = 2
      <4>1. r.error = "NotSent" \/ r.error = "ServerUnavailable"
        BY <3>1, <3>2 DEF Failure
      <4>2. CASE r.error = "NotSent"
        <5>1. show_result("Write", r) = 2
          BY <4>2 DEF show_result
        <5> QED
          BY <4>2, <5>1
      <4>3. CASE r.error = "ServerUnavailable"
        <5>1. show_result("Write", r) = 5
          BY <4>3 DEF show_result
        <5> QED
          BY <5>1
      <4> QED
        BY <4>1, <4>2, <4>3
    <3> QED
      BY <3>2 DEF CodesFollow, ExitCodesHonest
  <2>3. ASSUME \/ \E envelope \in Envelopes : peer_sends(envelope)
               \/ \E peer \in PeerIds : \E e : process_sends(peer, e)
               \/ close
        PROVE  CodesFollow'
    <3>1. last'.operation # "Write" \/ last' = last
      BY <2>3 DEF peer_sends, process_sends, close, Connection
    <3> QED
      BY <3>1 DEF CodesFollow, ExitCodesHonest, TakenAsSent, WholeTaken, AnswersUnderstood,
                  WholeUnderstood
  <2>4. CASE last' = last
    BY <2>4 DEF CodesFollow, ExitCodesHonest, TakenAsSent, WholeTaken, AnswersUnderstood,
                WholeUnderstood
  <2>5. ASSUME NEW count, NEW hung_up, NEW fails, read_console(count, hung_up, fails)
        PROVE  CodesFollow'
    BY <2>4, <2>5 DEF read_console
  <2>6. CASE UNCHANGED ivars
    BY <2>4, <2>6 DEF ivars
  <2> QED
    BY <2>1, <2>2, <2>3, <2>5, <2>6 DEF Next
<1>3. CodesFollow <=> (TakenAsSent /\ AnswersUnderstood => ExitCodesHonest)
  BY DEF CodesFollow
<1> QED
  BY <1>1, <1>2, <1>3, PTL DEF Spec
=============================================================================
