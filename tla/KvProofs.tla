------------------------------ MODULE KvProofs ------------------------------
(***************************************************************************)
(* What the state machine remembers of the requests in the log it was fed: *)
(* of each id its first entry, and nothing else. This is shown for every   *)
(* log by induction over the entries fed; the induction is stated for sets *)
(* of numbers, and Replay's recursive function is shown to exist first.    *)
(* Then what the codecs make of commands and log records: whatever was     *)
(* encoded is decoded to the same again.                                   *)
(***************************************************************************)
EXTENDS KvStateMachine, Codecs, SequenceTheorems, WellFoundedInduction, TLAPS

\* Some naturals have a least.
LEMMA LeastNumber ==
  ASSUME NEW T \in SUBSET Nat, T # {}
  PROVE  \E x \in T : \A y \in T : x <= y
<1> DEFINE R == OpToRel(<, Nat)
<1>1. IsWellFoundedOn(R, Nat)
  BY NatLessThanWellFounded
<1>2. \A x, y \in Nat : <<y, x>> \in R <=> y < x
  BY DEF OpToRel
<1> HIDE DEF R
<1>3. PICK x \in T : \A y \in T : ~(<<y, x>> \in R)
  BY <1>1, WFMin
<1>4. \A y \in T : ~(y < x)
  BY <1>2, <1>3
<1> QED
  BY <1>4

\* Induction over the naturals, for a set of them.
LEMMA SetInduction ==
  ASSUME NEW T \in SUBSET Nat, 0 \in T, \A n \in T : n + 1 \in T
  PROVE  T = Nat
<1> DEFINE Rest == Nat \ T
<1> SUFFICES ASSUME Rest # {} PROVE FALSE
  OBVIOUS
<1>1. Rest \in SUBSET Nat
  OBVIOUS
<1>2. PICK x \in Rest : \A y \in Rest : x <= y
  <2> HIDE DEF Rest
  <2> QED
    BY ONLY <1>1, Rest # {}, LeastNumber
<1>3. x \in Nat /\ x # 0 /\ x - 1 \in Nat /\ ~(x <= x - 1)
  OBVIOUS
<1>4. x - 1 \in T
  BY <1>2, <1>3
<1> QED
  BY <1>3, <1>4

-----------------------------------------------------------------------------
(* Sequences one after another.                                            *)

LOCAL INSTANCE SequencesExt

\* g gives the first elements of s, up to each, put together.
Parts(s, n, g) ==
  g = [k \in 1..n |-> IF k = 1 THEN s[k] ELSE g[k - 1] \o s[k]]

\* There are such parts.
LEMMA PartsExist ==
  ASSUME NEW s, NEW n \in Nat
  PROVE  \E g : Parts(s, n, g)
<1> DEFINE T == {m \in Nat : \E g : Parts(s, m, g)}
<1>1. 0 \in T
  <2>1. Parts(s, 0, [k \in 1..0 |-> s[k]])
    BY DEF Parts
  <2> QED
    BY <2>1
<1>2. ASSUME NEW m \in T PROVE m + 1 \in T
  <2>1. PICK g : Parts(s, m, g)
    OBVIOUS
  <2> DEFINE h == [k \in 1..(m + 1) |->
                     IF k # m + 1 THEN g[k] ELSE IF m = 0 THEN s[k] ELSE g[m] \o s[k]]
  <2>2. ASSUME NEW k \in 1..(m + 1)
        PROVE  h[k] = IF k = 1 THEN s[k] ELSE h[k - 1] \o s[k]
    <3>1. CASE k = m + 1
      <4>1. h[k] = (IF m = 0 THEN s[k] ELSE g[m] \o s[k]) /\ k - 1 = m /\ (k = 1 <=> m = 0)
        BY <3>1
      <4>2. m # 0 => h[m] = g[m]
        OBVIOUS
      <4> HIDE DEF h
      <4> QED
        BY <4>1, <4>2
    <3>2. CASE k \in 1..m
      <4>1. h[k] = g[k] /\ (k # 1 => h[k - 1] = g[k - 1])
        BY <3>2
      <4>2. g[k] = IF k = 1 THEN s[k] ELSE g[k - 1] \o s[k]
        BY <2>1, <3>2 DEF Parts
      <4> HIDE DEF h
      <4> QED
        BY <4>1, <4>2
    <3> QED
      BY <3>1, <3>2
  <2>3. h = [k \in 1..(m + 1) |-> h[k]]
    OBVIOUS
  <2> HIDE DEF h
  <2>4. h = [k \in 1..(m + 1) |-> IF k = 1 THEN s[k] ELSE h[k - 1] \o s[k]]
    BY <2>2, <2>3
  <2>5. Parts(s, m + 1, h)
    BY <2>4 DEF Parts
  <2> QED
    BY <2>5
<1>3. T \in SUBSET Nat
  OBVIOUS
<1> HIDE DEF T
<1>4. T = Nat
  BY ONLY <1>1, <1>2, <1>3, SetInduction
<1> QED
  BY <1>4 DEF T

\* The parts depend on the elements up to them only.
LEMMA PartsAgree ==
  ASSUME NEW s, NEW n \in Nat, NEW g, Parts(s, n, g), n # 0,
         NEW s2, NEW m \in Nat, NEW g2, Parts(s2, m, g2), n <= m, \A k \in 1..n : s2[k] = s[k]
  PROVE  g2[n] = g[n]
<1> DEFINE T == {k \in Nat : k \in 1..n => g2[k] = g[k]}
<1>1. 0 \in T
  OBVIOUS
<1>2. ASSUME NEW k \in T PROVE k + 1 \in T
  <2>1. ASSUME k + 1 \in 1..n PROVE g2[k + 1] = g[k + 1]
    <3>1. s2[k + 1] = s[k + 1] /\ (k # 0 => g2[k] = g[k])
      BY <2>1
    <3>2. (k + 1 = 1 <=> k = 0) /\ (k + 1) - 1 = k /\ k + 1 \in 1..m
      BY <2>1
    <3>3. g[k + 1] = IF k = 0 THEN s[k + 1] ELSE g[k] \o s[k + 1]
      <4>1. g[k + 1] = IF k + 1 = 1 THEN s[k + 1] ELSE g[(k + 1) - 1] \o s[k + 1]
        BY <2>1, Zenon DEF Parts
      <4> QED
        BY <3>2, <4>1
    <3>4. g2[k + 1] = IF k = 0 THEN s2[k + 1] ELSE g2[k] \o s2[k + 1]
      <4>1. g2[k + 1] = IF k + 1 = 1 THEN s2[k + 1] ELSE g2[(k + 1) - 1] \o s2[k + 1]
        BY <3>2, Zenon DEF Parts
      <4> QED
        BY <3>2, <4>1
    <3> QED
      BY <3>1, <3>3, <3>4
  <2> QED
    BY <2>1
<1>3. T \in SUBSET Nat
  OBVIOUS
<1>4. n \in T
  <2> HIDE DEF T
  <2> QED
    BY ONLY <1>1, <1>2, <1>3, SetInduction, n \in Nat
<1> QED
  BY <1>4

\* The whole is the last part.
LEMMA FlattenIsLast ==
  ASSUME NEW s, Len(s) \in Nat, Len(s) # 0
  PROVE  \E g : Parts(s, Len(s), g) /\ FlattenSeq(s) = g[Len(s)]
<1>1. PICK g : Parts(s, Len(s), g)
  BY PartsExist
<1> QED
  BY <1>1 DEF Parts, FlattenSeq

\* One element more.
LEMMA FlattenStep ==
  ASSUME NEW S, NEW s \in Seq(Seq(S)), NEW e \in Seq(S)
  PROVE  FlattenSeq(Append(s, e)) = FlattenSeq(s) \o e
<1>1. PICK n \in Nat : n = Len(s)
  OBVIOUS
<1>2. PICK s2 : s2 = Append(s, e)
  OBVIOUS
<1>3. Len(s2) = n + 1 /\ s2[n + 1] = e /\ \A k \in 1..n : s2[k] = s[k]
  BY <1>1, <1>2
<1>4. PICK g2 : Parts(s2, n + 1, g2) /\ FlattenSeq(s2) = g2[n + 1]
  BY <1>3, FlattenIsLast
<1>5. g2[n + 1] = IF n = 0 THEN e ELSE g2[n] \o e
  <2>1. (n + 1 = 1 <=> n = 0) /\ (n + 1) - 1 = n /\ n + 1 \in 1..(n + 1)
    OBVIOUS
  <2>2. g2[n + 1] = IF n + 1 = 1 THEN s2[n + 1] ELSE g2[(n + 1) - 1] \o s2[n + 1]
    BY <1>4, <2>1, Zenon DEF Parts
  <2> QED
    BY <1>3, <2>1, <2>2
<1>6. CASE n = 0
  <2>1. FlattenSeq(s) = s
    BY <1>1, <1>6 DEF FlattenSeq
  <2>2. s = <<>>
    <3>1. PICK T : T = Seq(S)
      OBVIOUS
    <3>2. s \in Seq(T) /\ Len(s) = 0
      BY <1>1, <1>6, <3>1
    <3> QED
      BY ONLY <3>2
  <2>3. <<>> \o e = e
    OBVIOUS
  <2> QED
    BY <1>2, <1>4, <1>5, <1>6, <2>1, <2>2, <2>3
<1>7. CASE n # 0
  <2>1. PICK g : Parts(s, n, g) /\ FlattenSeq(s) = g[n]
    BY <1>1, <1>7, FlattenIsLast
  <2>2. n + 1 \in Nat /\ n <= n + 1
    OBVIOUS
  <2>3. g2[n] = g[n]
    BY <1>3, <1>4, <1>7, <2>1, <2>2, PartsAgree
  <2> QED
    BY <1>2, <1>4, <1>5, <1>7, <2>1, <2>3
<1> QED
  BY <1>6, <1>7

-----------------------------------------------------------------------------
(* The states a log leads through.                                         *)

\* g gives the state after each number of entries of s.
Steps(s, n, g) ==
  g = [k \in 0..n |-> IF k = 0 THEN NewState ELSE Feed(g[k - 1], s[k])]

\* There are such states.
LEMMA StepsExist ==
  ASSUME NEW s, NEW n \in Nat
  PROVE  \E g : Steps(s, n, g)
<1> DEFINE T == {m \in Nat : \E g : Steps(s, m, g)}
<1>1. 0 \in T
  <2>1. Steps(s, 0, [k \in 0..0 |-> NewState])
    BY DEF Steps
  <2> QED
    BY <2>1
<1>2. ASSUME NEW m \in T PROVE m + 1 \in T
  <2>1. PICK g : Steps(s, m, g)
    OBVIOUS
  <2> DEFINE h == [k \in 0..(m + 1) |-> IF k = m + 1 THEN Feed(g[m], s[m + 1]) ELSE g[k]]
  <2>2. ASSUME NEW k \in 0..(m + 1)
        PROVE  h[k] = IF k = 0 THEN NewState ELSE Feed(h[k - 1], s[k])
    <3>1. CASE k = m + 1
      <4>1. h[m] = g[m] /\ h[k] = Feed(g[m], s[k]) /\ k - 1 = m /\ k # 0
        BY <3>1
      <4> QED
        BY <4>1
    <3>2. CASE k \in 0..m
      <4>1. h[k] = g[k] /\ (k # 0 => h[k - 1] = g[k - 1])
        BY <3>2
      <4>2. g[k] = IF k = 0 THEN NewState ELSE Feed(g[k - 1], s[k])
        BY <2>1, <3>2 DEF Steps
      <4> QED
        BY <4>1, <4>2
    <3> QED
      BY <3>1, <3>2
  <2>3. h = [k \in 0..(m + 1) |-> h[k]]
    OBVIOUS
  <2> HIDE DEF h
  <2>4. h = [k \in 0..(m + 1) |-> IF k = 0 THEN NewState ELSE Feed(h[k - 1], s[k])]
    BY <2>2, <2>3
  <2>5. Steps(s, m + 1, h)
    BY <2>4 DEF Steps
  <2> QED
    BY <2>5
<1>3. T \in SUBSET Nat
  OBVIOUS
<1> HIDE DEF T
<1>4. T = Nat
  BY ONLY <1>1, <1>2, <1>3, SetInduction
<1> QED
  BY <1>4 DEF T

\* Replay is the last of them.
LEMMA ReplayIsLast ==
  ASSUME NEW s, Len(s) \in Nat
  PROVE  \E g : Steps(s, Len(s), g) /\ Replay(s) = g[Len(s)]
<1>1. PICK g : Steps(s, Len(s), g)
  BY StepsExist
<1> QED
  BY <1>1 DEF Steps, Replay

\* The states after the first n entries depend on those entries only.
LEMMA StepsAgree ==
  ASSUME NEW s, NEW n \in Nat, NEW g, Steps(s, n, g),
         NEW s2, NEW m \in Nat, NEW g2, Steps(s2, m, g2), n <= m, \A k \in 1..n : s2[k] = s[k]
  PROVE  g2[n] = g[n]
<1> DEFINE T == {k \in Nat : k <= n => g2[k] = g[k]}
<1>1. 0 \in T
  BY DEF Steps
<1>2. ASSUME NEW k \in T PROVE k + 1 \in T
  <2>1. ASSUME k + 1 <= n PROVE g2[k + 1] = g[k + 1]
    <3>1. g2[k] = g[k] /\ s2[k + 1] = s[k + 1]
      BY <2>1
    <3>2. g[k + 1] = Feed(g[k], s[k + 1]) /\ g2[k + 1] = Feed(g2[k], s2[k + 1])
      BY <2>1 DEF Steps
    <3> QED
      BY <3>1, <3>2
  <2> QED
    BY <2>1
<1>3. T \in SUBSET Nat
  OBVIOUS
<1>4. n \in T
  <2> HIDE DEF T
  <2> QED
    BY ONLY <1>1, <1>2, <1>3, SetInduction, n \in Nat
<1> QED
  BY <1>4

\* Replaying one entry more is applying it to what the replay left.
LEMMA ReplayStep ==
  ASSUME NEW s, NEW s2, NEW n \in Nat, Len(s) = n, Len(s2) = n + 1, \A k \in 1..n : s2[k] = s[k]
  PROVE  Replay(s2) = Feed(Replay(s), s2[n + 1])
<1>1. PICK g : Steps(s, n, g) /\ Replay(s) = g[n]
  BY ReplayIsLast
<1>2. PICK g2 : Steps(s2, n + 1, g2) /\ Replay(s2) = g2[n + 1]
  BY ReplayIsLast
<1>3. g2[n] = g[n]
  <2>1. n + 1 \in Nat /\ n <= n + 1
    OBVIOUS
  <2> QED
    BY <1>1, <1>2, <2>1, StepsAgree
<1>4. g2[n + 1] = Feed(g2[n], s2[n + 1])
  BY <1>2 DEF Steps
<1> QED
  BY <1>1, <1>2, <1>3, <1>4

-----------------------------------------------------------------------------
(* The table of requests.                                                  *)

\* p is the first entry of s with request id `id'.
FirstOf(s, n, id, p) ==
  /\ p.index \in 1..n
  /\ s[p.index].command = p.command /\ s[p.index].term = p.term
  /\ p.command.request_id = id
  /\ \A k \in 1..(p.index - 1) : s[k].command.request_id # id

\* st has been fed n entries of s, and remembers exactly their requests.
Remembers(st, s, n) ==
  /\ st = [data |-> st.data, applied_requests |-> st.applied_requests, last_applied |-> n]
  /\ NoId \notin DOMAIN st.applied_requests
  /\ \A k \in 1..n : s[k].command.request_id # NoId =>
       s[k].command.request_id \in DOMAIN st.applied_requests
  /\ \A id \in DOMAIN st.applied_requests : FirstOf(s, n, id, st.applied_requests[id])

\* One entry more: it is remembered if its id is new.
LEMMA FeedRemembers ==
  ASSUME NEW st, NEW s, NEW n \in Nat, Remembers(st, s, n), ValidCommand(s[n + 1].command)
  PROVE  Remembers(Feed(st, s[n + 1]), s, n + 1)
<1>1. PICK d, t : st = [data |-> d, applied_requests |-> t, last_applied |-> n]
  BY DEF Remembers
<1>2. PICK c, term : c = s[n + 1].command /\ term = s[n + 1].term
  OBVIOUS
<1>3. st.data = d /\ st.applied_requests = t /\ st.last_applied = n
  BY <1>1
<1>4. /\ NoId \notin DOMAIN t
      /\ \A k \in 1..n : s[k].command.request_id # NoId => s[k].command.request_id \in DOMAIN t
      /\ \A id \in DOMAIN t : FirstOf(s, n, id, t[id])
  BY <1>3 DEF Remembers
<1>5. \A id, p : FirstOf(s, n, id, p) => FirstOf(s, n + 1, id, p)
  BY DEF FirstOf
<1>6. CASE c.request_id \in DOMAIN t
  <2>1. Feed(st, s[n + 1]) = [st EXCEPT !.last_applied = n + 1]
    BY <1>2, <1>3, <1>6 DEF Feed, apply
  <2>2. Feed(st, s[n + 1]) = [data |-> d, applied_requests |-> t, last_applied |-> n + 1]
    BY <1>1, <2>1
  <2> QED
    BY <1>2, <1>4, <1>5, <1>6, <2>2 DEF Remembers
<1>7. CASE c.request_id = NoId
  <2>1. Feed(st, s[n + 1]) = Executed(st, n + 1, c, term).state
    BY <1>2, <1>3, <1>4, <1>7 DEF Feed, apply
  <2>2. Feed(st, s[n + 1])
          = [data |-> Stored(d, c), applied_requests |-> t, last_applied |-> n + 1]
    BY <1>3, <1>7, <2>1 DEF Executed
  <2> QED
    BY <1>2, <1>4, <1>5, <1>7, <2>2 DEF Remembers
<1>8. CASE c.request_id \notin DOMAIN t /\ c.request_id # NoId
  <2>1. Feed(st, s[n + 1]) = Executed(st, n + 1, c, term).state
    BY <1>2, <1>3, <1>8 DEF Feed, apply
  <2>2. PICK p : p = [command |-> c, result |-> Outcome(d, c), index |-> n + 1, term |-> term]
    OBVIOUS
  <2>3. PICK u : u = Inserted(t, c.request_id, p)
    OBVIOUS
  <2>4. Feed(st, s[n + 1]) = [data |-> Stored(d, c), applied_requests |-> u, last_applied |-> n + 1]
    BY <1>3, <1>8, <2>1, <2>2, <2>3 DEF Executed
  <2>5. /\ DOMAIN u = DOMAIN t \cup {c.request_id} /\ u[c.request_id] = p
        /\ \A id \in DOMAIN t : u[id] = t[id]
    BY <1>8, <2>3 DEF Inserted
  <2>6. p.index = n + 1 /\ p.command = c /\ p.term = term
    BY <2>2
  <2>7. \A k \in 1..n : s[k].command.request_id # c.request_id
    BY <1>4, <1>8
  <2>8. FirstOf(s, n + 1, c.request_id, p)
    BY <1>2, <2>6, <2>7 DEF FirstOf
  <2>9. /\ NoId \notin DOMAIN u
        /\ \A id \in DOMAIN u : FirstOf(s, n + 1, id, u[id])
    BY <1>4, <1>5, <1>8, <2>5, <2>8
  <2>10. \A k \in 1..(n + 1) : s[k].command.request_id # NoId => s[k].command.request_id \in DOMAIN u
    BY <1>2, <1>4, <2>5
  <2> QED
    BY <2>4, <2>9, <2>10 DEF Remembers
<1> QED
  BY <1>6, <1>7, <1>8

\* After a whole log of valid commands the table names, of each request id in it,
\* the first entry, with its index and term (applied_requests_ after a restart has
\* replayed the log, and at every replica).
THEOREM ReplayRemembers ==
  ASSUME NEW s, Len(s) \in Nat, \A k \in 1..Len(s) : ValidCommand(s[k].command)
  PROVE  Remembers(Replay(s), s, Len(s))
<1>1. PICK g : Steps(s, Len(s), g) /\ Replay(s) = g[Len(s)]
  BY ReplayIsLast
<1> DEFINE T == {n \in Nat : n <= Len(s) => Remembers(g[n], s, n)}
<1>2. 0 \in T
  <2>1. g[0] = NewState
    BY <1>1 DEF Steps
  <2>2. NewState = [data |-> <<>>, applied_requests |-> <<>>, last_applied |-> 0]
    BY DEF NewState
  <2>3. DOMAIN <<>> = {}
    OBVIOUS
  <2> QED
    BY <2>1, <2>2, <2>3 DEF Remembers
<1>3. ASSUME NEW n \in T PROVE n + 1 \in T
  <2>1. ASSUME n + 1 <= Len(s) PROVE Remembers(g[n + 1], s, n + 1)
    <3>1. g[n + 1] = Feed(g[n], s[n + 1])
      BY <1>1, <2>1 DEF Steps
    <3>2. Remembers(g[n], s, n) /\ ValidCommand(s[n + 1].command)
      BY <2>1
    <3> QED
      BY <3>1, <3>2, FeedRemembers
  <2> QED
    BY <2>1
<1>4. T \in SUBSET Nat
  OBVIOUS
<1> HIDE DEF T
<1>5. T = Nat
  BY ONLY <1>2, <1>3, <1>4, SetInduction
<1> QED
  BY <1>1, <1>5 DEF T

-----------------------------------------------------------------------------
(* Parts of sequences.                                                     *)

\* A part of a sequence is what lies there.
LEMMA PartIs ==
  ASSUME NEW S, NEW s \in Seq(S), NEW t \in Seq(S), NEW from \in Nat,
         from + Len(t) <= Len(s), \A k \in 1..Len(t) : s[from + k] = t[k]
  PROVE  SubSeq(s, from + 1, from + Len(t)) = t
<1>1. PICK n \in Nat : n = Len(t)
  BY LenProperties
<1>2. from + 1 \in Int /\ from + n \in Int /\ Len(s) \in Nat
  BY <1>1, LenProperties
<1>3. \A k \in (from + 1)..(from + n) : s[k] \in S
  <2> TAKE k \in (from + 1)..(from + n)
  <2>1. k \in 1..Len(s)
    BY <1>1, <1>2
  <2> QED
    BY <2>1, ElementOfSeq
<1>4. PICK u : u = SubSeq(s, from + 1, from + n)
  OBVIOUS
<1>5. /\ u \in Seq(S)
      /\ Len(u) = IF from + 1 <= from + n THEN (from + n) - (from + 1) + 1 ELSE 0
      /\ \A k \in 1..((from + n) - (from + 1) + 1) : u[k] = s[(from + 1) + k - 1]
  BY ONLY <1>2, <1>3, <1>4, SubSeqProperties
<1>6. Len(u) = n
  BY <1>1, <1>5
<1>7. \A k \in 1..n : u[k] = t[k]
  <2> TAKE k \in 1..n
  <2>1. k \in 1..((from + n) - (from + 1) + 1) /\ (from + 1) + k - 1 = from + k
    OBVIOUS
  <2> QED
    BY <1>1, <1>5, <2>1
<1> QED
  BY <1>1, <1>4, <1>5, <1>6, <1>7, SeqEqual

\* Three sequences one after another, and where each is found again.
LEMMA Joined ==
  ASSUME NEW S, NEW a \in Seq(S), NEW b \in Seq(S), NEW c \in Seq(S),
         NEW s, s = a \o b \o c
  PROVE  /\ s \in Seq(S) /\ Len(s) = Len(a) + Len(b) + Len(c)
         /\ \A k \in 1..Len(a) : s[k] = a[k]
         /\ SubSeq(s, Len(a) + 1, Len(a) + Len(b)) = b
         /\ SubSeq(s, Len(a) + Len(b) + 1, Len(s)) = c
<1>1. PICK ab : ab = a \o b
  OBVIOUS
<1>2. PICK l, m, n : l = Len(a) /\ m = Len(b) /\ n = Len(c)
  OBVIOUS
<1>3. l \in Nat /\ m \in Nat /\ n \in Nat
  BY <1>2, LenProperties
<1>4. /\ ab \in Seq(S) /\ Len(ab) = l + m
      /\ \A k \in 1..(l + m) : ab[k] = IF k <= l THEN a[k] ELSE b[k - l]
  BY <1>1, <1>2, ConcatProperties
<1>5. /\ s \in Seq(S) /\ Len(s) = (l + m) + n
      /\ \A k \in 1..((l + m) + n) : s[k] = IF k <= l + m THEN ab[k] ELSE c[k - (l + m)]
  <2>1. s = ab \o c
    BY <1>1
  <2>2. /\ ab \o c \in Seq(S) /\ Len(ab \o c) = Len(ab) + Len(c)
        /\ \A k \in 1..(Len(ab) + Len(c)) :
             (ab \o c)[k] = IF k <= Len(ab) THEN ab[k] ELSE c[k - Len(ab)]
    BY ONLY <1>4, c \in Seq(S), ConcatProperties
  <2> QED
    BY <1>2, <1>4, <2>1, <2>2
<1>6. \A k \in 1..l : s[k] = a[k]
  BY <1>3, <1>4, <1>5
<1>7. \A k \in 1..m : s[l + k] = b[k]
  <2> TAKE k \in 1..m
  <2>1. l + k \in 1..(l + m) /\ l + k \in 1..((l + m) + n) /\ ~(l + k <= l) /\ (l + k) - l = k
        /\ l + k <= l + m
    BY <1>3
  <2> QED
    BY <1>4, <1>5, <2>1
<1>8. \A k \in 1..n : s[(l + m) + k] = c[k]
  <2> TAKE k \in 1..n
  <2>1. (l + m) + k \in 1..((l + m) + n) /\ ~((l + m) + k <= l + m) /\ ((l + m) + k) - (l + m) = k
    BY <1>3
  <2> QED
    BY <1>5, <2>1
<1>9. SubSeq(s, l + 1, l + m) = b
  <2>1. l + Len(b) <= Len(s) /\ \A k \in 1..Len(b) : s[l + k] = b[k]
    BY <1>2, <1>3, <1>5, <1>7
  <2>2. SubSeq(s, l + 1, l + Len(b)) = b
    BY ONLY <1>3, <1>5, <2>1, b \in Seq(S), PartIs
  <2> QED
    BY <1>2, <2>2
<1>10. SubSeq(s, (l + m) + 1, (l + m) + n) = c
  <2>1. l + m \in Nat /\ (l + m) + Len(c) <= Len(s)
    BY <1>2, <1>3, <1>5
  <2>2. PICK f \in Nat : f = l + m
    BY <2>1
  <2>3. SubSeq(s, f + 1, f + Len(c)) = c
    BY ONLY <1>2, <1>5, <1>8, <2>1, <2>2, c \in Seq(S), PartIs
  <2> QED
    BY <1>2, <2>2, <2>3
<1> QED
  BY <1>2, <1>5, <1>6, <1>9, <1>10

-----------------------------------------------------------------------------
(* Checksums.                                                              *)

\* g gives what Digest has computed after each cell.
Sums(bytes, n, g) ==
  g = [k \in 0..n |-> IF k = 0 THEN 1 ELSE (31 * g[k - 1] + bytes[k] + 1) % 32749]

\* There are such sums.
LEMMA SumsExist ==
  ASSUME NEW bytes, NEW n \in Nat
  PROVE  \E g : Sums(bytes, n, g)
<1> DEFINE Turn(v, k) == (31 * v + bytes[k] + 1) % 32749
           T == {m \in Nat : \E g : Sums(bytes, m, g)}
<1>1. 0 \in T
  <2>1. Sums(bytes, 0, [k \in 0..0 |-> 1])
    BY DEF Sums
  <2> QED
    BY <2>1
<1>2. ASSUME NEW m \in T PROVE m + 1 \in T
  <2>1. PICK g : Sums(bytes, m, g)
    OBVIOUS
  <2>2. g = [k \in 0..m |-> IF k = 0 THEN 1 ELSE Turn(g[k - 1], k)]
    BY <2>1 DEF Sums
  <2> HIDE DEF Turn
  <2> DEFINE h == [k \in 0..(m + 1) |-> IF k = m + 1 THEN Turn(g[m], m + 1) ELSE g[k]]
  <2>3. ASSUME NEW k \in 0..(m + 1)
        PROVE  h[k] = IF k = 0 THEN 1 ELSE Turn(h[k - 1], k)
    <3>1. CASE k = m + 1
      <4>1. h[m] = g[m] /\ h[k] = Turn(g[m], k) /\ k - 1 = m /\ k # 0
        BY <3>1
      <4> QED
        BY <4>1
    <3>2. CASE k \in 0..m
      <4>1. h[k] = g[k] /\ (k # 0 => h[k - 1] = g[k - 1])
        BY <3>2
      <4>2. g[k] = IF k = 0 THEN 1 ELSE Turn(g[k - 1], k)
        BY <2>2, <3>2
      <4> QED
        BY <4>1, <4>2
    <3> QED
      BY <3>1, <3>2
  <2>4. h = [k \in 0..(m + 1) |-> h[k]]
    OBVIOUS
  <2> HIDE DEF h
  <2>5. h = [k \in 0..(m + 1) |-> IF k = 0 THEN 1 ELSE Turn(h[k - 1], k)]
    BY <2>3, <2>4
  <2>6. Sums(bytes, m + 1, h)
    BY <2>5 DEF Sums, Turn
  <2> QED
    BY <2>6
<1>3. T \in SUBSET Nat
  OBVIOUS
<1> HIDE DEF T
<1>4. T = Nat
  BY ONLY <1>1, <1>2, <1>3, SetInduction
<1> QED
  BY <1>4 DEF T

\* What the loop computes is a number.
LEMMA DigestType ==
  ASSUME NEW bytes \in Seq(Nat)
  PROVE  Digest(bytes) \in Nat
<1>1. PICK n \in Nat : n = Len(bytes)
  BY LenProperties
<1>2. \E g : Sums(bytes, Len(bytes), g)
  BY <1>1, SumsExist
<1>3. Digest(bytes) = (CHOOSE g : Sums(bytes, Len(bytes), g))[Len(bytes)]
  BY DEF Sums, Digest
<1>4. PICK h : Sums(bytes, n, h) /\ Digest(bytes) = h[n]
  BY <1>1, <1>2, <1>3
<1> DEFINE Turn(v, k) == (31 * v + bytes[k] + 1) % 32749
<1>5. h = [k \in 0..n |-> IF k = 0 THEN 1 ELSE Turn(h[k - 1], k)]
  BY <1>4 DEF Sums
<1>6. ASSUME NEW v \in Nat, NEW k \in 1..n PROVE Turn(v, k) \in Nat
  <2>1. PICK b \in Nat : b = bytes[k]
    BY <1>1, ElementOfSeq
  <2>2. (31 * v + b + 1) % 32749 \in Nat
    OBVIOUS
  <2> QED
    BY <2>1, <2>2
<1> HIDE DEF Turn
<1> DEFINE T == {m \in Nat : m <= n => h[m] \in Nat}
<1>7. 0 \in T
  BY <1>5
<1>8. ASSUME NEW m \in T PROVE m + 1 \in T
  <2>1. ASSUME m + 1 <= n PROVE h[m + 1] \in Nat
    <3>1. h[m + 1] = Turn(h[m], m + 1) /\ h[m] \in Nat /\ m + 1 \in 1..n
      BY <1>5, <2>1
    <3> QED
      BY <1>6, <3>1
  <2> QED
    BY <2>1
<1>9. T \in SUBSET Nat
  OBVIOUS
<1>10. n \in T
  <2> HIDE DEF T
  <2> QED
    BY ONLY <1>7, <1>8, <1>9, SetInduction, n \in Nat
<1> QED
  BY <1>4, <1>10

\* A row is a part of the bytes.
LEMMA RowType ==
  ASSUME NEW bytes \in Seq(Nat), NEW r \in 1..((Len(bytes) + 15) \div 16)
  PROVE  Row(bytes, r) \in Seq(Nat)
<1>1. PICK n \in Nat : n = Len(bytes)
  BY LenProperties
<1>2. PICK a, b : a = 16 * (r - 1) + 1 /\ b = IF 16 * r < n THEN 16 * r ELSE n
  OBVIOUS
<1>3. r \in Nat /\ 1 <= r
  BY <1>1
<1>4. a \in Int /\ b \in Int /\ 1 <= a /\ b <= n
  BY <1>2, <1>3
<1>5. \A k \in a..b : bytes[k] \in Nat
  BY <1>1, <1>4, ElementOfSeq
<1>6. SubSeq(bytes, a, b) \in Seq(Nat)
  BY ONLY <1>4, <1>5, bytes \in Seq(Nat), SubSeqProperties
<1> QED
  BY <1>1, <1>2, <1>6 DEF Row

\* A checksum is a number.
LEMMA ChecksumType ==
  ASSUME NEW bytes \in Seq(Nat)
  PROVE  crc32(bytes) \in Nat
<1>1. PICK n \in Nat : n = Len(bytes)
  BY LenProperties
<1>2. PICK m \in Nat : m = (n + 15) \div 16
  OBVIOUS
<1>3. PICK rows : rows = [r \in 1..m |-> Digest(Row(bytes, r))]
  OBVIOUS
<1>4. \A r \in 1..m : Digest(Row(bytes, r)) \in Nat
  BY <1>1, <1>2, RowType, DigestType
<1>5. rows \in Seq(Nat)
  <2>1. rows \in [1..m -> Nat]
    BY <1>3, <1>4
  <2> QED
    BY <2>1, SeqDef
<1>6. crc32(bytes) = Digest(rows)
  BY <1>1, <1>2, <1>3 DEF crc32
<1> QED
  BY <1>5, <1>6, DigestType

\* A checksum is put behind the bytes and recognised (append_checksum, valid_checksum).
LEMMA SealedBytes ==
  ASSUME NEW body \in Seq(Nat), NEW s, s = Sealed(body)
  PROVE  /\ s \in Seq(Nat) /\ Len(s) = Len(body) + 1
         /\ \A k \in 1..Len(body) : s[k] = body[k]
         /\ Body(s) = body /\ valid_checksum(s)
<1>1. PICK sum \in Nat : sum = crc32(body)
  BY ChecksumType
<1>2. PICK n \in Nat : n = Len(body)
  BY LenProperties
<1>3. s = Append(body, sum)
  BY <1>1 DEF Sealed
<1>4. s \in Seq(Nat) /\ Len(s) = n + 1 /\ s[n + 1] = sum /\ \A k \in 1..n : s[k] = body[k]
  BY <1>2, <1>3, AppendProperties
<1>5. Body(s) = body
  <2>1. 0 + Len(body) <= Len(s) /\ \A k \in 1..Len(body) : s[0 + k] = body[k]
    BY <1>2, <1>4
  <2>2. SubSeq(s, 0 + 1, 0 + Len(body)) = body
    BY ONLY <1>4, <2>1, body \in Seq(Nat), 0 \in Nat, PartIs
  <2> QED
    BY <1>2, <1>4, <2>2 DEF Body
<1>6. valid_checksum(s)
  BY <1>1, <1>4, <1>5 DEF valid_checksum
<1> QED
  BY <1>2, <1>4, <1>5, <1>6

-----------------------------------------------------------------------------
(* Commands and records.                                                   *)

\* A command is read as it was written (encode_command, decode_command).
LEMMA CommandBytes ==
  ASSUME NEW c \in CommandsOf(Seq(Nat), Nat), ValidContents(c)
  PROVE  \E bytes \in Seq(Nat) :
           /\ encode_command(c) = {bytes} /\ decode_command(bytes) = {c}
           /\ Len(bytes) >= headerSize
<1>1. /\ c.type \in {"Put", "Delete", "NoOp"} /\ c.key \in Seq(Nat) /\ c.value \in Seq(Nat)
      /\ c.request_id = NoId \/ c.request_id \in Nat
      /\ c = [type |-> c.type, key |-> c.key, value |-> c.value, request_id |-> c.request_id]
  BY DEF CommandsOf
<1>2. PICK tag : tag = Tag(c.type)
  OBVIOUS
<1>3. tag \in 1..3 /\ <<"Put", "Delete", "NoOp">>[tag] = c.type
  BY <1>1, <1>2 DEF Tag
<1>4. PICK l \in Nat, m \in Nat : l = Len(c.key) /\ m = Len(c.value)
  BY <1>1, LenProperties
<1>5. PICK header :
        header = IF c.request_id = NoId THEN <<legacyFormatVersion, tag, l, m>>
                 ELSE <<requestIdFormatVersion, tag, l, m, c.request_id>>
  OBVIOUS
<1>6. /\ header \in Seq(Nat) /\ header[2] = tag /\ header[3] = l /\ header[4] = m
      /\ IF c.request_id = NoId THEN Len(header) = 4 /\ header[1] = 1
         ELSE Len(header) = 5 /\ header[1] = 2 /\ header[5] = c.request_id
  <2>1. CASE c.request_id = NoId
    <3>1. header = <<1, tag, l, m>>
      BY <1>5, <2>1 DEF legacyFormatVersion
    <3> QED
      BY <1>3, <2>1, <3>1
  <2>2. CASE c.request_id # NoId
    <3>1. header = <<2, tag, l, m, c.request_id>> /\ c.request_id \in Nat
      BY <1>1, <1>5, <2>2 DEF requestIdFormatVersion
    <3> QED
      BY <1>3, <2>2, <3>1
  <2> QED
    BY <2>1, <2>2
<1>7. PICK h \in 4..5 : h = Len(header)
  BY <1>6
<1>8. PICK bytes : bytes = header \o c.key \o c.value
  OBVIOUS
<1>9. /\ bytes \in Seq(Nat) /\ Len(bytes) = h + l + m
      /\ \A k \in 1..h : bytes[k] = header[k]
      /\ SubSeq(bytes, h + 1, h + l) = c.key
      /\ SubSeq(bytes, h + l + 1, Len(bytes)) = c.value
  BY <1>1, <1>4, <1>6, <1>7, <1>8, Joined
<1>10. encode_command(c) = {bytes}
  BY <1>2, <1>4, <1>5, <1>8 DEF encode_command
<1>11. /\ bytes[2] = tag /\ bytes[3] = l /\ bytes[4] = m
       /\ IF c.request_id = NoId THEN h = 4 /\ bytes[1] = 1
          ELSE h = 5 /\ bytes[1] = 2 /\ bytes[5] = c.request_id
  <2>1. 1 \in 1..h /\ 2 \in 1..h /\ 3 \in 1..h /\ 4 \in 1..h /\ (h = 5 => 5 \in 1..h)
    BY <1>7
  <2>2. /\ bytes[1] = header[1] /\ bytes[2] = header[2] /\ bytes[3] = header[3]
        /\ bytes[4] = header[4] /\ (h = 5 => bytes[5] = header[5])
    BY <1>9, <2>1
  <2> QED
    BY <1>6, <1>7, <2>2
<1>12. HeaderLen(bytes) = h
  BY <1>11 DEF HeaderLen, headerSize, requestIdFormatVersion
<1>13. WellFormed(bytes) /\ Len(bytes) >= 4
  <2>1. Len(bytes) = h + l + m /\ h + l + m >= 4
    <3>1. h + l + m >= 4
      OBVIOUS
    <3> QED
      BY <1>9, <3>1
  <2>2. bytes[1] \in {1, 2} /\ bytes[2] \in 1..3 /\ bytes[3] = l /\ bytes[4] = m
    BY <1>3, <1>11
  <2> QED
    BY <1>12, <2>1, <2>2
    DEF WellFormed, headerSize, legacyFormatVersion, requestIdFormatVersion
<1>14. (IF bytes[1] = requestIdFormatVersion THEN bytes[5] ELSE NoId) = c.request_id
  BY <1>11 DEF requestIdFormatVersion
<1>15. Read(bytes) = [type |-> c.type, key |-> c.key, value |-> c.value,
                      request_id |-> c.request_id]
  BY <1>3, <1>9, <1>11, <1>12, <1>14 DEF Read
<1>16. decode_command(bytes) = {c}
  BY <1>1, <1>13, <1>15 DEF decode_command
<1> QED
  BY <1>9, <1>10, <1>13, <1>16 DEF headerSize

\* `bytes' begins with the first n cells of r.
Begins(r, n, bytes) == n <= Len(bytes) /\ \A k \in 1..n : bytes[k] = r[k]

\* r is the record of the entry e: wherever it begins e is read, and a part of it is
\* recognised as one.
IsRecord(r, e) ==
  /\ encode_log_entry(e) = {r}
  /\ r \in Seq(Nat) /\ Len(r) # 0
  /\ \A bytes \in Seq(Nat) : Begins(r, Len(r), bytes) =>
       /\ ~Incomplete(bytes)
       /\ decode_log_entry(bytes) = {[entry |-> e, bytes_consumed |-> Len(r)]}
  /\ \A bytes \in Seq(Nat) :
       Len(bytes) < Len(r) /\ Begins(r, Len(bytes), bytes) => Incomplete(bytes)

\* A record is read as it was written, whatever follows it, and a part of it is not
\* taken for a record (encode_log_entry, decode_log_entry).
LEMMA EntryBytes ==
  ASSUME NEW i \in Nat \ {0}, NEW t \in Nat \ {0},
         NEW c \in CommandsOf(Seq(Nat), Nat), ValidContents(c),
         NEW e, e = [index |-> i, term |-> t, command |-> c]
  PROVE  \E r : IsRecord(r, e)
<1>1. PICK command \in Seq(Nat) :
        /\ encode_command(c) = {command} /\ decode_command(command) = {c}
        /\ Len(command) >= headerSize
  BY CommandBytes
<1>2. PICK m \in Nat : m = Len(command)
  BY <1>1, LenProperties
<1>3. m >= 4
  BY <1>1, <1>2 DEF headerSize
<1>4. PICK prefix : prefix = <<68, 1, 2 + m, i, t>>
  OBVIOUS
<1>5. /\ prefix \in Seq(Nat) /\ Len(prefix) = 5
      /\ prefix[1] = 68 /\ prefix[2] = 1 /\ prefix[3] = 2 + m /\ prefix[4] = i /\ prefix[5] = t
  BY <1>4
<1>6. PICK body : body = prefix \o command
  OBVIOUS
<1>7. /\ body \in Seq(Nat) /\ Len(body) = 5 + m
      /\ \A k \in 1..(5 + m) : body[k] = IF k <= 5 THEN prefix[k] ELSE command[k - 5]
  <2>1. prefix \in Seq(Nat)
    BY <1>5
  <2>2. /\ prefix \o command \in Seq(Nat) /\ Len(prefix \o command) = Len(prefix) + Len(command)
        /\ \A k \in 1..(Len(prefix) + Len(command)) :
             (prefix \o command)[k]
               = IF k <= Len(prefix) THEN prefix[k] ELSE command[k - Len(prefix)]
    BY ONLY <2>1, command \in Seq(Nat), ConcatProperties
  <2>3. Len(prefix) = 5
    BY <1>5
  <2> QED
    BY ONLY <1>2, <1>6, <2>2, <2>3
<1>8. /\ \A k \in 1..5 : body[k] = prefix[k]
      /\ \A k \in 1..m : body[5 + k] = command[k]
  <2>1. ASSUME NEW k \in 1..5 PROVE body[k] = prefix[k]
    <3>1. k \in 1..(5 + m) /\ k <= 5
      OBVIOUS
    <3> QED
      BY <1>7, <3>1
  <2>2. ASSUME NEW k \in 1..m PROVE body[5 + k] = command[k]
    <3>1. 5 + k \in 1..(5 + m) /\ ~(5 + k <= 5) /\ (5 + k) - 5 = k
      OBVIOUS
    <3> QED
      BY <1>7, <3>1
  <2> QED
    BY <2>1, <2>2
<1>9. PICK r : r = Sealed(body)
  OBVIOUS
<1>10. /\ r \in Seq(Nat) /\ Len(r) = m + 6 /\ \A k \in 1..(m + 5) : r[k] = body[k]
       /\ Body(r) = body /\ valid_checksum(r)
  <2>1. /\ r \in Seq(Nat) /\ Len(r) = Len(body) + 1 /\ \A k \in 1..Len(body) : r[k] = body[k]
        /\ Body(r) = body /\ valid_checksum(r)
    BY <1>7, <1>9, SealedBytes
  <2> QED
    BY <1>7, <2>1
<1>11. encode_log_entry(e) = {r}
  <2>1. e.index = i /\ e.term = t /\ e.command = c
    OBVIOUS
  <2>2. Sealed(<<magic, formatVersion, entryMetadataSize + Len(command), i, t>> \o command) = r
    BY <1>2, <1>4, <1>6, <1>9 DEF magic, formatVersion, entryMetadataSize
  <2>3. encode_log_entry(e) =
          {Sealed(<<magic, formatVersion, entryMetadataSize + Len(b), i, t>> \o b) : b \in {command}}
    BY <1>1, <2>1 DEF encode_log_entry
  <2> QED
    BY <2>2, <2>3
<1>12. /\ r[1] = 68 /\ r[2] = 1 /\ r[3] = 2 + m /\ r[4] = i /\ r[5] = t
       /\ \A k \in 1..m : r[5 + k] = command[k]
  <2>1. /\ 1 \in 1..(m + 5) /\ 2 \in 1..(m + 5) /\ 3 \in 1..(m + 5) /\ 4 \in 1..(m + 5)
        /\ 5 \in 1..(m + 5) /\ \A k \in 1..m : 5 + k \in 1..(m + 5)
    OBVIOUS
  <2>2. /\ r[1] = body[1] /\ r[2] = body[2] /\ r[3] = body[3] /\ r[4] = body[4] /\ r[5] = body[5]
        /\ \A k \in 1..m : r[5 + k] = body[5 + k]
    BY <1>10, <2>1
  <2>3. /\ body[1] = prefix[1] /\ body[2] = prefix[2] /\ body[3] = prefix[3]
        /\ body[4] = prefix[4] /\ body[5] = prefix[5]
    BY <1>8
  <2> QED
    BY <1>5, <1>8, <2>2, <2>3
<1>13. ASSUME NEW bytes \in Seq(Nat), Begins(r, Len(r), bytes)
       PROVE  /\ ~Incomplete(bytes)
              /\ decode_log_entry(bytes) = {[entry |-> e, bytes_consumed |-> Len(r)]}
  <2>1. PICK n \in Nat : n = Len(bytes)
    BY LenProperties
  <2>2. m + 6 <= n /\ \A k \in 1..(m + 6) : bytes[k] = r[k]
    BY <1>10, <1>13, <2>1 DEF Begins
  <2>3. /\ bytes[1] = 68 /\ bytes[2] = 1 /\ bytes[3] = 2 + m /\ bytes[4] = i /\ bytes[5] = t
        /\ \A k \in 1..m : bytes[5 + k] = command[k]
    <3>1. /\ 1 \in 1..(m + 6) /\ 2 \in 1..(m + 6) /\ 3 \in 1..(m + 6) /\ 4 \in 1..(m + 6)
          /\ 5 \in 1..(m + 6) /\ \A k \in 1..m : 5 + k \in 1..(m + 6)
      OBVIOUS
    <3> QED
      BY SMTT(30), <1>12, <2>2, <3>1
  <2>4. ~Incomplete(bytes)
    BY SMTT(30), <2>1, <2>2, <2>3
    DEF Incomplete, prefixSize, checksumSize, magic, formatVersion, entryMetadataSize, headerSize
  <2>5. prefixSize + bytes[3] + checksumSize = m + 6 /\ prefixSize + bytes[3] = m + 5
    BY <2>3 DEF prefixSize, checksumSize
  <2>6. FirstRecord(bytes) = r
    <3>1. 0 + Len(r) <= Len(bytes) /\ \A k \in 1..Len(r) : bytes[0 + k] = r[k]
      BY <1>10, <2>1, <2>2
    <3>2. SubSeq(bytes, 0 + 1, 0 + Len(r)) = r
      BY ONLY <1>10, <3>1, bytes \in Seq(Nat), PartIs
    <3> QED
      BY SMTT(30), <1>10, <2>5, <3>2 DEF FirstRecord
  <2>7. valid_checksum(FirstRecord(bytes))
    BY <1>10, <2>6
  <2>8. Sound(bytes)
    BY <1>3, <2>3, <2>4, <2>7
    DEF Sound, magic, formatVersion, entryMetadataSize, headerSize
  <2>9. SubSeq(bytes, 6, prefixSize + bytes[3]) = command
    <3>1. 5 + Len(command) <= Len(bytes) /\ \A k \in 1..Len(command) : bytes[5 + k] = command[k]
      BY <1>2, <2>1, <2>2, <2>3
    <3>2. SubSeq(bytes, 5 + 1, 5 + Len(command)) = command
      BY ONLY <1>1, <3>1, bytes \in Seq(Nat), 5 \in Nat, PartIs
    <3> QED
      BY <1>2, <2>5, <3>2
  <2>10. Consumes(bytes) = Len(r)
    BY <2>6 DEF Consumes
  <2>11. decode_log_entry(bytes) =
           {[entry |-> [index |-> i, term |-> t, command |-> d], bytes_consumed |-> Len(r)] :
              d \in {c}}
    <3>1. decode_command(SubSeq(bytes, 6, prefixSize + bytes[3])) = {c}
      BY <1>1, <2>9
    <3>2. bytes[4] = i /\ bytes[5] = t
      BY <2>3
    <3> QED
      BY <2>8, <2>10, <3>1, <3>2, Zenon DEF decode_log_entry
  <2> QED
    BY <2>4, <2>11
<1>14. ASSUME NEW bytes \in Seq(Nat), Len(bytes) < Len(r), Begins(r, Len(bytes), bytes)
       PROVE  Incomplete(bytes)
  <2>1. PICK n \in Nat : n = Len(bytes)
    BY LenProperties
  <2>2. n < m + 6 /\ \A k \in 1..n : bytes[k] = r[k]
    BY <1>10, <1>14, <2>1 DEF Begins
  <2>3. CASE n < 3
    BY <2>1, <2>3 DEF Incomplete, prefixSize
  <2>4. CASE n >= 3
    <3>1. 1 \in 1..n /\ 2 \in 1..n /\ 3 \in 1..n
      BY <2>4
    <3>2. bytes[1] = 68 /\ bytes[2] = 1 /\ bytes[3] = 2 + m
      BY <1>12, <2>2, <3>1
    <3>3. bytes[3] >= 6 /\ n < 3 + bytes[3] + 1
      BY <1>3, <2>2, <3>2
    <3> QED
      BY <2>1, <3>2, <3>3
      DEF Incomplete, prefixSize, checksumSize, magic, formatVersion, entryMetadataSize, headerSize
  <2> QED
    BY <2>3, <2>4
<1> QED
  BY SMTT(30), <1>10, <1>11, <1>13, <1>14 DEF IsRecord
=============================================================================
