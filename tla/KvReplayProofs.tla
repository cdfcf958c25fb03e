--------------------------- MODULE KvReplayProofs ---------------------------
(***************************************************************************)
(* The state machine does what the history of accepted commands means, for *)
(* every set of commands and every number of entries: repeated requests    *)
(* take no effect wherever they stand, and are answered like the first.    *)
(* And a restart rebuilds it from the bytes of the log file, or refuses a  *)
(* file that ends inside a record.                                         *)
(***************************************************************************)
EXTENDS KvRestart, KvProofs, SequenceTheorems

-----------------------------------------------------------------------------
(* The reference.                                                          *)

\* Numbers up to m, if any, have a greatest.
LEMMA GreatestMember ==
  ASSUME NEW m \in Nat, NEW W \in SUBSET (1..m), W # {}
  PROVE  \E v \in W : \A x \in W : x <= v
<1> DEFINE T == {n \in Nat : (\E x \in W : x <= n) => \E v \in W : v <= n /\ \A x \in W : x <= n => x <= v}
<1>1. 0 \in T
  <2>1. \A x \in W : ~(x <= 0)
    OBVIOUS
  <2> QED
    BY <2>1
<1>2. ASSUME NEW n \in T PROVE n + 1 \in T
  <2>1. CASE n + 1 \in W
    <3>1. n + 1 <= n + 1 /\ \A x \in W : x <= n + 1 => x <= n + 1
      OBVIOUS
    <3> QED
      BY <2>1, <3>1
  <2>2. CASE n + 1 \notin W
    <3>1. \A x \in W : x <= n + 1 <=> x <= n
      BY <2>2
    <3>2. (\E x \in W : x <= n) => \E v \in W : v <= n /\ \A x \in W : x <= n => x <= v
      OBVIOUS
    <3> QED
      BY <3>1, <3>2
  <2> QED
    BY <2>1, <2>2
<1>3. T \in SUBSET Nat
  OBVIOUS
<1>4. m \in T
  <2> HIDE DEF T
  <2> QED
    BY ONLY <1>1, <1>2, <1>3, SetInduction, m \in Nat
<1>5. \A x \in W : x <= m
  OBVIOUS
<1>6. \E x \in W : x <= m
  BY <1>5
<1>7. PICK v \in W : v <= m /\ \A x \in W : x <= m => x <= v
  BY <1>4, <1>6
<1> QED
  BY <1>5, <1>7

\* What the last of a set of writes leaves.
Latest(h, W) ==
  IF W = {} THEN Missing
  ELSE LET k == CHOOSE w \in W : \A x \in W : x <= w
       IN IF h[k].command.type = "Put" THEN h[k].command.value ELSE Missing

\* A value is what the last effective write leaves.
LEMMA ValueIsLatest ==
  ASSUME NEW h, NEW key, NEW n
  PROVE  Value(h, key, n) = Latest(h, Writes(h, key, n))
  BY DEF Value, Latest

\* What the first n entries mean does not depend on later ones.
LEMMA PrefixMeaning ==
  ASSUME NEW h, NEW h2, NEW n \in Nat, \A k \in 1..n : h2[k] = h[k]
  PROVE  /\ \A k \in 1..n : Effective(h2, k) <=> Effective(h, k)
         /\ \A key : \A m \in 0..n : Value(h2, key, m) = Value(h, key, m)
         /\ \A k \in 1..n : FirstResult(h2, k) = FirstResult(h, k)
         /\ \A id : \A m \in 0..n : Firsts(h2, id, m) = Firsts(h, id, m)
<1>1. ASSUME NEW k \in 1..n PROVE Effective(h2, k) <=> Effective(h, k)
  <2>1. \A j \in 1..(k - 1) : h2[j] = h[j]
    OBVIOUS
  <2> QED
    BY <2>1 DEF Effective
<1>2. ASSUME NEW key, NEW m \in 0..n PROVE Writes(h2, key, m) = Writes(h, key, m)
  <2>1. \A k \in 1..m : k \in 1..n
    OBVIOUS
  <2> QED
    BY <1>1, <2>1 DEF Writes
<1>3. ASSUME NEW key, NEW m \in 0..n PROVE Value(h2, key, m) = Value(h, key, m)
  <2>1. PICK W : W = Writes(h, key, m)
    OBVIOUS
  <2>2. Writes(h2, key, m) = W
    BY <1>2, <2>1
  <2>3. CASE W = {}
    BY <2>1, <2>2, <2>3 DEF Value
  <2>4. CASE W # {}
    <3>1. W \in SUBSET (1..m)
      BY <2>1 DEF Writes
    <3>2. PICK w : w = CHOOSE v \in W : \A x \in W : x <= v
      OBVIOUS
    <3>3. w \in 1..n
      <4> m \in Nat
        OBVIOUS
      <4>1. \E v \in W : \A x \in W : x <= v
        BY ONLY <2>4, <3>1, m \in Nat, GreatestMember
      <4>2. w \in W
        BY <3>2, <4>1
      <4> QED
        BY <3>1, <4>2
    <3> QED
      BY <2>1, <2>2, <2>4, <3>2, <3>3 DEF Value
  <2> QED
    BY <2>3, <2>4
<1>4. ASSUME NEW k \in 1..n PROVE FirstResult(h2, k) = FirstResult(h, k)
  <2>1. k - 1 \in 0..n
    OBVIOUS
  <2> QED
    BY <1>3, <2>1 DEF FirstResult
<1>5. ASSUME NEW id, NEW m \in 0..n PROVE Firsts(h2, id, m) = Firsts(h, id, m)
  <2>1. \A k \in 1..m : k \in 1..n
    OBVIOUS
  <2> QED
    BY <1>1, <2>1 DEF Firsts
<1> QED
  BY <1>1, <1>3, <1>4, <1>5

\* One entry more changes the value of a key if it takes effect and is about it.
LEMMA ValueStep ==
  ASSUME NEW h, NEW key, NEW n \in Nat
  PROVE  Value(h, key, n + 1) =
           IF /\ h[n + 1].command.key = key /\ h[n + 1].command.type \in {"Put", "Delete"}
              /\ Effective(h, n + 1)
             THEN IF h[n + 1].command.type = "Put" THEN h[n + 1].command.value ELSE Missing
             ELSE Value(h, key, n)
<1> DEFINE Wrote(k) == /\ h[k].command.key = key /\ h[k].command.type \in {"Put", "Delete"}
                       /\ Effective(h, k)
<1>1. 1..(n + 1) = 1..n \cup {n + 1}
  OBVIOUS
<1>2. Writes(h, key, n + 1) = {k \in 1..(n + 1) : Wrote(k)} /\ Writes(h, key, n) = {k \in 1..n : Wrote(k)}
  BY DEF Writes
<1>3. CASE Wrote(n + 1)
  <2>1. PICK W : W = Writes(h, key, n + 1)
    OBVIOUS
  <2>2. n + 1 \in W /\ \A x \in W : x \in 1..(n + 1)
    BY <1>2, <1>3, <2>1
  <2> HIDE DEF Wrote
  <2>3. (CHOOSE w \in W : \A x \in W : x <= w) = n + 1
    <3>1. \A w : w \in W /\ (\A x \in W : x <= w) <=> w = n + 1
      BY <2>2
    <3> QED
      BY <3>1
  <2>4. W # {}
    BY <2>2
  <2>5. Value(h, key, n + 1) =
          IF h[n + 1].command.type = "Put" THEN h[n + 1].command.value ELSE Missing
    <3>1. Latest(h, W) = IF h[n + 1].command.type = "Put" THEN h[n + 1].command.value ELSE Missing
      <4>1. PICK w : w = CHOOSE v \in W : \A x \in W : x <= v
        OBVIOUS
      <4>2. Latest(h, W) = IF h[w].command.type = "Put" THEN h[w].command.value ELSE Missing
        BY <2>4, <4>1 DEF Latest
      <4> QED
        BY <2>3, <4>1, <4>2
    <3> QED
      BY <2>1, <3>1, ValueIsLatest
  <2> QED
    BY <1>3, <2>5 DEF Wrote
<1>4. CASE ~Wrote(n + 1)
  <2>1. Writes(h, key, n + 1) = Writes(h, key, n)
    BY <1>1, <1>2, <1>4
  <2>2. Value(h, key, n + 1) = Value(h, key, n)
    BY <2>1, ValueIsLatest
  <2> QED
    BY <1>4, <2>2
<1> QED
  BY <1>3, <1>4

\* The first entry with an id is the one that took effect.
LEMMA FirstsIsFirst ==
  ASSUME NEW h, NEW n \in Nat, NEW id, NEW p, FirstOf(h, n, id, p), id # NoId,
         NEW m \in Nat, m >= n
  PROVE  Firsts(h, id, m) = {p.index}
<1>1. PICK f : f = p.index
  OBVIOUS
<1>2. /\ f \in 1..n /\ h[f].command.request_id = id
      /\ \A k \in 1..(f - 1) : h[k].command.request_id # id
  BY <1>1 DEF FirstOf
<1>3. f \in Firsts(h, id, m)
  BY <1>2 DEF Firsts, Effective
<1>4. ASSUME NEW k \in Firsts(h, id, m) PROVE k = f
  <2>1. /\ k \in 1..m /\ h[k].command.request_id = id
        /\ \A j \in 1..(k - 1) : h[j].command.request_id # id
    BY DEF Firsts, Effective
  <2>2. ~(f \in 1..(k - 1)) /\ ~(k \in 1..(f - 1))
    BY <1>2, <2>1
  <2> QED
    BY <1>2, <2>1, <2>2
<1> QED
  BY <1>1, <1>3, <1>4

-----------------------------------------------------------------------------
(* The invariant.                                                          *)

Accepted ==
  [command : {c \in Offered : ValidCommand(c)}, term : Nat \ {0},
   result : {"Applied", "KeyNotFound", "RequestConflict"}]

\* Entry k was answered as it should be.
FaithfulAt(h, k) ==
  h[k].result =
    IF Effective(h, k) THEN FirstResult(h, k)
    ELSE LET first == CHOOSE j \in Firsts(h, h[k].command.request_id, k) : TRUE
         IN IF h[first].command = h[k].command THEN FirstResult(h, first)
            ELSE "RequestConflict"

\* The table holds the results the requests had.
Answers(st, h) ==
  \A id \in DOMAIN st.applied_requests :
    LET p == st.applied_requests[id] IN
    p = [command |-> p.command, result |-> FirstResult(h, p.index),
         index |-> p.index, term |-> p.term]

\* The values are the ones the history means.
Holds(st, h) ==
  /\ \A key \in DOMAIN st.data : st.data[key] # Missing
  /\ \A key : get(st, key) = Value(h, key, Len(h))

Follows(st, h) ==
  /\ h \in Seq(Accepted)
  /\ Remembers(st, h, Len(h))
  /\ Answers(st, h)
  /\ Holds(st, h)
  /\ \A k \in 1..Len(h) : FaithfulAt(h, k)

KvInv == Follows(state, history)

\* What is asked of a history is not changed by an entry more.
LEMMA FaithfulPrefix ==
  ASSUME NEW h, NEW h2, NEW n \in Nat, \A k \in 1..n : h2[k] = h[k],
         NEW k \in 1..n, FaithfulAt(h, k), k \in Nat
  PROVE  FaithfulAt(h2, k)
<1>1. h2[k] = h[k] /\ k \in 0..n
  OBVIOUS
<1>2. (Effective(h2, k) <=> Effective(h, k)) /\ FirstResult(h2, k) = FirstResult(h, k)
  BY ONLY n \in Nat, \A j \in 1..n : h2[j] = h[j], k \in 1..n, PrefixMeaning
<1>3. CASE Effective(h, k)
  BY <1>1, <1>2, <1>3 DEF FaithfulAt
<1>4. CASE ~Effective(h, k)
  <2>1. PICK id : id = h[k].command.request_id
    OBVIOUS
  <2>2. PICK F : F = Firsts(h, id, k)
    OBVIOUS
  <2>3. Firsts(h2, id, k) = F
    BY ONLY n \in Nat, \A j \in 1..n : h2[j] = h[j], <1>1, <2>2, PrefixMeaning
  <2>4. PICK f : f = CHOOSE j \in F : TRUE
    OBVIOUS
  <2>5. h[k].result = IF h[f].command = h[k].command THEN FirstResult(h, f) ELSE "RequestConflict"
    BY <1>4, <2>1, <2>2, <2>4 DEF FaithfulAt
  <2>6. F # {} /\ F \in SUBSET (1..n)
    <3>1. F \in SUBSET (1..n)
      BY <2>2 DEF Firsts
    <3> DEFINE Same == {j \in 1..k : h[j].command.request_id = id}
    <3>2. k \in Same /\ Same \in SUBSET Nat
      BY <2>1
    <3>3. PICK j \in Same : \A x \in Same : j <= x
      <4> HIDE DEF Same
      <4> QED
        BY <3>2, LeastNumber
    <3>4. \A x \in 1..(j - 1) : x \in 1..k /\ x \notin Same
      BY <3>3
    <3>5. Effective(h, j)
      BY <3>4, <3>3 DEF Effective
    <3>6. j \in F
      BY <2>2, <3>5 DEF Firsts
    <3> QED
      BY <3>1, <3>6
  <2>7. f \in 1..n
    BY <2>4, <2>6
  <2>8. h2[f] = h[f] /\ FirstResult(h2, f) = FirstResult(h, f)
    BY ONLY n \in Nat, \A j \in 1..n : h2[j] = h[j], <2>7, PrefixMeaning
  <2> QED
    BY <1>1, <1>2, <1>4, <2>1, <2>3, <2>4, <2>5, <2>8 DEF FaithfulAt
<1> QED
  BY <1>3, <1>4

\* One accepted command more.
LEMMA AcceptedFollows ==
  ASSUME NEW st, NEW h, Follows(st, h), NEW c \in Offered, NEW term \in Nat \ {0}, ValidCommand(c),
         NEW made, made = apply(st, Len(h) + 1, c, term)
  PROVE  Follows(made.state, Append(h, [command |-> c, term |-> term, result |-> made.result]))
<1>1. PICK n \in Nat : n = Len(h) /\ DOMAIN h = 1..n
  BY LenProperties DEF Follows
<1>2. PICK d, t : st = [data |-> d, applied_requests |-> t, last_applied |-> n]
  BY <1>1 DEF Follows, Remembers
<1>3. st.data = d /\ st.applied_requests = t /\ st.last_applied = n
  BY <1>2
<1>4. PICK e : e = [command |-> c, term |-> term, result |-> made.result]
  OBVIOUS
<1>5. e.command = c /\ e.term = term /\ e.result = made.result
  BY <1>4
<1>6. PICK h2 : h2 = Append(h, e)
  OBVIOUS
<1>7. Len(h2) = n + 1 /\ h2[n + 1] = e /\ \A k \in 1..n : h2[k] = h[k]
  BY <1>1, <1>6, AppendProperties DEF Follows
<1>8. made.state = Feed(st, h2[n + 1])
  BY <1>1, <1>3, <1>5, <1>7 DEF Feed
<1>9. Remembers(st, h2, n)
  <2>1. \A id, p : FirstOf(h, n, id, p) => FirstOf(h2, n, id, p)
    BY <1>7 DEF FirstOf
  <2> QED
    BY <1>1, <1>7, <2>1 DEF Follows, Remembers
<1>10. Remembers(made.state, h2, n + 1)
  BY <1>5, <1>7, <1>8, <1>9, FeedRemembers
<1>11. /\ \A k \in 1..n : FirstResult(h2, k) = FirstResult(h, k)
       /\ \A key : Value(h2, key, n) = Value(h, key, n)
  <2>1. \A k \in 1..n : h2[k] = h[k]
    BY <1>7
  <2>2. \A key : \A m \in 0..n : Value(h2, key, m) = Value(h, key, m)
    BY ONLY <2>1, n \in Nat, PrefixMeaning
  <2>3. \A k \in 1..n : FirstResult(h2, k) = FirstResult(h, k)
    BY ONLY <2>1, n \in Nat, PrefixMeaning
  <2> QED
    BY <2>2, <2>3
<1>12. /\ \A key \in DOMAIN d : d[key] # Missing
       /\ \A key : Value(h2, key, n) = IF key \in DOMAIN d THEN d[key] ELSE Missing
  BY <1>1, <1>3, <1>11 DEF Follows, Holds, get
<1>13. \A k \in 1..n : FaithfulAt(h2, k)
  <2>1. ASSUME NEW k \in 1..n PROVE FaithfulAt(h2, k)
    <3>1. FaithfulAt(h, k) /\ k \in Nat
      BY <1>1 DEF Follows
    <3> QED
      BY ONLY <1>7, <3>1, k \in 1..n, n \in Nat, FaithfulPrefix
  <2> QED
    BY <2>1
<1>14. /\ NoId \notin DOMAIN t
       /\ \A k \in 1..n : h2[k].command.request_id # NoId => h2[k].command.request_id \in DOMAIN t
       /\ \A id \in DOMAIN t : FirstOf(h2, n, id, t[id])
  BY <1>3, <1>9 DEF Remembers
<1>15. \A id \in DOMAIN t :
         t[id] = [command |-> t[id].command, result |-> FirstResult(h2, t[id].index),
                  index |-> t[id].index, term |-> t[id].term]
  BY <1>3, <1>11, <1>14 DEF Follows, Answers, FirstOf
<1>16. ASSUME made.result \in {"Applied", "KeyNotFound", "RequestConflict"},
              Answers(made.state, h2), Holds(made.state, h2), FaithfulAt(h2, n + 1)
       PROVE  Follows(made.state, h2)
  <2>1. e \in Accepted
    BY <1>4, <1>16 DEF Accepted
  <2>2. h2 \in Seq(Accepted)
    BY <1>6, <2>1, AppendProperties DEF Follows
  <2>3. \A k \in 1..(n + 1) : FaithfulAt(h2, k)
    BY <1>13, <1>16
  <2> QED
    BY <1>7, <1>10, <1>16, <2>2, <2>3 DEF Follows
<1>17. CASE c.request_id \in DOMAIN t
  <2>1. PICK p : p = t[c.request_id]
    OBVIOUS
  <2>2. /\ made.result = IF p.command = c THEN p.result ELSE "RequestConflict"
        /\ made.state = [st EXCEPT !.last_applied = n + 1]
    BY <1>1, <1>3, <1>17, <2>1 DEF apply, request_result
  <2>3. made.state = [data |-> d, applied_requests |-> t, last_applied |-> n + 1]
    BY <1>2, <2>2
  <2>4. c.request_id # NoId /\ FirstOf(h2, n, c.request_id, p) /\ p.result = FirstResult(h2, p.index)
    BY <1>14, <1>15, <1>17, <2>1
  <2>5. ~Effective(h2, n + 1)
    BY <1>5, <1>7, <2>4 DEF FirstOf, Effective
  <2>6. Firsts(h2, c.request_id, n + 1) = {p.index}
    <3>1. n + 1 \in Nat /\ n + 1 >= n
      OBVIOUS
    <3> QED
      BY ONLY <2>4, <3>1, n \in Nat, FirstsIsFirst
  <2>7. FaithfulAt(h2, n + 1)
    <3>1. PICK F : F = Firsts(h2, c.request_id, n + 1)
      OBVIOUS
    <3>2. PICK f : f = CHOOSE j \in F : TRUE
      OBVIOUS
    <3>3. f = p.index /\ h2[f].command = p.command
      BY <2>4, <2>6, <3>1, <3>2 DEF FirstOf
    <3>4. FaithfulAt(h2, n + 1) <=>
            h2[n + 1].result = IF h2[f].command = c THEN FirstResult(h2, f) ELSE "RequestConflict"
      BY <1>5, <1>7, <2>5, <3>1, <3>2 DEF FaithfulAt
    <3> QED
      BY <1>5, <1>7, <2>2, <2>4, <3>3, <3>4
  <2>8. Answers(made.state, h2)
    BY <1>15, <2>3 DEF Answers
  <2>9. Holds(made.state, h2)
    <3>1. \A key : Value(h2, key, n + 1) = Value(h2, key, n)
      BY <2>5, ValueStep
    <3> QED
      BY <1>7, <1>12, <2>3, <3>1 DEF Holds, get
  <2>10. made.result \in {"Applied", "KeyNotFound", "RequestConflict"}
    BY <2>2, <2>4 DEF FirstResult
  <2> QED
    BY <1>4, <1>6, <1>16, <2>7, <2>8, <2>9, <2>10
<1>18. CASE c.request_id \notin DOMAIN t
  <2>1. made = Executed(st, n + 1, c, term)
    BY <1>1, <1>3, <1>18 DEF apply
  <2>2. made.result = Outcome(d, c) /\ made.state.data = Stored(d, c)
    BY <1>3, <2>1 DEF Executed
  <2>3. Effective(h2, n + 1)
    BY <1>5, <1>7, <1>14, <1>18 DEF Effective
  <2>4. FirstResult(h2, n + 1) = Outcome(d, c)
    <3>1. n + 1 - 1 = n
      OBVIOUS
    <3>2. Value(h2, c.key, n) = Missing <=> c.key \notin DOMAIN d
      BY <1>12
    <3> QED
      BY <1>5, <1>7, <3>1, <3>2 DEF FirstResult, Outcome
  <2>5. FaithfulAt(h2, n + 1)
    BY <1>5, <1>7, <2>2, <2>3, <2>4 DEF FaithfulAt
  <2>6. Answers(made.state, h2)
    <3>1. PICK p : p = [command |-> c, result |-> Outcome(d, c), index |-> n + 1, term |-> term]
      OBVIOUS
    <3>2. p = [command |-> p.command, result |-> FirstResult(h2, p.index),
               index |-> p.index, term |-> p.term]
      BY <2>4, <3>1
    <3>3. made.state.applied_requests = IF c.request_id = NoId THEN t ELSE Inserted(t, c.request_id, p)
      BY <1>3, <2>1, <3>1 DEF Executed
    <3>4. ASSUME NEW id \in DOMAIN made.state.applied_requests
          PROVE  \/ made.state.applied_requests[id] = p
                 \/ id \in DOMAIN t /\ made.state.applied_requests[id] = t[id]
      BY <3>3 DEF Inserted
    <3> QED
      BY <1>15, <3>2, <3>4 DEF Answers
  <2>7. Holds(made.state, h2)
    <3>1. \A key : Value(h2, key, n + 1) =
            IF c.key = key /\ c.type \in {"Put", "Delete"}
              THEN IF c.type = "Put" THEN c.value ELSE Missing
              ELSE Value(h2, key, n)
      BY <1>5, <1>7, <2>3, ValueStep
    <3>2. c.type = "Put" => c.value # Missing
      BY OfferedAssumption
    <3>3. CASE c.type = "Put"
      <4>1. made.state.data = Inserted(d, c.key, c.value)
        BY <2>2, <3>3 DEF Stored
      <4> QED
        BY <1>7, <1>12, <3>1, <3>2, <3>3, <4>1 DEF Holds, get, Inserted
    <3>4. CASE c.type = "Delete"
      <4>1. made.state.data = [k \in DOMAIN d \ {c.key} |-> d[k]]
        BY <2>2, <3>4 DEF Stored
      <4> QED
        BY <1>7, <1>12, <3>1, <3>4, <4>1 DEF Holds, get
    <3>5. CASE c.type \notin {"Put", "Delete"}
      <4>1. made.state.data = d
        BY <2>2, <3>5 DEF Stored
      <4> QED
        BY <1>7, <1>12, <3>1, <3>5, <4>1 DEF Holds, get
    <3> QED
      BY <3>3, <3>4, <3>5
  <2>8. made.result \in {"Applied", "KeyNotFound", "RequestConflict"}
    BY <2>2 DEF Outcome
  <2> QED
    BY <1>4, <1>6, <1>16, <2>5, <2>6, <2>7, <2>8
<1> QED
  BY <1>17, <1>18

-----------------------------------------------------------------------------
(* The theorems.                                                           *)

\* A call that is not accepted changes nothing; one that is extends the history.
LEMMA CallFollows ==
  ASSUME KvInv, NEW index, NEW c \in Offered, NEW term \in Nat \ {0}, Call(index, c, term)
  PROVE  KvInv'
<1>1. PICK made : made = apply(state, index, c, term)
  OBVIOUS
<1>2. state' = made.state
  BY <1>1 DEF Call
<1>3. CASE index # state.last_applied + 1 \/ ~ValidCommand(c)
  <2>1. made.state = state
    BY <1>1, <1>3 DEF apply
  <2>2. history' = history
    BY <1>1, <2>1 DEF Call
  <2> QED
    BY <1>2, <2>1, <2>2 DEF KvInv
<1>4. CASE index = state.last_applied + 1 /\ ValidCommand(c)
  <2>1. state.last_applied = Len(history)
    BY DEF KvInv, Follows, Remembers
  <2>2. made = apply(state, Len(history) + 1, c, term)
    BY <1>1, <1>4, <2>1
  <2>3. PICK h2 : h2 = Append(history, [command |-> c, term |-> term, result |-> made.result])
    OBVIOUS
  <2>4. Follows(made.state, h2)
    BY <1>4, <2>2, <2>3, AcceptedFollows DEF KvInv
  <2>5. history' = h2
    <3>1. Len(h2) = Len(history) + 1 /\ Len(history) \in Nat
      BY <2>3, AppendProperties, LenProperties DEF KvInv, Follows
    <3>2. made.state.last_applied = Len(h2)
      BY <2>4 DEF Follows, Remembers
    <3>3. made.state.last_applied # state.last_applied
      BY <2>1, <3>1, <3>2
    <3> QED
      BY <1>1, <2>3, <3>3 DEF Call
  <2> QED
    BY <1>2, <2>4, <2>5 DEF KvInv
<1> QED
  BY <1>3, <1>4

\* At every call the object follows the history it has accepted: of each request
\* id it remembers the first entry and the result that entry had, and it holds
\* the values the history means (KvStateMachine::apply).
THEOREM StateFollowsHistory == Spec => []KvInv
<1>1. Init => KvInv
  <2> SUFFICES ASSUME Init PROVE Follows(NewState, <<>>)
    BY DEF Init, KvInv
  <2>1. NewState = [data |-> <<>>, applied_requests |-> <<>>, last_applied |-> 0]
    BY DEF NewState
  <2>2. DOMAIN <<>> = {} /\ Len(<<>>) = 0 /\ <<>> \in Seq(Accepted)
    OBVIOUS
  <2>3. \A key : Value(<<>>, key, 0) = Missing
    <3>1. \A key : Writes(<<>>, key, 0) = {}
      BY DEF Writes
    <3> QED
      BY <3>1 DEF Value
  <2>4. Remembers(NewState, <<>>, 0) /\ Answers(NewState, <<>>)
    BY <2>1, <2>2 DEF Remembers, Answers
  <2>5. Holds(NewState, <<>>)
    BY <2>1, <2>2, <2>3 DEF Holds, get
  <2> QED
    BY <2>2, <2>4, <2>5 DEF Follows
<1>2. KvInv /\ [Next]_kvars => KvInv'
  <2> SUFFICES ASSUME KvInv, [Next]_kvars PROVE KvInv'
    OBVIOUS
  <2>1. CASE Next
    <3>1. Len(history) \in Nat
      BY LenProperties DEF KvInv, Follows
    <3>2. 1 + Len(history) \div 2 \in Nat \ {0}
      BY <3>1
    <3>3. PICK index \in state.last_applied..(state.last_applied + 2), c \in Offered :
            Call(index, c, 1 + Len(history) \div 2)
      BY <2>1 DEF Next
    <3> QED
      BY <3>2, <3>3, CallFollows
  <2>2. CASE UNCHANGED kvars
    BY <2>2 DEF KvInv, kvars
  <2> QED
    BY <2>1, <2>2
<1> QED
  BY <1>1, <1>2, PTL DEF Spec

\* The values stored are those the effective writes leave, for every key ever
\* written or asked for (data_).
THEOREM StoreFollowsWrites == Spec => []StoreIsEffectiveWrites
<1>1. KvInv => StoreIsEffectiveWrites
  BY DEF KvInv, Follows, Remembers, Holds, StoreIsEffectiveWrites
<1> QED
  BY <1>1, StateFollowsHistory, PTL

\* A retried request is answered with the index, term and result of its first entry
\* (applied_requests_).
THEOREM TableNamesFirst == Spec => []RequestsNameFirstEntry
<1>1. ASSUME KvInv, NEW id \in Ids
      PROVE  LET at == Firsts(history, id, Len(history)) IN
             request_result(state, id) =
               IF at = {} THEN Missing
               ELSE LET k == CHOOSE k \in at : TRUE IN
                    [command |-> history[k].command, result |-> FirstResult(history, k),
                     index |-> k, term |-> history[k].term]
  <2>1. PICK n \in Nat : n = Len(history)
    BY <1>1, LenProperties DEF KvInv, Follows
  <2>2. PICK F : F = Firsts(history, id, Len(history))
    OBVIOUS
  <2>3. id # NoId
    BY DEF Ids
  <2>4. Remembers(state, history, n) /\ Answers(state, history)
    BY <1>1, <2>1 DEF KvInv, Follows
  <2>5. CASE id \in DOMAIN state.applied_requests
    <3>1. PICK p : p = state.applied_requests[id]
      OBVIOUS
    <3>2. FirstOf(history, n, id, p)
      BY <2>4, <2>5, <3>1 DEF Remembers
    <3>3. p = [command |-> p.command, result |-> FirstResult(history, p.index),
               index |-> p.index, term |-> p.term]
      BY <2>4, <2>5, <3>1 DEF Answers
    <3>4. F = {p.index}
      <4>1. n >= n
        OBVIOUS
      <4>2. Firsts(history, id, n) = {p.index}
        BY ONLY <2>3, <3>2, <4>1, n \in Nat, FirstsIsFirst
      <4> QED
        BY <2>1, <2>2, <4>2
    <3>5. PICK f : f = CHOOSE k \in F : TRUE
      OBVIOUS
    <3>6. f = p.index /\ history[f].command = p.command /\ history[f].term = p.term
      BY <3>2, <3>4, <3>5 DEF FirstOf
    <3>7. p = [command |-> history[f].command, result |-> FirstResult(history, f),
               index |-> f, term |-> history[f].term]
      BY <3>3, <3>6
    <3>8. request_result(state, id) = p /\ F # {}
      BY <2>5, <3>1, <3>4 DEF request_result
    <3> QED
      BY <2>2, <3>5, <3>7, <3>8
  <2>6. CASE id \notin DOMAIN state.applied_requests
    <3>1. F = {}
      BY <2>1, <2>2, <2>3, <2>4, <2>6 DEF Firsts, Remembers
    <3> QED
      BY <2>2, <2>6, <3>1 DEF request_result
  <2> QED
    BY <2>5, <2>6
<1>2. KvInv => RequestsNameFirstEntry
  BY <1>1 DEF RequestsNameFirstEntry
<1> QED
  BY <1>2, StateFollowsHistory, PTL

\* Every accepted command was answered with what it did, with what the first of its
\* request did, or with the conflict (the result of KvStateMachine::apply).
THEOREM AnswersAreFaithful == Spec => []ResultsFaithful
<1>1. KvInv => ResultsFaithful
  BY DEF KvInv, Follows, FaithfulAt, ResultsFaithful
<1> QED
  BY <1>1, StateFollowsHistory, PTL

\* The object is what a replay of its history makes of a new one.
Rebuilt == Replay(history) = state

\* A restart that reads the same entries back rebuilds the very state the server
\* had: values, request ids, indices, terms and results (apply_committed from an
\* empty KvStateMachine). That they are read back is shown below.
THEOREM ReplayRebuilds == Spec => []Rebuilt
<1>1. Init => Rebuilt
  <2>1. PICK g : Steps(<<>>, Len(<<>>), g) /\ Replay(<<>>) = g[Len(<<>>)]
    BY ReplayIsLast
  <2>2. Len(<<>>) = 0
    OBVIOUS
  <2>3. g[0] = NewState
    BY <2>1, <2>2 DEF Steps
  <2> QED
    BY <2>1, <2>2, <2>3 DEF Init, Rebuilt
<1>2. KvInv /\ Rebuilt /\ [Next]_kvars => Rebuilt'
  <2> SUFFICES ASSUME KvInv, Rebuilt, Next PROVE Rebuilt'
    BY DEF kvars, Rebuilt
  <2>1. PICK n \in Nat : n = Len(history) /\ DOMAIN history = 1..n
    BY LenProperties DEF KvInv, Follows
  <2>2. PICK index, c, term : index \in Nat /\ c \in Offered /\ Call(index, c, term)
    <3>1. state.last_applied = n
      BY <2>1 DEF KvInv, Follows, Remembers
    <3> QED
      BY <3>1 DEF Next
  <2>3. PICK made : made = apply(state, index, c, term)
    OBVIOUS
  <2>4. state' = made.state
    BY <2>2, <2>3 DEF Call
  <2>5. state.last_applied = n
    BY <2>1 DEF KvInv, Follows, Remembers
  <2>6. CASE made.state.last_applied = n
    <3>1. made.state = state
      <4>1. CASE index # n + 1 \/ ~ValidCommand(c)
        BY <2>3, <2>5, <4>1 DEF apply
      <4>2. CASE index = n + 1 /\ ValidCommand(c)
        <5>1. PICK d, t : state = [data |-> d, applied_requests |-> t, last_applied |-> n]
          BY <2>1 DEF KvInv, Follows, Remembers
        <5>2. made.state.last_applied = n + 1
          BY <2>3, <4>2, <5>1 DEF apply, Executed
        <5> QED
          BY <2>6, <5>2
      <4> QED
        BY <4>1, <4>2
    <3>2. history' = history
      BY <2>2, <2>3, <2>5, <2>6 DEF Call
    <3> QED
      BY <2>4, <3>1, <3>2 DEF Rebuilt
  <2>7. CASE made.state.last_applied # n
    <3>1. index = n + 1
      BY <2>3, <2>5, <2>7 DEF apply
    <3>2. PICK e : e = [command |-> c, term |-> term, result |-> made.result]
      OBVIOUS
    <3>3. PICK h2 : h2 = Append(history, e)
      OBVIOUS
    <3>4. history' = h2
      BY <2>2, <2>3, <2>5, <2>7, <3>2, <3>3 DEF Call
    <3>5. Len(h2) = n + 1 /\ h2[n + 1] = e /\ \A k \in 1..n : h2[k] = history[k]
      BY <2>1, <3>3 DEF KvInv, Follows
    <3>6. made.state = Feed(state, e)
      BY <2>3, <2>5, <3>1, <3>2 DEF Feed
    <3>7. Replay(h2) = Feed(Replay(history), h2[n + 1])
      BY <2>1, <3>5, ReplayStep
    <3> QED
      BY <2>4, <3>4, <3>5, <3>6, <3>7 DEF Rebuilt
  <2> QED
    BY <2>6, <2>7
<1> QED
  BY <1>1, <1>2, StateFollowsHistory, PTL DEF Spec

-----------------------------------------------------------------------------
(* The file.                                                               *)

LOCAL INSTANCE SequencesExt

\* The bytes append has written for accepted command k.
RecordOf(k) == CHOOSE bytes \in encode_log_entry(Entry(k)) : TRUE

\* The first k accepted commands as entries.
EntriesTo(k) == [j \in 1..k |-> Entry(j)]

\* Every accepted command has a record.
LEMMA AcceptedRecorded ==
  ASSUME KvInv, NEW k \in 1..Len(history)
  PROVE  IsRecord(RecordOf(k), Entry(k))
<1>1. PICK h : h = history[k]
  OBVIOUS
<1>2. h \in Accepted
  BY <1>1, ElementOfSeq DEF KvInv, Follows
<1>3. h.command \in Offered /\ ValidCommand(h.command) /\ h.term \in Nat \ {0}
  BY <1>2 DEF Accepted
<1>4. PICK c : c = h.command
  OBVIOUS
<1>5. c \in CommandsOf(Seq(Nat), Nat)
  BY <1>3, <1>4, TextAssumption
<1>6. ValidContents(c)
  <2>1. ValidCommand(c)
    BY <1>3, <1>4
  <2> QED
    BY <2>1, TextAssumption DEF ValidCommand, ValidContents
<1>7. k \in Nat \ {0}
  BY LenProperties DEF KvInv, Follows
<1>8. PICK t \in Nat \ {0} : t = h.term
  BY <1>3
<1>9. PICK e : e = [index |-> k, term |-> t, command |-> c]
  OBVIOUS
<1>10. Entry(k) = e
  BY <1>1, <1>4, <1>8, <1>9 DEF Entry
<1>11. PICK r : IsRecord(r, e)
  BY ONLY <1>5, <1>6, <1>7, <1>9, t \in Nat \ {0}, EntryBytes
<1>12. RecordOf(k) = r
  BY <1>10, <1>11 DEF RecordOf, IsRecord
<1> QED
  BY <1>10, <1>11, <1>12

\* The file of one command more has its record behind the others (append).
LEMMA FileGrows ==
  ASSUME KvInv
  PROVE  /\ Len(history) \in Nat /\ File(0) = <<>>
         /\ \A k \in 0..Len(history) : File(k) \in Seq(Nat)
         /\ \A k \in 0..Len(history) :
              k < Len(history) => File(k + 1) = File(k) \o RecordOf(k + 1)
<1>1. PICK n \in Nat : n = Len(history)
  BY LenProperties DEF KvInv, Follows
<1>2. \A k \in 1..n : RecordOf(k) \in Seq(Nat)
  BY <1>1, AcceptedRecorded DEF IsRecord
<1> DEFINE s(k) == [j \in 1..k |-> RecordOf(j)]
<1>3. \A k : File(k) = FlattenSeq(s(k))
  BY DEF File, RecordOf
<1>4. ASSUME NEW k \in 0..n PROVE s(k) \in Seq(Seq(Nat))
  <2>1. PICK U : U = Seq(Nat)
    OBVIOUS
  <2>2. s(k) \in [1..k -> U] /\ k \in Nat
    BY <1>2, <2>1
  <2>3. s(k) \in Seq(U)
    BY <2>2, SeqDef
  <2> QED
    BY <2>1, <2>3
<1>5. ASSUME NEW k \in 0..n, k < n PROVE s(k + 1) = Append(s(k), RecordOf(k + 1))
  <2>1. k \in Nat /\ Len(s(k)) = k
    OBVIOUS
  <2> QED
    BY <2>1
<1>6. File(0) = <<>>
  <2>1. s(0) = <<>> /\ Len(s(0)) = 0
    OBVIOUS
  <2> QED
    BY <1>3, <2>1 DEF FlattenSeq
<1> HIDE DEF s
<1>7. ASSUME NEW k \in 0..n, k < n PROVE File(k + 1) = File(k) \o RecordOf(k + 1)
  <2>1. s(k) \in Seq(Seq(Nat)) /\ RecordOf(k + 1) \in Seq(Nat)
    BY <1>2, <1>4, <1>7
  <2>2. FlattenSeq(Append(s(k), RecordOf(k + 1))) = FlattenSeq(s(k)) \o RecordOf(k + 1)
    BY ONLY <2>1, FlattenStep
  <2> QED
    BY <1>3, <1>5, <1>7, <2>2
<1> DEFINE T == {k \in Nat : k <= n => File(k) \in Seq(Nat)}
<1>8. 0 \in T
  BY <1>6, EmptySeq
<1>9. ASSUME NEW k \in T PROVE k + 1 \in T
  <2>1. ASSUME k + 1 <= n PROVE File(k + 1) \in Seq(Nat)
    <3>1. File(k) \in Seq(Nat) /\ k \in 0..n /\ k < n /\ k + 1 \in 1..n
      BY <2>1
    <3>2. File(k + 1) = File(k) \o RecordOf(k + 1) /\ RecordOf(k + 1) \in Seq(Nat)
      BY <1>2, <1>7, <3>1
    <3> QED
      BY <3>1, <3>2, ConcatProperties
  <2> QED
    BY <2>1
<1>10. T \in SUBSET Nat
  OBVIOUS
<1> HIDE DEF T
<1>11. T = Nat
  BY ONLY <1>8, <1>9, <1>10, SetInduction
<1>12. \A k \in 0..n : File(k) \in Seq(Nat)
  BY <1>11 DEF T
<1> QED
  BY <1>1, <1>6, <1>7, <1>12

\* Every file begins with the file of fewer commands, and each of them takes a cell.
LEMMA FileBegins ==
  ASSUME KvInv, NEW j \in 0..Len(history), NEW k \in 0..Len(history), j <= k
  PROVE  Begins(File(j), Len(File(j)), File(k)) /\ j <= Len(File(j)) /\ Len(File(j)) \in Nat
<1>1. PICK n \in Nat : n = Len(history)
  BY FileGrows
<1>2. \A m \in 0..n : File(m) \in Seq(Nat)
  BY <1>1, FileGrows
<1>3. ASSUME NEW m \in 0..n, m < n
      PROVE  Begins(File(m), Len(File(m)), File(m + 1)) /\ Len(File(m)) < Len(File(m + 1))
  <2>1. PICK f, r : f = File(m) /\ r = RecordOf(m + 1)
    OBVIOUS
  <2>2. f \in Seq(Nat) /\ r \in Seq(Nat) /\ Len(r) # 0
    <3>1. IsRecord(r, Entry(m + 1))
      BY <1>1, <1>3, <2>1, AcceptedRecorded
    <3> QED
      BY <1>2, <2>1, <3>1 DEF IsRecord
  <2>3. File(m + 1) = f \o r
    BY <1>1, <1>3, <2>1, FileGrows
  <2>4. PICK l \in Nat, q \in Nat : l = Len(f) /\ q = Len(r)
    BY <2>2, LenProperties
  <2>5. Len(f \o r) = l + q /\ \A i \in 1..(l + q) : (f \o r)[i] = IF i <= l THEN f[i] ELSE r[i - l]
    BY <2>2, <2>4, ConcatProperties
  <2>6. \A i \in 1..l : (f \o r)[i] = f[i]
    BY <2>5
  <2>7. q # 0
    BY <2>2, <2>4
  <2> QED
    BY <2>1, <2>3, <2>4, <2>5, <2>6, <2>7 DEF Begins
<1>4. \A m \in 0..n : Len(File(m)) \in Nat
  BY <1>2, LenProperties
<1> DEFINE T == {m \in Nat : m <= n => m <= Len(File(m))}
           U == {m \in Nat : j <= m /\ m <= n => Begins(File(j), Len(File(j)), File(m))}
<1>5. T = Nat
  <2>1. 0 \in T
    BY <1>4
  <2>2. ASSUME NEW m \in T PROVE m + 1 \in T
    <3>1. ASSUME m + 1 <= n PROVE m + 1 <= Len(File(m + 1))
      <4>1. m \in 0..n /\ m < n /\ m + 1 \in 0..n
        BY <3>1
      <4> QED
        BY <1>3, <1>4, <4>1
    <3> QED
      BY <3>1
  <2>3. T \in SUBSET Nat
    OBVIOUS
  <2> HIDE DEF T
  <2> QED
    BY ONLY <2>1, <2>2, <2>3, SetInduction
<1>6. U = Nat
  <2>1. \A m \in 0..n : Begins(File(m), Len(File(m)), File(m))
    BY <1>4 DEF Begins
  <2>2. 0 \in U
    BY <1>1, <2>1
  <2>3. ASSUME NEW m \in U PROVE m + 1 \in U
    <3>1. ASSUME j <= m + 1, m + 1 <= n PROVE Begins(File(j), Len(File(j)), File(m + 1))
      <4>1. CASE j = m + 1
        BY <1>1, <2>1, <4>1
      <4>2. CASE j # m + 1
        <5>1. m \in 0..n /\ m < n /\ j <= m /\ m + 1 \in 0..n /\ j \in 0..n
          BY <1>1, <3>1, <4>2
        <5>2. Begins(File(j), Len(File(j)), File(m)) /\ Begins(File(m), Len(File(m)), File(m + 1))
          BY <1>3, <5>1
        <5> QED
          BY <1>4, <5>1, <5>2 DEF Begins
      <4> QED
        BY <4>1, <4>2
    <3> QED
      BY <3>1
  <2>4. U \in SUBSET Nat
    OBVIOUS
  <2> HIDE DEF U
  <2> QED
    BY ONLY <2>2, <2>3, <2>4, SetInduction
<1> QED
  BY <1>1, <1>4, <1>5, <1>6

-----------------------------------------------------------------------------
(* Opening a file.                                                         *)

\* What open has read before its first turn.
NothingRead == [offset |-> 0, entries |-> <<>>, error |-> "None"]

\* g gives what open has read of the bytes after each turn.
Turns(bytes, n, g) ==
  g = [k \in 0..n |-> IF k = 0 THEN NothingRead ELSE ReadEntry(bytes, g[k - 1])]

\* There is such a function.
LEMMA TurnsExist ==
  ASSUME NEW bytes, NEW n \in Nat
  PROVE  \E g : Turns(bytes, n, g)
<1> DEFINE T == {m \in Nat : \E g : Turns(bytes, m, g)}
<1>1. 0 \in T
  <2>1. Turns(bytes, 0, [k \in 0..0 |-> NothingRead])
    BY DEF Turns
  <2> QED
    BY <2>1
<1>2. ASSUME NEW m \in T PROVE m + 1 \in T
  <2>1. PICK g : Turns(bytes, m, g)
    OBVIOUS
  <2> DEFINE h == [k \in 0..(m + 1) |-> IF k = m + 1 THEN ReadEntry(bytes, g[m]) ELSE g[k]]
  <2>2. ASSUME NEW k \in 0..(m + 1)
        PROVE  h[k] = IF k = 0 THEN NothingRead ELSE ReadEntry(bytes, h[k - 1])
    <3>1. CASE k = m + 1
      <4>1. h[m] = g[m] /\ h[k] = ReadEntry(bytes, g[m]) /\ k - 1 = m /\ k # 0
        BY <3>1
      <4> QED
        BY <4>1
    <3>2. CASE k \in 0..m
      <4>1. h[k] = g[k] /\ (k # 0 => h[k - 1] = g[k - 1])
        BY <3>2
      <4>2. g[k] = IF k = 0 THEN NothingRead ELSE ReadEntry(bytes, g[k - 1])
        BY <2>1, <3>2 DEF Turns
      <4> QED
        BY <4>1, <4>2
    <3> QED
      BY <3>1, <3>2
  <2>3. h = [k \in 0..(m + 1) |-> h[k]]
    OBVIOUS
  <2> HIDE DEF h
  <2>4. h = [k \in 0..(m + 1) |-> IF k = 0 THEN NothingRead ELSE ReadEntry(bytes, h[k - 1])]
    BY <2>2, <2>3
  <2>5. Turns(bytes, m + 1, h)
    BY <2>4 DEF Turns
  <2> QED
    BY <2>5
<1>3. T \in SUBSET Nat
  OBVIOUS
<1> HIDE DEF T
<1>4. T = Nat
  BY ONLY <1>1, <1>2, <1>3, SetInduction
<1> QED
  BY <1>4 DEF T

\* open returns what it has read in the end.
LEMMA OpenIsLast ==
  ASSUME NEW bytes, Len(bytes) \in Nat
  PROVE  \E g : /\ Turns(bytes, Len(bytes), g)
                /\ open(bytes) = [error |-> g[Len(bytes)].error,
                                  entries |-> IF g[Len(bytes)].error = "None"
                                                THEN g[Len(bytes)].entries ELSE <<>>]
<1>1. PICK g : Turns(bytes, Len(bytes), g)
  BY TurnsExist
<1> QED
  BY <1>1 DEF Turns, open, NothingRead

\* Once it has read everything, or met an error, nothing changes.
LEMMA TurnsEnd ==
  ASSUME NEW bytes, NEW n \in Nat, NEW g, Turns(bytes, n, g), NEW m \in 0..n,
         g[m].offset = Len(bytes) \/ g[m].error # "None"
  PROVE  g[n] = g[m]
<1> DEFINE T == {k \in Nat : m <= k /\ k <= n => g[k] = g[m]}
<1>1. 0 \in T
  OBVIOUS
<1>2. ASSUME NEW k \in T PROVE k + 1 \in T
  <2>1. ASSUME m <= k, k + 1 <= n PROVE g[k + 1] = g[m]
    <3>1. g[k] = g[m]
      BY <2>1
    <3>2. g[k + 1] = ReadEntry(bytes, g[k])
      BY <2>1 DEF Turns
    <3> QED
      BY <3>1, <3>2 DEF ReadEntry
  <2>2. m <= k + 1 /\ k + 1 <= n => m = k + 1 \/ m <= k
    OBVIOUS
  <2> QED
    BY <2>1, <2>2
<1>3. T \in SUBSET Nat
  OBVIOUS
<1>4. n \in T
  <2> HIDE DEF T
  <2> QED
    BY ONLY <1>1, <1>2, <1>3, SetInduction, n \in Nat
<1> QED
  BY <1>4

\* What remains of the bytes after the file of k commands.
LEMMA Remains ==
  ASSUME NEW bytes \in Seq(Nat), NEW f \in Seq(Nat), NEW r \in Seq(Nat),
         Begins(f, Len(f), bytes),
         NEW n \in 0..Len(r), Begins(f \o r, Len(f) + n, bytes),
         NEW rest, rest = SubSeq(bytes, Len(f) + 1, Len(bytes))
  PROVE  rest \in Seq(Nat) /\ Len(rest) = Len(bytes) - Len(f) /\ Begins(r, n, rest)
<1>1. PICK l \in Nat, m \in Nat, q \in Nat : l = Len(f) /\ m = Len(bytes) /\ q = Len(r)
  BY LenProperties
<1>2. l <= m
  BY <1>1 DEF Begins
<1>3. l + 1 \in Int /\ m \in Int /\ \A i \in (l + 1)..m : bytes[i] \in Nat
  <2>1. \A i \in (l + 1)..m : i \in 1..m
    OBVIOUS
  <2> QED
    BY SMTT(30), <1>1, <2>1, ElementOfSeq
<1>4. /\ rest \in Seq(Nat)
      /\ Len(rest) = IF l + 1 <= m THEN m - (l + 1) + 1 ELSE 0
      /\ \A i \in 1..(m - (l + 1) + 1) : rest[i] = bytes[(l + 1) + i - 1]
  <2>1. rest = SubSeq(bytes, l + 1, m)
    BY <1>1
  <2> QED
    BY ONLY <1>3, <2>1, SubSeqProperties
<1>5. Len(rest) = m - l /\ \A i \in 1..(m - l) : rest[i] = bytes[l + i]
  <2>1. Len(rest) = m - l
    <3>1. (IF l + 1 <= m THEN m - (l + 1) + 1 ELSE 0) = m - l
      BY <1>2
    <3> QED
      BY <1>4, <3>1
  <2>2. ASSUME NEW i \in 1..(m - l) PROVE rest[i] = bytes[l + i]
    <3>1. i \in 1..(m - (l + 1) + 1) /\ (l + 1) + i - 1 = l + i
      OBVIOUS
    <3> QED
      BY <1>4, <3>1
  <2> QED
    BY <2>1, <2>2
<1>6. \A i \in 1..q : (f \o r)[l + i] = r[i]
  <2>1. \A i \in 1..(l + q) : (f \o r)[i] = IF i <= l THEN f[i] ELSE r[i - l]
    BY <1>1, ConcatProperties
  <2>2. \A i \in 1..q : l + i \in 1..(l + q) /\ ~(l + i <= l) /\ (l + i) - l = i
    OBVIOUS
  <2> QED
    BY <2>1, <2>2
<1>7. Begins(r, n, rest)
  <2>1. n \in 0..q /\ l + n <= m /\ \A i \in 1..(l + n) : bytes[i] = (f \o r)[i]
    BY <1>1 DEF Begins
  <2>2. \A i \in 1..n : rest[i] = r[i]
    <3> TAKE i \in 1..n
    <3>1. i \in 1..(m - l) /\ l + i \in 1..(l + n) /\ i \in 1..q
      BY <2>1
    <3> QED
      BY <1>5, <1>6, <2>1, <3>1
  <2> QED
    BY SMTT(30), <1>5, <2>1, <2>2 DEF Begins
<1> QED
  BY <1>1, <1>4, <1>5, <1>7

\* Each turn reads the next record, as long as the bytes begin with whole records.
LEMMA TurnsRead ==
  ASSUME KvInv, NEW bytes \in Seq(Nat), NEW t \in 0..Len(history),
         Begins(File(t), Len(File(t)), bytes), NEW g, Turns(bytes, Len(bytes), g)
  PROVE  /\ t \in 0..Len(bytes)
         /\ g[t] = [offset |-> Len(File(t)), entries |-> EntriesTo(t), error |-> "None"]
<1>1. PICK n \in Nat : n = Len(history)
  BY FileGrows
<1>2. \A k \in 0..n : File(k) \in Seq(Nat) /\ Len(File(k)) \in Nat
  BY <1>1, FileGrows, LenProperties
<1>3. PICK m \in Nat : m = Len(bytes)
  BY LenProperties
<1>4. t \in 0..n /\ t <= Len(File(t)) /\ Len(File(t)) <= m
  BY <1>1, <1>3, FileBegins DEF Begins
<1>5. t \in 0..m
  BY <1>2, <1>4
<1> DEFINE After(k) == [offset |-> Len(File(k)), entries |-> EntriesTo(k), error |-> "None"]
<1>6. ASSUME NEW k \in Nat, k < t, g[k] = After(k) PROVE g[k + 1] = After(k + 1)
  <2>1. k \in 0..n /\ k + 1 \in 0..n /\ k < n /\ k + 1 \in 1..n /\ k + 1 <= t /\ k <= t
    BY <1>4, <1>6
  <2>2. PICK f, r : f = File(k) /\ r = RecordOf(k + 1)
    OBVIOUS
  <2>3. f \in Seq(Nat) /\ IsRecord(r, Entry(k + 1)) /\ r \in Seq(Nat)
    BY <1>1, <1>2, <2>1, <2>2, AcceptedRecorded DEF IsRecord
  <2>4. PICK l \in Nat, q \in Nat : l = Len(f) /\ q = Len(r)
    BY <2>3, LenProperties
  <2>5. File(k + 1) = f \o r /\ Len(File(k + 1)) = l + q
    <3>1. File(k + 1) = f \o r
      BY <1>1, <2>1, <2>2, FileGrows
    <3> QED
      BY <2>3, <2>4, <3>1, ConcatProperties
  <2>6. Begins(f, l, bytes) /\ Begins(f \o r, l + q, bytes)
    <3>1. /\ Begins(f, l, File(t)) /\ Begins(File(k + 1), Len(File(k + 1)), File(t))
      BY <1>1, <1>4, <2>1, <2>2, <2>4, FileBegins
    <3>2. \A p \in Nat : \A b : p <= Len(File(t)) /\ Begins(b, p, File(t)) => Begins(b, p, bytes)
      BY <1>2, <1>3, <1>4 DEF Begins
    <3>3. Begins(f \o r, l + q, File(t))
      BY ONLY <2>5, <3>1
    <3>4. l <= Len(File(t)) /\ l + q <= Len(File(t))
      BY <3>1, <3>3 DEF Begins
    <3> QED
      BY ONLY <3>1, <3>2, <3>3, <3>4, l \in Nat, q \in Nat
  <2>7. PICK rest : rest = SubSeq(bytes, l + 1, m)
    OBVIOUS
  <2>8. rest \in Seq(Nat) /\ Begins(r, q, rest)
    <3>1. q \in 0..Len(r)
      BY <2>4
    <3>2. Begins(f, Len(f), bytes) /\ rest = SubSeq(bytes, Len(f) + 1, Len(bytes))
      BY <1>3, <2>4, <2>6, <2>7
    <3>3. f \in Seq(Nat) /\ r \in Seq(Nat) /\ Begins(f \o r, Len(f) + q, bytes)
      BY <2>3, <2>4, <2>6
    <3> QED
      BY ONLY ZenonT(60), <3>1, <3>2, <3>3, bytes \in Seq(Nat), Remains
  <2>9. /\ ~Incomplete(rest)
        /\ decode_log_entry(rest) = {[entry |-> Entry(k + 1), bytes_consumed |-> q]}
    BY <2>3, <2>4, <2>8 DEF IsRecord
  <2>10. l # m
    <3>1. l + q <= m /\ q # 0
      BY <1>3, <2>3, <2>4, <2>6 DEF Begins, IsRecord
    <3> QED
      BY <3>1
  <2>11. PICK log : log = g[k]
    OBVIOUS
  <2>12. log = [offset |-> l, entries |-> EntriesTo(k), error |-> "None"]
    BY <1>6, <2>2, <2>4, <2>11
  <2>13. Entry(k + 1).index = k + 1 /\ Len(EntriesTo(k)) + 1 = k + 1
    BY <2>1 DEF Entry, EntriesTo
  <2>14. Append(EntriesTo(k), Entry(k + 1)) = EntriesTo(k + 1)
    BY <2>1 DEF EntriesTo
  <2>15. PICK d : d = [entry |-> Entry(k + 1), bytes_consumed |-> q]
    OBVIOUS
  <2>16. d.entry = Entry(k + 1) /\ d.bytes_consumed = q
    BY <2>15
  <2>17. (CHOOSE x \in {d} : TRUE) = d
    OBVIOUS
  <2>18. ReadEntry(bytes, log) =
           [log EXCEPT !.entries = Append(@, d.entry), !.offset = @ + d.bytes_consumed]
    <3>1. log.offset = l /\ log.entries = EntriesTo(k) /\ log.error = "None"
      BY <2>12
    <3>2. decode_log_entry(rest) = {d}
      BY <2>9, <2>15
    <3>3. SubSeq(bytes, log.offset + 1, Len(bytes)) = rest
      BY <1>3, <2>7, <3>1
    <3>4. ~(log.offset = Len(bytes) \/ log.error # "None")
      BY <1>3, <2>10, <3>1
    <3>5. decode_log_entry(rest) # {} /\ d.entry.index = Len(log.entries) + 1
      BY <2>13, <2>16, <3>1, <3>2
    <3> QED
      BY <2>9, <2>17, <3>2, <3>3, <3>4, <3>5 DEF ReadEntry
  <2>19. ReadEntry(bytes, log) = [offset |-> l + q, entries |-> EntriesTo(k + 1), error |-> "None"]
    BY <2>12, <2>14, <2>16, <2>18
  <2>20. g[k + 1] = ReadEntry(bytes, g[k])
    <3>1. k + 1 \in 0..m /\ k + 1 # 0 /\ (k + 1) - 1 = k
      BY <1>5, <2>1
    <3> QED
      BY <1>3, <3>1 DEF Turns
  <2> QED
    BY <2>5, <2>11, <2>19, <2>20
<1> DEFINE T == {k \in Nat : k <= t => g[k] = After(k)}
<1>7. 0 \in T
  <2>1. g[0] = NothingRead
    BY <1>3 DEF Turns
  <2>2. Len(File(0)) = 0 /\ EntriesTo(0) = <<>>
    BY FileGrows, EmptySeq DEF EntriesTo
  <2> QED
    BY <2>1, <2>2 DEF NothingRead
<1> HIDE DEF After
<1>8. ASSUME NEW k \in T PROVE k + 1 \in T
  BY <1>5, <1>6
<1>9. T \in SUBSET Nat
  OBVIOUS
<1>10. t \in T
  <2>1. t \in Nat
    BY <1>5
  <2> HIDE DEF T
  <2>2. T = Nat
    BY ONLY <1>7, <1>8, <1>9, SetInduction
  <2> QED
    BY <2>1, <2>2
<1>11. g[t] = After(t)
  BY <1>5, <1>10
<1> QED
  BY <1>3, <1>5, <1>11 DEF After

\* A file of whole records is opened, with the entries they were written for.
LEMMA FileOpens ==
  ASSUME KvInv, NEW t \in 0..Len(history)
  PROVE  open(File(t)) = [error |-> "None", entries |-> EntriesTo(t)]
<1>1. PICK f : f = File(t)
  OBVIOUS
<1>2. f \in Seq(Nat)
  BY <1>1, FileGrows
<1>3. PICK m \in Nat : m = Len(f)
  BY <1>2, LenProperties
<1>4. PICK g : /\ Turns(f, m, g)
               /\ open(f) = [error |-> g[m].error,
                             entries |-> IF g[m].error = "None" THEN g[m].entries ELSE <<>>]
  BY <1>3, OpenIsLast
<1>5. Begins(File(t), Len(File(t)), f)
  BY <1>1, <1>3 DEF Begins
<1>6. t \in 0..m /\ g[t] = [offset |-> m, entries |-> EntriesTo(t), error |-> "None"]
  BY <1>1, <1>2, <1>3, <1>4, <1>5, TurnsRead
<1>7. g[m] = g[t]
  BY <1>3, <1>4, <1>6, TurnsEnd
<1> QED
  BY <1>1, <1>4, <1>6, <1>7

\* A file that ends inside a record is not.
LEMMA CutFails ==
  ASSUME KvInv, NEW t \in Nat, t < Len(history), NEW bytes \in Seq(Nat),
         Len(File(t)) < Len(bytes), Len(bytes) < Len(File(t + 1)),
         Begins(File(t + 1), Len(bytes), bytes)
  PROVE  open(bytes).error = "TruncatedRecord"
<1>1. PICK n \in Nat : n = Len(history)
  BY FileGrows
<1>2. t \in 0..n /\ t + 1 \in 0..n /\ t + 1 \in 1..n
  BY <1>1
<1>3. PICK f, r : f = File(t) /\ r = RecordOf(t + 1)
  OBVIOUS
<1>4. f \in Seq(Nat) /\ IsRecord(r, Entry(t + 1)) /\ r \in Seq(Nat)
  BY <1>1, <1>2, <1>3, FileGrows, AcceptedRecorded DEF IsRecord
<1>5. PICK l \in Nat, q \in Nat, m \in Nat : l = Len(f) /\ q = Len(r) /\ m = Len(bytes)
  BY <1>4, LenProperties
<1>6. File(t + 1) = f \o r /\ Len(File(t + 1)) = l + q
  <2>1. File(t + 1) = f \o r
    BY <1>1, <1>2, <1>3, FileGrows
  <2> QED
    BY <1>4, <1>5, <2>1, ConcatProperties
<1>7. l < m /\ m < l + q /\ Begins(f \o r, m, bytes)
  BY <1>3, <1>5, <1>6
<1>8. Begins(f, l, bytes)
  <2>1. \A i \in 1..(l + q) : (f \o r)[i] = IF i <= l THEN f[i] ELSE r[i - l]
    BY <1>4, <1>5, ConcatProperties
  <2>2. \A i \in 1..l : bytes[i] = f[i]
    <3> TAKE i \in 1..l
    <3>1. i \in 1..m /\ i \in 1..(l + q) /\ i <= l
      BY <1>7
    <3> QED
      BY <1>7, <2>1, <3>1 DEF Begins
  <2> QED
    BY <1>5, <1>7, <2>2 DEF Begins
<1>9. PICK g : /\ Turns(bytes, m, g)
               /\ open(bytes) = [error |-> g[m].error,
                                 entries |-> IF g[m].error = "None" THEN g[m].entries ELSE <<>>]
  BY <1>5, OpenIsLast
<1>10. t \in 0..m /\ g[t] = [offset |-> l, entries |-> EntriesTo(t), error |-> "None"]
  BY <1>1, <1>2, <1>3, <1>5, <1>8, <1>9, TurnsRead
<1>11. PICK rest : rest = SubSeq(bytes, l + 1, m)
  OBVIOUS
<1>12. rest \in Seq(Nat) /\ Len(rest) = m - l /\ Begins(r, m - l, rest)
  <2>1. m - l \in 0..q /\ l + (m - l) = m
    BY <1>7
  <2>2. Begins(f, Len(f), bytes) /\ rest = SubSeq(bytes, Len(f) + 1, Len(bytes))
    BY <1>5, <1>8, <1>11
  <2>3. /\ f \in Seq(Nat) /\ r \in Seq(Nat) /\ m - l \in 0..Len(r)
        /\ Begins(f \o r, Len(f) + (m - l), bytes)
    BY <1>4, <1>5, <1>7, <2>1
  <2>4. rest \in Seq(Nat) /\ Len(rest) = Len(bytes) - Len(f) /\ Begins(r, m - l, rest)
    BY ONLY <2>2, <2>3, bytes \in Seq(Nat), Remains
  <2> QED
    BY <1>5, <2>4
<1>13. Incomplete(rest)
  <2>1. Len(rest) < Len(r)
    BY <1>5, <1>7, <1>12
  <2> QED
    BY <1>4, <1>12, <2>1 DEF IsRecord
<1>14. PICK log : log = g[t]
  OBVIOUS
<1>15. log = [offset |-> l, entries |-> EntriesTo(t), error |-> "None"]
  BY <1>10, <1>14
<1>16. t + 1 \in 0..m /\ t < m
  <2>1. t <= l
    BY <1>1, <1>2, <1>3, <1>5, FileBegins
  <2> QED
    BY <1>7, <2>1
<1>17. g[t + 1].error = "TruncatedRecord"
  <2>1. log.offset = l /\ log.error = "None"
    BY <1>15
  <2>2. ReadEntry(bytes, log) = [log EXCEPT !.error = "TruncatedRecord"]
    <3>1. l # m
      BY <1>7
    <3> QED
      BY <1>5, <1>11, <1>13, <2>1, <3>1 DEF ReadEntry
  <2>3. g[t + 1] = ReadEntry(bytes, g[t])
    <3>1. t + 1 # 0 /\ (t + 1) - 1 = t
      OBVIOUS
    <3> QED
      BY <1>9, <1>16, <3>1 DEF Turns
  <2> QED
    BY <1>14, <1>15, <2>2, <2>3
<1>18. g[m] = g[t + 1]
  <2>1. g[t + 1].error # "None"
    BY <1>17
  <2> QED
    BY <1>9, <1>16, <2>1, TurnsEnd
<1> QED
  BY <1>9, <1>17, <1>18

\* A replay looks at the commands and terms of the entries only (apply_committed).
LEMMA ReplayAgrees ==
  ASSUME NEW s, NEW s2, NEW n \in Nat, Len(s) = n, Len(s2) = n,
         \A k \in 1..n : s2[k].command = s[k].command /\ s2[k].term = s[k].term
  PROVE  Replay(s2) = Replay(s)
<1>1. PICK g : Steps(s, n, g) /\ Replay(s) = g[n]
  BY ReplayIsLast
<1>2. PICK g2 : Steps(s2, n, g2) /\ Replay(s2) = g2[n]
  BY ReplayIsLast
<1> DEFINE T == {k \in Nat : k <= n => g2[k] = g[k]}
<1>3. 0 \in T
  BY <1>1, <1>2 DEF Steps
<1>4. ASSUME NEW k \in T PROVE k + 1 \in T
  <2>1. ASSUME k + 1 <= n PROVE g2[k + 1] = g[k + 1]
    <3>1. g2[k] = g[k] /\ k + 1 \in 1..n
      BY <2>1
    <3>2. g[k + 1] = Feed(g[k], s[k + 1]) /\ g2[k + 1] = Feed(g2[k], s2[k + 1])
      BY <1>1, <1>2, <2>1 DEF Steps
    <3>3. s2[k + 1].command = s[k + 1].command /\ s2[k + 1].term = s[k + 1].term
      BY <3>1
    <3>4. Feed(g[k], s2[k + 1]) = Feed(g[k], s[k + 1])
      BY <3>3 DEF Feed
    <3> QED
      BY <3>1, <3>2, <3>4
  <2> QED
    BY <2>1
<1>5. T \in SUBSET Nat
  OBVIOUS
<1> HIDE DEF T
<1>6. T = Nat
  BY ONLY <1>3, <1>4, <1>5, SetInduction
<1> QED
  BY <1>1, <1>2, <1>6 DEF T

\* A restart rebuilds the very state from the bytes on disk: the records are read back
\* as the entries they were written for, and these are applied again
\* (PersistentLog::open, apply_committed from an empty KvStateMachine).
THEOREM RestartIsRebuilt == Spec => []RestartRebuilds
<1>1. KvInv /\ Rebuilt => RestartRebuilds
  <2> SUFFICES ASSUME KvInv, Rebuilt PROVE RestartRebuilds
    OBVIOUS
  <2>1. PICK n \in Nat : n = Len(history)
    BY FileGrows
  <2>2. open(File(n)) = [error |-> "None", entries |-> EntriesTo(n)]
    BY <2>1, FileOpens
  <2>3. Len(EntriesTo(n)) = n
    BY DEF EntriesTo
  <2>4. \A k \in 1..n :
          EntriesTo(n)[k].command = history[k].command /\ EntriesTo(n)[k].term = history[k].term
    BY DEF EntriesTo, Entry
  <2>5. Replay(EntriesTo(n)) = Replay(history)
    BY <2>1, <2>3, <2>4, ReplayAgrees
  <2> QED
    BY <2>1, <2>2, <2>5 DEF RestartRebuilds, Rebuilt
<1> QED
  BY <1>1, StateFollowsHistory, ReplayRebuilds, PTL

\* What a crash leaves of the file is read as far as it goes if it ends between two
\* records, and refused if it ends inside one; whatever the commands, their number and
\* the place of the cut, it is never taken for another log (PersistentLog::open).
THEOREM CutsAreRefused == Spec => []CutsRefused
<1>1. KvInv => CutsRefused
  <2> SUFFICES ASSUME KvInv PROVE CutsRefused
    OBVIOUS
  <2>1. PICK n \in Nat : n = Len(history)
    BY FileGrows
  <2>2. \A k \in 0..n : open(File(k)) = [error |-> "None", entries |-> [j \in 1..k |-> Entry(j)]]
    BY <2>1, FileOpens DEF EntriesTo
  <2>3. ASSUME NEW k \in DOMAIN File(n) \ {Len(File(j)) : j \in 0..n}
        PROVE  open(SubSeq(File(n), 1, k)).error = "TruncatedRecord"
    <3>1. \A j \in 0..n : File(j) \in Seq(Nat) /\ Len(File(j)) \in Nat
      BY <2>1, FileGrows, LenProperties
    <3>2. File(n) \in Seq(Nat) /\ k \in 1..Len(File(n)) /\ k \in Nat /\ k # 0
      BY <2>1, <3>1, LenProperties
    <3> DEFINE T == {j \in 0..n : k <= Len(File(j))}
    <3>3. n \in T /\ T \in SUBSET Nat
      BY <3>1, <3>2
    <3>4. PICK j \in T : \A x \in T : j <= x
      <4> HIDE DEF T
      <4> QED
        BY <3>3, LeastNumber
    <3>5. j # 0
      <4>1. Len(File(0)) = 0
        BY FileGrows, EmptySeq
      <4> QED
        BY <3>2, <4>1
    <3>6. PICK t \in Nat : j = t + 1
      <4>1. j - 1 \in Nat /\ j = (j - 1) + 1
        BY <3>3, <3>5
      <4> QED
        BY <4>1
    <3>7. t \in 0..n /\ t + 1 \in 0..n /\ t < n /\ ~(t + 1 <= t)
      BY <3>6
    <3>8. Len(File(t)) < k /\ k < Len(File(t + 1))
      <4>1. t \notin T
        BY <3>4, <3>6, <3>7
      <4>2. k # Len(File(t + 1))
        BY <3>7
      <4> QED
        BY <3>1, <3>2, <3>4, <3>6, <3>7, <4>1, <4>2
    <3>9. PICK bytes : bytes = SubSeq(File(n), 1, k)
      OBVIOUS
    <3>10. bytes \in Seq(Nat) /\ Len(bytes) = k /\ \A i \in 1..k : bytes[i] = File(n)[i]
      BY <3>2, <3>9
    <3>11. Begins(File(t + 1), Len(File(t + 1)), File(n))
      BY <2>1, <3>7, FileBegins
    <3>12. Begins(File(t + 1), k, bytes)
      <4>1. \A i \in 1..k : i \in 1..Len(File(t + 1))
        BY <3>1, <3>7, <3>8
      <4> QED
        BY SMTT(30), <3>10, <3>11, <4>1 DEF Begins
    <3>13. open(bytes).error = "TruncatedRecord"
      <4>1. t < Len(history) /\ Len(File(t)) < Len(bytes) /\ Len(bytes) < Len(File(t + 1))
        BY <2>1, <3>7, <3>8, <3>10
      <4>2. Begins(File(t + 1), Len(bytes), bytes)
        BY <3>10, <3>12
      <4> QED
        BY <3>10, <4>1, <4>2, CutFails
    <3> QED
      BY <3>9, <3>13
  <2> QED
    BY <2>1, <2>2, <2>3 DEF CutsRefused
<1> QED
  BY <1>1, StateFollowsHistory, PTL
=============================================================================
