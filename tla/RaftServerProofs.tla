-------------------------- MODULE RaftServerProofs --------------------------
(***************************************************************************)
(* Every log is made of what the leaders wrote: in every reachable state   *)
(* there is a ledger (RaftLedger) of which all logs and all requests are   *)
(* parts. Hence two logs that share an entry share everything before it.   *)
(* What is committed stays committed: what two of the three nodes hold of  *)
(* a leader's own entries is with every later leader, unless two nodes     *)
(* have left the term without it, and then it was not committed.           *)
(*                                                                         *)
(* The history of what the cluster has committed: it is on two disks and   *)
(* in the log of the leader of the highest term, and the cluster with it   *)
(* implements the abstract replicated log. A read that is handed over sees *)
(* all of it that there was when the read was asked. The servers on top:   *)
(* every waiting client is filed where its answer will come from, reads    *)
(* are linearizable, and what was answered as committed took effect.       *)
(***************************************************************************)
EXTENDS RaftNodeProofs, KvProofs, RaftServer

-----------------------------------------------------------------------------
(* Prefixes.                                                               *)

\* Agreement is symmetric.
LEMMA PfxSym == ASSUME NEW s, NEW u, NEW k, Pfx(s, u, k) PROVE Pfx(u, s, k)
BY DEF Pfx

\* It is inherited along a third log.
LEMMA PfxVia ==
  ASSUME NEW s \in Seq(Entry), NEW u \in Seq(Entry), NEW w \in Seq(Entry),
         NEW k \in Nat, NEW j \in Nat, NEW n \in Nat, n <= k, n <= j,
         Pfx(s, u, k), Pfx(u, w, j)
  PROVE  Pfx(s, w, n)
<1>1. Len(s) \in Nat /\ Len(u) \in Nat /\ Len(w) \in Nat
  BY LenProperties
<1> QED
  BY <1>1 DEF Pfx

\* It is inherited by shorter prefixes.
LEMMA PfxShorter ==
  ASSUME NEW s \in Seq(Entry), NEW u \in Seq(Entry), NEW k \in Nat, NEW n \in Nat, n <= k,
         Pfx(s, u, k)
  PROVE  Pfx(s, u, n)
<1>1. Len(s) \in Nat /\ Len(u) \in Nat
  BY LenProperties
<1> QED
  BY <1>1 DEF Pfx

\* A log agrees with itself.
LEMMA PfxSelf ==
  ASSUME NEW s \in Seq(Entry), NEW k \in Nat, k <= Len(s)
  PROVE  Pfx(s, s, k)
BY DEF Pfx

\* Agreement is what the properties say with SubSeq.
LEMMA PfxSubSeq ==
  ASSUME NEW s \in Seq(Entry), NEW u \in Seq(Entry), NEW k \in Nat, Pfx(s, u, k)
  PROVE  SubSeq(s, 1, k) = SubSeq(u, 1, k)
<1>1. Len(s) \in Nat /\ Len(u) \in Nat /\ k <= Len(s) /\ k <= Len(u) /\ \A n \in 1..k : s[n] = u[n]
  BY LenProperties DEF Pfx
<1>2. \A n \in 1..k : s[n] \in Entry /\ u[n] \in Entry
  BY <1>1, ElementOfSeq
<1>3. /\ SubSeq(s, 1, k) \in Seq(Entry) /\ Len(SubSeq(s, 1, k)) = k
      /\ \A n \in 1..k : SubSeq(s, 1, k)[n] = s[n]
  BY <1>1, <1>2, SubSeqProperties, 1 \in Int, k \in Int
<1>4. /\ SubSeq(u, 1, k) \in Seq(Entry) /\ Len(SubSeq(u, 1, k)) = k
      /\ \A n \in 1..k : SubSeq(u, 1, k)[n] = u[n]
  BY <1>1, <1>2, SubSeqProperties, 1 \in Int, k \in Int
<1>5. Len(SubSeq(s, 1, k)) = Len(SubSeq(u, 1, k))
      /\ \A n \in 1..Len(SubSeq(s, 1, k)) : SubSeq(s, 1, k)[n] = SubSeq(u, 1, k)[n]
  BY <1>1, <1>3, <1>4
<1> QED
  BY ONLY <1>3, <1>4, <1>5, SeqEqual

\* A prefix is a log of its length.
LEMMA SubSeqPfx ==
  ASSUME NEW s \in Seq(Entry), NEW k \in Nat, k <= Len(s)
  PROVE  SubSeq(s, 1, k) \in Seq(Entry) /\ Len(SubSeq(s, 1, k)) = k /\ Pfx(SubSeq(s, 1, k), s, k)
<1>1. Len(s) \in Nat
  BY LenProperties
<1>2. \A n \in 1..k : s[n] \in Entry
  BY <1>1, ElementOfSeq
<1>3. /\ SubSeq(s, 1, k) \in Seq(Entry) /\ Len(SubSeq(s, 1, k)) = k
      /\ \A n \in 1..k : SubSeq(s, 1, k)[n] = s[n]
  BY <1>2, SubSeqProperties, 1 \in Int, k \in Int
<1> QED
  BY <1>3 DEF Pfx

-----------------------------------------------------------------------------
(* The ledger.                                                             *)

Ledgers == [Term -> Seq(Entry)]

Writers == [Term -> Server \cup {Nobody}]

\* The ledger of the new state: an entry a leader writes is added to its log.
Carries(i, L, W, L2, W2) ==
  \/ /\ L2 = L /\ W2 = W
     /\ \/ Rests(i) \/ Commits(i) \/ Campaigns(i)
        \/ \E m \in msgs : Votes(i, m) \/ Takes(i, m)
  \/ \E e \in Entry : /\ Grows(i, e)
                      /\ L2 = [L EXCEPT ![e.term] = log'[i]]
                      /\ W2 = [W EXCEPT ![e.term] = i]

\* It only grows.
LedgerGrows(L, W, L2, W2) ==
  \A t \in Term : Pfx(L2[t], L[t], Len(L[t])) /\ (W[t] # Nobody => W2[t] = W[t])

\* Every step has a new ledger.
LEMMA LedgerExists ==
  ASSUME TypeOK, TypeOK', NEW i \in Server, StepOf(i),
         NEW L \in Ledgers, NEW W \in Writers
  PROVE  \E L2 \in Ledgers, W2 \in Writers : Carries(i, L, W, L2, W2)
<1>1. CASE Rests(i) \/ Commits(i) \/ Campaigns(i) \/ \E m \in msgs : Votes(i, m) \/ Takes(i, m)
  BY <1>1 DEF Carries
<1>2. ASSUME NEW e \in Entry, Grows(i, e)
      PROVE  \E L2 \in Ledgers, W2 \in Writers : Carries(i, L, W, L2, W2)
  <2>1. log'[i] \in Seq(Entry)
    BY DEF TypeOK
  <2>2. PICK lg \in Seq(Entry) : lg = log'[i]
    BY <2>1
  <2>3. /\ [L EXCEPT ![e.term] = lg] \in Ledgers
        /\ [W EXCEPT ![e.term] = i] \in Writers
    BY DEF Ledgers, Writers
  <2> QED
    BY <1>2, <2>2, <2>3 DEF Carries
<1> QED
  BY <1>1, <1>2 DEF StepOf

\* Terms never go back.
LEMMA TermsGrow ==
  ASSUME TypeOK, TypeOK', NEW i \in Server, StepOf(i), NEW j \in Server
  PROVE  current_term[j] \in Nat /\ current_term'[j] \in Nat /\ current_term[j] <= current_term'[j]
<1>1. current_term[j] \in Nat /\ current_term'[j] \in Nat
  BY DEF TypeOK, Term
<1> QED
  BY <1>1 DEF StepOf, SentStep, Frame

\* Who writes an entry has all its term's entries, or is the term's first leader.
LEMMA GrowsFacts ==
  ASSUME TypeOK, TypeOK', ElectionInv, NodeInv, NEW i \in Server, StepOf(i),
         NEW L \in Ledgers, NEW W \in Writers, LogInv(L, W), NEW e \in Entry, Grows(i, e)
  PROVE  /\ e.term \in Term /\ e.term # 0 /\ e.term = current_term[i]
         /\ log[i] \in Seq(Entry) /\ Len(log[i]) \in Nat
         /\ log'[i] \in Seq(Entry) /\ Len(log'[i]) = Len(log[i]) + 1
         /\ \A k \in 1..Len(log[i]) : log'[i][k] = log[i][k]
         /\ log'[i][Len(log[i]) + 1] = e
         /\ \/ W[e.term] = i /\ L[e.term] = log[i]
            \/ /\ W[e.term] = Nobody /\ L[e.term] = <<>>
               /\ Standing(i) /\ election_term[i] = e.term /\ leader_term[i] = 0
               /\ \E v \in msgs : Granted(v) /\ v.to = i /\ v.term = e.term
<1>1. e.term \in Term /\ e.term # 0 /\ e.term = current_term[i]
  BY DEF Grows, Entry, Term
<1>2. log[i] \in Seq(Entry) /\ Len(log[i]) \in Nat
  BY LenProperties DEF TypeOK
<1>3. log'[i] = Append(log[i], e)
  BY DEF Grows, TypeOK
<1>4. /\ log'[i] \in Seq(Entry) /\ Len(log'[i]) = Len(log[i]) + 1
      /\ \A k \in 1..Len(log[i]) : log'[i][k] = log[i][k]
      /\ log'[i][Len(log[i]) + 1] = e
  BY <1>2, <1>3, AppendProperties
<1>5. CASE leader_term[i] = e.term
  <2>1. W[e.term] = i /\ L[e.term] = log[i]
    BY <1>1, <1>5 DEF LogInv, LeadersWrite
  <2> QED
    BY <1>1, <1>2, <1>4, <2>1
<1>6. CASE Standing(i) /\ election_term[i] = e.term
           /\ \E v \in msgs : Granted(v) /\ v.to = i /\ v.term = e.term
  <2>1. leader_term[i] = 0
    BY <1>6 DEF NodeInv, NodeOK, LeaderAt, Standing
  <2>2. Elected(i, e.term)
    BY <1>6 DEF ElectionInv, LeadersElected, Elected, Standing, Granted
  <2>3. W[e.term] = Nobody
    <3> SUFFICES ASSUME W[e.term] # Nobody PROVE FALSE
      OBVIOUS
    <3>1. W[e.term] \in Server /\ Elected(W[e.term], e.term)
          /\ ~(Standing(W[e.term]) /\ election_term[W[e.term]] = e.term)
      BY <1>1 DEF Writers, LogInv, WritersLed
    <3>2. W[e.term] = i
      BY <2>2, <3>1, OneElected DEF ElectionInv
    <3> QED
      BY <1>6, <3>1, <3>2
  <2>4. L[e.term] = <<>>
    BY <1>1, <2>3 DEF LogInv, WritersLed
  <2> QED
    BY <1>1, <1>2, <1>4, <1>6, <2>1, <2>3, <2>4
<1> QED
  BY <1>5, <1>6 DEF Grows

\* The new ledger extends the old one.
LEMMA LedgerExtends ==
  ASSUME TypeOK, TypeOK', ElectionInv, NodeInv, NEW i \in Server, StepOf(i),
         NEW L \in Ledgers, NEW W \in Writers, LogInv(L, W),
         NEW L2 \in Ledgers, NEW W2 \in Writers, Carries(i, L, W, L2, W2)
  PROVE  LedgerGrows(L, W, L2, W2)
<1> SUFFICES ASSUME NEW t \in Term
             PROVE  Pfx(L2[t], L[t], Len(L[t])) /\ (W[t] # Nobody => W2[t] = W[t])
  BY DEF LedgerGrows
<1>1. L[t] \in Seq(Entry) /\ Len(L[t]) \in Nat
  BY LenProperties DEF Ledgers
<1>2. Pfx(L[t], L[t], Len(L[t]))
  BY <1>1, PfxSelf
<1>3. CASE L2 = L /\ W2 = W
  BY <1>2, <1>3
<1>4. ASSUME NEW e \in Entry, Grows(i, e), L2 = [L EXCEPT ![e.term] = log'[i]],
             W2 = [W EXCEPT ![e.term] = i]
      PROVE  Pfx(L2[t], L[t], Len(L[t])) /\ (W[t] # Nobody => W2[t] = W[t])
  <2>1. /\ log[i] \in Seq(Entry) /\ Len(log[i]) \in Nat /\ Len(log'[i]) = Len(log[i]) + 1
        /\ \A k \in 1..Len(log[i]) : log'[i][k] = log[i][k]
        /\ (W[e.term] = i /\ L[e.term] = log[i]) \/ (W[e.term] = Nobody /\ L[e.term] = <<>>)
    BY <1>4, GrowsFacts
  <2>2. CASE t = e.term
    <3>1. L2[t] = log'[i] /\ W2[t] = i
      BY <1>4, <2>2 DEF Ledgers, Writers
    <3>2. Pfx(log'[i], L[t], Len(L[t]))
      <4>1. CASE L[t] = log[i]
        BY <2>1, <4>1 DEF Pfx
      <4>2. CASE L[t] = <<>>
        <5>1. Len(L[t]) = 0
          BY <4>2, EmptySeq
        <5> QED
          BY <2>1, <5>1 DEF Pfx
      <4> QED
        BY <2>1, <2>2, <4>1, <4>2
    <3> QED
      BY <2>1, <2>2, <3>1, <3>2
  <2>3. CASE t # e.term
    <3>1. L2[t] = L[t] /\ W2[t] = W[t]
      BY <1>4, <2>3 DEF Ledgers, Writers
    <3> QED
      BY <1>2, <3>1
  <2> QED
    BY <2>2, <2>3
<1> QED
  BY <1>3, <1>4 DEF Carries

-----------------------------------------------------------------------------
(* Taking entries.                                                         *)

\* What a request says of the log of its sender.
LEMMA RequestFacts ==
  ASSUME TypeOK, NEW L \in Ledgers, NEW W \in Writers, LogInv(L, W),
         NEW m \in msgs, m.kind = "AppendEntries"
  PROVE  /\ m \in AppendEntries /\ m.term \in Term /\ m.term \in Nat
         /\ m.from \in Server /\ m.to \in Server
         /\ m.prev_log_index \in Nat /\ Len(m.entries) \in Nat
         /\ L[m.term] \in Seq(Entry) /\ Len(L[m.term]) \in Nat
         /\ W[m.term] = m.from /\ L[m.term] # <<>>
         /\ FromLog(m, L[m.term])
         /\ matched_index(m) = m.prev_log_index + Len(m.entries)
         /\ matched_index(m) \in Nat /\ matched_index(m) <= Len(L[m.term])
         /\ m.leader_commit \in Nat
<1>1. m \in AppendEntries
  BY MessageKinds DEF TypeOK
<1>2. /\ m.term \in Term /\ m.from \in Server /\ m.to \in Server /\ m.prev_log_index \in Nat
      /\ m.entries \in Seq(Entry) /\ Len(m.entries) \in Nat /\ m.leader_commit \in Nat
  BY <1>1, LenProperties DEF AppendEntries
<1>3. m.term \in Nat
  BY <1>2 DEF Term
<1>4. L[m.term] \in Seq(Entry) /\ Len(L[m.term]) \in Nat
  BY <1>2, LenProperties DEF Ledgers
<1>5. m.from = W[m.term] /\ FromLog(m, L[m.term])
  BY DEF LogInv, RequestsWritten
<1>6. L[m.term] # <<>>
  BY <1>2, <1>5, ServerAssumption DEF LogInv, WritersLed
<1>7. matched_index(m) = m.prev_log_index + Len(m.entries)
  BY DEF matched_index
<1> QED
  BY <1>1, <1>2, <1>3, <1>4, <1>5, <1>6, <1>7 DEF FromLog

\* A receiver that has the previous entry of a request has the sender's log up to it.
LEMMA PreviousAgrees ==
  ASSUME TypeOK, NEW L \in Ledgers, NEW W \in Writers, LogInv(L, W),
         NEW m \in msgs, m.kind = "AppendEntries",
         NEW j \in Server, previous_matches(log[j], m)
  PROVE  Pfx(log[j], L[m.term], m.prev_log_index)
<1> DEFINE prev == m.prev_log_index
           s == L[m.term]
<1>1. /\ prev \in Nat /\ s \in Seq(Entry) /\ Len(s) \in Nat /\ FromLog(m, s) /\ prev <= Len(s)
      /\ m.term \in Term
  <2>1. /\ prev \in Nat /\ s \in Seq(Entry) /\ Len(s) \in Nat /\ FromLog(m, s)
        /\ Len(m.entries) \in Nat /\ prev + Len(m.entries) <= Len(s) /\ m.term \in Term
    BY RequestFacts
  <2> QED
    BY <2>1
<1>2. log[j] \in Seq(Entry) /\ Len(log[j]) \in Nat
  BY LenProperties DEF TypeOK
<1>3. CASE prev = 0
  BY <1>1, <1>2, <1>3 DEF Pfx
<1>4. CASE prev # 0
  <2> DEFINE u == m.prev_log_term
  <2>1. prev \in 1..Len(log[j]) /\ log[j][prev].term = u
    BY <1>4 DEF previous_matches, has_entry
  <2>2. prev \in 1..Len(s) /\ s[prev].term = u
    BY <1>1, <1>4 DEF FromLog
  <2>3. Pfx(log[j], L[u], prev)
    BY <2>1 DEF LogInv, LogsWritten
  <2>4. Pfx(s, L[u], prev)
    BY <1>1, <2>2 DEF LogInv, LedgerSound
  <2>5. u \in Term
    BY RequestFacts DEF AppendEntries
  <2>6. L[u] \in Seq(Entry)
    BY <2>5 DEF Ledgers
  <2> QED
    BY <1>1, <1>2, <2>3, <2>4, <2>6, PfxSym, PfxVia
<1> QED
  BY <1>3, <1>4

\* What a follower takes makes its log a part of the leader's; what it already had
\* of it stays.
LEMMA TakesKeeps ==
  ASSUME TypeOK, NEW L \in Ledgers, NEW W \in Writers, LogInv(L, W), NEW i \in Server,
         NEW m \in msgs, Takes(i, m), NEW K \in Nat, Pfx(log[i], L[m.term], K)
  PROVE  /\ Pfx(log'[i], L[m.term], K)
         /\ log'[i] # log[i] => Pfx(log'[i], L[m.term], Len(log'[i]))
<1> DEFINE prev == m.prev_log_index
           s == L[m.term]
<1>1. /\ m \in AppendEntries /\ prev \in Nat /\ s \in Seq(Entry) /\ Len(s) \in Nat
      /\ Len(m.entries) \in Nat /\ FromLog(m, s) /\ prev + Len(m.entries) <= Len(s)
  BY RequestFacts DEF Takes
<1>2. /\ log[i] \in Seq(Entry) /\ Len(log[i]) \in Nat
  BY LenProperties DEF TypeOK
<1>3. /\ previous_matches(log[i], m) /\ log'[i] \in PartialLogs(log[i], m)
      /\ log'[i] = log[i] \/ ~Agrees(log[i], m, Len(m.entries))
  BY DEF Takes
<1>4. Pfx(log[i], s, prev)
  BY <1>3, PreviousAgrees DEF Takes
<1>5. CASE log'[i] = log[i]
  BY <1>5
<1>6. CASE log'[i] # log[i]
  <2>1. PICK new : new = log'[i]
    OBVIOUS
  <2>2. PICK n \in 0..Len(m.entries), d \in 1..Len(m.entries) :
          /\ new = Splice(log[i], m, n)
          /\ d <= n + 1 /\ Agrees(log[i], m, d - 1) /\ ~Agrees(log[i], m, d)
    <3>1. new \in PartialLogs(log[i], m) /\ new # log[i] /\ ~Agrees(log[i], m, Len(m.entries))
      BY <1>3, <1>6, <2>1
    <3> QED
      BY ONLY <1>1, <1>2, <3>1, PartialShape
  <2>3. /\ new \in Seq(Entry) /\ Len(new) = prev + n
        /\ \A k \in 1..prev : new[k] = log[i][k]
        /\ \A k \in 1..n : new[prev + k] = m.entries[k]
    BY ONLY <1>1, <1>2, <1>3, <2>2, SpliceEntries
  <2>4. ASSUME NEW k \in 1..(prev + n) PROVE new[k] = s[k]
    <3>1. CASE k <= prev
      <4>1. k \in 1..prev
        BY <1>1, <3>1
      <4> QED
        BY <1>4, <2>3, <4>1 DEF Pfx
    <3>2. CASE ~(k <= prev)
      <4>1. k - prev \in 1..n /\ k - prev \in 1..Len(m.entries) /\ prev + (k - prev) = k
        BY SMTT(30), <1>1, <2>2, <3>2
      <4>2. new[k] = m.entries[k - prev] /\ m.entries[k - prev] = s[k]
        BY <1>1, <2>3, <4>1 DEF FromLog
      <4> QED
        BY <4>2
    <3> QED
      BY <3>1, <3>2
  <2>5. Pfx(new, s, Len(new)) /\ Len(new) \in Nat
    <3>1. Len(new) \in Nat /\ Len(new) <= Len(new)
      BY <2>3, LenProperties
    <3>2. prev + n <= Len(s)
      BY SMTT(30), <1>1, <2>2
    <3>3. Len(new) <= Len(s) /\ \A k \in 1..Len(new) : new[k] = s[k]
      BY <2>3, <2>4, <3>2
    <3> QED
      BY ONLY <3>1, <3>3 DEF Pfx
  <2>6. K < prev + d
    <3> SUFFICES ASSUME ~(K < prev + d) PROVE FALSE
      OBVIOUS
    <3>1. prev + d \in 1..K
      BY <1>1, <2>2
    <3>2. prev + d \in 1..Len(log[i]) /\ log[i][prev + d] = s[prev + d]
      BY SMTT(30), <1>1, <1>2, <3>1 DEF Pfx
    <3>3. s[prev + d] = m.entries[d]
      BY <1>1, <2>2 DEF FromLog
    <3>4. has_entry(log[i], prev + d, m.entries[d].term)
      BY <3>2, <3>3 DEF has_entry
    <3>5. Agrees(log[i], m, d)
      <4> SUFFICES ASSUME NEW x \in 1..d PROVE has_entry(log[i], prev + x, m.entries[x].term)
        BY DEF Agrees
      <4>1. x = d \/ x \in 1..(d - 1)
        BY <2>2
      <4> QED
        BY <2>2, <3>4, <4>1 DEF Agrees
    <3> QED
      BY <2>2, <3>5
  <2>7. K <= Len(new)
    BY <1>1, <2>2, <2>3, <2>6
  <2>8. Pfx(new, s, K)
    BY <1>1, <2>3, <2>5, <2>7, PfxShorter
  <2> QED
    BY <2>1, <2>5, <2>8
<1> QED
  BY <1>5, <1>6

\* After an accepted request the log agrees with the sender's up to the batch's end.
LEMMA TakesHolds ==
  ASSUME TypeOK, NEW L \in Ledgers, NEW W \in Writers, LogInv(L, W), NEW i \in Server,
         NEW m \in msgs, Takes(i, m), log'[i] = MergedLog(log[i], m), ~InvalidRequest(i, m)
  PROVE  Pfx(log'[i], L[m.term], matched_index(m))
<1> DEFINE prev == m.prev_log_index
           s == L[m.term]
           new == MergedLog(log[i], m)
<1>1. /\ m \in AppendEntries /\ prev \in Nat /\ s \in Seq(Entry) /\ Len(s) \in Nat
      /\ Len(m.entries) \in Nat /\ FromLog(m, s) /\ prev + Len(m.entries) <= Len(s)
      /\ matched_index(m) = prev + Len(m.entries)
  BY RequestFacts DEF Takes
<1>2. /\ log[i] \in Seq(Entry) /\ Len(log[i]) \in Nat
  BY LenProperties DEF TypeOK
<1>3. /\ previous_matches(log[i], m) /\ ~CommandMismatch(log[i], m)
  BY DEF Takes, InvalidRequest
<1>4. Pfx(log[i], s, prev)
  BY <1>3, PreviousAgrees DEF Takes
<1>5. /\ matched_index(m) <= Len(new)
      /\ \A k \in 1..prev : new[k] = log[i][k]
      /\ \A k \in 1..Len(m.entries) : new[prev + k] = m.entries[k]
  BY ONLY <1>1, <1>2, <1>3, MergedHoldsBatch
<1> HIDE DEF new
<1>6. ASSUME NEW k \in 1..matched_index(m) PROVE new[k] = s[k]
  <2>1. CASE k <= prev
    <3>1. k \in 1..prev
      BY <1>1, <2>1
    <3> QED
      BY <1>4, <1>5, <3>1 DEF Pfx
  <2>2. CASE ~(k <= prev)
    <3>1. k - prev \in 1..Len(m.entries) /\ prev + (k - prev) = k
      BY <1>1, <2>2
    <3>2. new[k] = m.entries[k - prev] /\ m.entries[k - prev] = s[k]
      BY <1>1, <1>5, <3>1 DEF FromLog
    <3> QED
      BY <3>2
  <2> QED
    BY <2>1, <2>2
<1>7. Pfx(new, s, matched_index(m))
  BY <1>1, <1>5, <1>6 DEF Pfx
<1> QED
  BY <1>7 DEF new

\* A step keeps what a log shares with s unless it takes entries of a leader whose
\* log does not.
LEMMA LogKeeps ==
  ASSUME TypeOK, TypeOK', ElectionInv, NodeInv, NEW i \in Server, StepOf(i),
         NEW L \in Ledgers, NEW W \in Writers, LogInv(L, W),
         NEW j \in Server, NEW s \in Seq(Entry), NEW k \in Nat, Pfx(log[j], s, k),
         \A m \in msgs : j = i /\ Takes(i, m) => Pfx(s, L[m.term], k)
  PROVE  Pfx(log'[j], s, k)
<1>0. log[j] \in Seq(Entry) /\ log'[j] \in Seq(Entry)
  BY DEF TypeOK
<1>1. CASE log'[j] = log[j]
  BY <1>1
<1>2. CASE j # i
  BY <1>1, <1>2 DEF StepOf, Frame
<1>3. ASSUME NEW e \in Entry, Grows(i, e), j = i PROVE Pfx(log'[j], s, k)
  <2>1. /\ Len(log[i]) \in Nat /\ Len(log'[i]) = Len(log[i]) + 1
        /\ \A n \in 1..Len(log[i]) : log'[i][n] = log[i][n]
    BY <1>3, GrowsFacts
  <2>2. PICK old, new : old = log[j] /\ new = log'[j]
    OBVIOUS
  <2>3. /\ Len(old) \in Nat /\ Len(new) = Len(old) + 1
        /\ \A n \in 1..Len(old) : new[n] = old[n]
    BY <1>3, <2>1, <2>2
  <2>4. k <= Len(old) /\ k <= Len(s) /\ \A n \in 1..k : old[n] = s[n]
    BY <2>2 DEF Pfx
  <2>5. k <= Len(new)
    BY ONLY k \in Nat, <2>3, <2>4
  <2>6. ASSUME NEW n \in 1..k PROVE new[n] = s[n]
    <3>1. n \in 1..Len(old)
      BY ONLY k \in Nat, n \in 1..k, <2>3, <2>4
    <3> QED
      BY ONLY <2>3, <2>4, <3>1, n \in 1..k
  <2> QED
    BY <2>2, <2>4, <2>5, <2>6 DEF Pfx
<1>4. ASSUME NEW m \in msgs, Takes(i, m), j = i PROVE Pfx(log'[j], s, k)
  <2>1. Pfx(s, L[m.term], k) /\ L[m.term] \in Seq(Entry)
    BY <1>4, RequestFacts DEF Takes
  <2>2. k <= k
    OBVIOUS
  <2>3. Pfx(log[i], L[m.term], k)
    BY <1>0, <1>4, <2>1, <2>2, PfxVia
  <2>4. Pfx(log'[i], L[m.term], k)
    BY <1>4, <2>3, TakesKeeps
  <2>5. Pfx(L[m.term], s, k)
    BY <2>1, PfxSym
  <2> QED
    BY <1>0, <1>4, <2>1, <2>2, <2>4, <2>5, PfxVia
<1>5. CASE Rests(i) \/ Commits(i) \/ Campaigns(i) \/ \E m \in msgs : Votes(i, m)
  <2>1. UNCHANGED log
    BY <1>5 DEF Rests, Commits, Campaigns, Votes
  <2> QED
    BY <1>1, <2>1
<1> QED
  BY <1>2, <1>3, <1>4, <1>5 DEF StepOf

\* What agreed with the old ledger agrees with the new one.
LEMMA LedgerKeeps ==
  ASSUME NEW L \in Ledgers, NEW W \in Writers, NEW L2 \in Ledgers, NEW W2 \in Writers,
         LedgerGrows(L, W, L2, W2), NEW t \in Term, NEW s \in Seq(Entry), NEW k \in Nat,
         Pfx(s, L[t], k)
  PROVE  Pfx(s, L2[t], k)
<1>1. L[t] \in Seq(Entry) /\ L2[t] \in Seq(Entry) /\ Len(L[t]) \in Nat
  BY LenProperties DEF Ledgers
<1>2. Pfx(L2[t], L[t], Len(L[t]))
  BY DEF LedgerGrows
<1>3. k <= Len(L[t]) /\ k <= k
  BY DEF Pfx
<1> QED
  BY <1>1, <1>2, <1>3, PfxSym, PfxVia

\* The entries of a log have terms.
LEMMA EntryTerm ==
  ASSUME NEW s \in Seq(Entry), NEW k \in 1..Len(s)
  PROVE  s[k] \in Entry /\ s[k].term \in Term /\ s[k].term \in Nat /\ s[k].term # 0
<1>1. s[k] \in Entry
  BY ElementOfSeq
<1> QED
  BY <1>1 DEF Entry, Term

\* Logs stay what leaders wrote.
LEMMA LogsWrittenStep ==
  ASSUME TypeOK, TypeOK', ElectionInv, NodeInv, NEW i \in Server, StepOf(i),
         NEW L \in Ledgers, NEW W \in Writers, LogInv(L, W),
         NEW L2 \in Ledgers, NEW W2 \in Writers, Carries(i, L, W, L2, W2)
  PROVE  LogsWritten(L2)'
<1> SUFFICES ASSUME NEW j \in Server, NEW k \in 1..Len(log'[j])
             PROVE  /\ log'[j][k].term <= current_term'[j]
                    /\ Pfx(log'[j], L2[log'[j][k].term], k)
  BY DEF LogsWritten
<1>1. LedgerGrows(L, W, L2, W2)
  BY LedgerExtends
<1>2. /\ log[j] \in Seq(Entry) /\ log'[j] \in Seq(Entry)
      /\ Len(log[j]) \in Nat /\ Len(log'[j]) \in Nat
  BY LenProperties DEF TypeOK
<1>3. k \in Nat /\ k \in 1..Len(log'[j])
  BY <1>2
<1>4. current_term[j] \in Nat /\ current_term'[j] \in Nat /\ current_term[j] <= current_term'[j]
  BY TermsGrow
<1>5. ASSUME k \in 1..Len(log[j]), Pfx(log'[j], log[j], k)
      PROVE  /\ log'[j][k].term <= current_term'[j]
             /\ Pfx(log'[j], L2[log'[j][k].term], k)
  <2>1. log'[j][k] = log[j][k]
    BY <1>3, <1>5 DEF Pfx
  <2>2. log[j][k].term <= current_term[j] /\ Pfx(log[j], L[log[j][k].term], k)
    BY <1>5 DEF LogInv, LogsWritten
  <2>3. log[j][k].term \in Term /\ log[j][k].term \in Nat
    BY <1>2, <1>5, EntryTerm
  <2>4. Pfx(log[j], L2[log[j][k].term], k) /\ L2[log[j][k].term] \in Seq(Entry)
    BY <1>1, <1>2, <1>3, <2>2, <2>3, LedgerKeeps DEF Ledgers
  <2>5. k <= k
    BY <1>3
  <2>6. Pfx(log'[j], L2[log[j][k].term], k)
    BY <1>2, <1>3, <1>5, <2>4, <2>5, PfxVia
  <2> QED
    BY <1>4, <2>1, <2>2, <2>3, <2>6
<1>6. CASE log'[j] = log[j]
  BY <1>2, <1>3, <1>5, <1>6, PfxSelf
<1>7. ASSUME NEW e \in Entry, Grows(i, e), j = i, L2 = [L EXCEPT ![e.term] = log'[i]]
      PROVE  /\ log'[j][k].term <= current_term'[j]
             /\ Pfx(log'[j], L2[log'[j][k].term], k)
  <2>1. /\ e.term \in Term /\ e.term = current_term[i]
        /\ Len(log[i]) \in Nat /\ Len(log'[i]) = Len(log[i]) + 1
        /\ \A n \in 1..Len(log[i]) : log'[i][n] = log[i][n]
        /\ log'[i][Len(log[i]) + 1] = e
    BY <1>7, GrowsFacts
  <2>2. CASE k <= Len(log[i])
    <3>1. k \in 1..Len(log[i]) /\ Pfx(log'[j], log[j], k)
      BY <1>3, <1>7, <2>1, <2>2 DEF Pfx
    <3> QED
      BY <1>5, <1>7, <3>1
  <2>3. CASE ~(k <= Len(log[i]))
    <3>1. k = Len(log[i]) + 1
      BY <1>3, <1>7, <2>1, <2>3
    <3>2. log'[j][k].term = e.term /\ L2[e.term] = log'[i]
      BY <1>7, <2>1, <3>1 DEF Ledgers
    <3>3. Pfx(log'[j], L2[e.term], k)
      BY <1>2, <1>3, <1>7, <3>2, PfxSelf
    <3> QED
      BY <1>4, <1>7, <2>1, <3>2, <3>3
  <2> QED
    BY <2>2, <2>3
<1>8. ASSUME NEW m \in msgs, Takes(i, m), j = i, log'[j] # log[j], L2 = L
      PROVE  /\ log'[j][k].term <= current_term'[j]
             /\ Pfx(log'[j], L2[log'[j][k].term], k)
  <2>1. /\ m.term \in Term /\ m.term \in Nat /\ L[m.term] \in Seq(Entry)
        /\ Len(L[m.term]) \in Nat /\ previous_matches(log[i], m)
        /\ m.prev_log_index \in Nat /\ m.kind = "AppendEntries" /\ current_term'[i] = m.term
    BY <1>8, RequestFacts DEF Takes
  <2>2. Pfx(log[i], L[m.term], m.prev_log_index)
    BY <2>1, PreviousAgrees
  <2>3. Pfx(log'[i], L[m.term], Len(log'[i]))
    BY <1>8, <2>1, <2>2, TakesKeeps
  <2>4. k \in 1..Len(L[m.term]) /\ log'[i][k] = L[m.term][k]
    BY <1>2, <1>3, <1>8, <2>1, <2>3 DEF Pfx
  <2>5. L[m.term][k].term <= m.term /\ Pfx(L[m.term], L[L[m.term][k].term], k)
    BY <2>1, <2>4 DEF LogInv, LedgerSound
  <2>6. L[m.term][k].term \in Term
    BY <2>1, <2>4, EntryTerm
  <2>7. L[L[m.term][k].term] \in Seq(Entry) /\ k <= k /\ k <= Len(log'[i])
    BY <1>3, <1>8, <2>6 DEF Ledgers
  <2>8. Pfx(log'[i], L[L[m.term][k].term], k)
    BY SMTT(30), <1>2, <1>3, <1>8, <2>1, <2>3, <2>5, <2>7, PfxVia
  <2> QED
    BY <1>8, <2>1, <2>4, <2>5, <2>8
<1>9. j # i => log'[j] = log[j]
  BY DEF StepOf, Frame
<1>10. CASE Rests(i) \/ Commits(i) \/ Campaigns(i) \/ \E m \in msgs : Votes(i, m)
  <2>1. UNCHANGED log
    BY <1>10 DEF Rests, Commits, Campaigns, Votes
  <2> QED
    BY <1>6, <2>1
<1> QED
  BY <1>6, <1>7, <1>8, <1>9, <1>10 DEF Carries

\* The ledger stays sound: what a leader adds is what its own log says.
LEMMA LedgerSoundStep ==
  ASSUME TypeOK, TypeOK', ElectionInv, NodeInv, NEW i \in Server, StepOf(i),
         NEW L \in Ledgers, NEW W \in Writers, LogInv(L, W),
         NEW L2 \in Ledgers, NEW W2 \in Writers, Carries(i, L, W, L2, W2)
  PROVE  LedgerSound(L2)
<1> SUFFICES ASSUME NEW t \in Term, NEW k \in 1..Len(L2[t])
             PROVE  L2[t][k].term <= t /\ Pfx(L2[t], L2[L2[t][k].term], k)
  BY DEF LedgerSound
<1>1. LedgerGrows(L, W, L2, W2) /\ LogsWritten(L2)'
  BY LedgerExtends, LogsWrittenStep
<1>2. CASE L2[t] = L[t]
  <2>1. L[t] \in Seq(Entry) /\ k \in 1..Len(L[t]) /\ k \in Nat
    BY <1>2, LenProperties DEF Ledgers
  <2>2. L[t][k].term <= t /\ Pfx(L[t], L[L[t][k].term], k)
    BY <2>1 DEF LogInv, LedgerSound
  <2>3. L[t][k].term \in Term
    BY <2>1, EntryTerm
  <2>4. Pfx(L[t], L2[L[t][k].term], k)
    BY <1>1, <2>1, <2>2, <2>3, LedgerKeeps
  <2> QED
    BY <1>2, <2>2, <2>4
<1>3. ASSUME NEW e \in Entry, Grows(i, e), L2 = [L EXCEPT ![e.term] = log'[i]], L2[t] # L[t]
      PROVE  L2[t][k].term <= t /\ Pfx(L2[t], L2[L2[t][k].term], k)
  <2>1. t = e.term /\ L2[t] = log'[i]
    BY <1>3 DEF Ledgers
  <2>2. e.term = current_term[i] /\ current_term'[i] = current_term[i]
    BY <1>3 DEF Grows
  <2> QED
    BY <1>1, <2>1, <2>2 DEF LogsWritten
<1> QED
  BY <1>2, <1>3 DEF Carries

\* A leader has the log the ledger says.
LEMMA LeadersWriteStep ==
  ASSUME TypeOK, TypeOK', ElectionInv, NodeInv, NodeInv', NEW i \in Server, StepOf(i),
         NEW L \in Ledgers, NEW W \in Writers, LogInv(L, W),
         NEW L2 \in Ledgers, NEW W2 \in Writers, Carries(i, L, W, L2, W2)
  PROVE  LeadersWrite(L2, W2)'
<1> SUFFICES ASSUME NEW j \in Server, leader_term'[j] # 0
             PROVE  W2[leader_term'[j]] = j /\ L2[leader_term'[j]] = log'[j]
  BY DEF LeadersWrite
<1>0. leader_term'[j] \in Term /\ leader_term[j] \in Term
  BY DEF TypeOK
<1>1. Nobody # j /\ Nobody # i
  BY ServerAssumption
<1>2. ASSUME leader_term'[j] = leader_term[j], log'[j] = log[j], L2 = L, W2 = W
      PROVE  W2[leader_term'[j]] = j /\ L2[leader_term'[j]] = log'[j]
  BY <1>2 DEF LogInv, LeadersWrite
<1>3. ASSUME NEW e \in Entry, Grows(i, e), L2 = [L EXCEPT ![e.term] = log'[i]],
             W2 = [W EXCEPT ![e.term] = i]
      PROVE  W2[leader_term'[j]] = j /\ L2[leader_term'[j]] = log'[j]
  <2>1. e.term \in Term /\ e.term # 0 /\ (W[e.term] = i \/ W[e.term] = Nobody)
    BY <1>3, GrowsFacts
  <2>2. CASE j = i
    <3>1. leader_term'[i] = e.term
      BY <1>3, <2>2 DEF Grows, MatchStep
    <3> QED
      BY <1>3, <2>1, <2>2, <3>1 DEF Ledgers, Writers
  <2>3. CASE j # i
    <3>1. leader_term'[j] = leader_term[j] /\ log'[j] = log[j]
      BY <2>3 DEF StepOf, Frame
    <3>2. W[leader_term[j]] = j /\ L[leader_term[j]] = log[j]
      BY <3>1 DEF LogInv, LeadersWrite
    <3>3. leader_term[j] # e.term
      BY <1>1, <2>1, <2>3, <3>2
    <3> QED
      BY <1>0, <1>3, <3>1, <3>2, <3>3 DEF Ledgers, Writers
  <2> QED
    BY <2>2, <2>3
<1>4. CASE L2 = L /\ W2 = W /\ j # i
  BY <1>2, <1>4 DEF StepOf, Frame
<1>5. CASE L2 = L /\ W2 = W /\ j = i /\ (Rests(i) \/ Commits(i))
  BY <1>2, <1>5 DEF Rests, Commits, MatchStep
<1>6. ASSUME L2 = L, W2 = W, j = i, Campaigns(i) \/ \E m \in msgs : Votes(i, m) \/ Takes(i, m)
      PROVE  W2[leader_term'[j]] = j /\ L2[leader_term'[j]] = log'[j]
  BY <1>2, <1>6 DEF Campaigns, Votes, Takes
<1> QED
  BY <1>3, <1>4, <1>5, <1>6 DEF Carries

\* Requests stay parts of their leader's log.
LEMMA RequestsWrittenStep ==
  ASSUME TypeOK, TypeOK', ElectionInv, NodeInv, NodeInv', NEW i \in Server, StepOf(i),
         NEW L \in Ledgers, NEW W \in Writers, LogInv(L, W),
         NEW L2 \in Ledgers, NEW W2 \in Writers, Carries(i, L, W, L2, W2)
  PROVE  RequestsWritten(L2, W2)'
<1> SUFFICES ASSUME NEW m \in msgs', m.kind = "AppendEntries"
             PROVE  m.from = W2[m.term] /\ FromLog(m, L2[m.term])
  BY DEF RequestsWritten
<1>1. LedgerGrows(L, W, L2, W2) /\ LeadersWrite(L2, W2)'
  BY LedgerExtends, LeadersWriteStep
<1>2. CASE m \in msgs
  <2>1. /\ m.term \in Term /\ m.from \in Server /\ m.prev_log_index \in Nat
        /\ Len(m.entries) \in Nat /\ L[m.term] \in Seq(Entry) /\ Len(L[m.term]) \in Nat
        /\ W[m.term] = m.from /\ FromLog(m, L[m.term])
        /\ m.prev_log_index + Len(m.entries) <= Len(L[m.term])
    BY <1>2, RequestFacts
  <2>2. W2[m.term] = m.from
    BY <1>1, <2>1, ServerAssumption DEF LedgerGrows
  <2>3. /\ Len(L2[m.term]) \in Nat /\ Len(L[m.term]) <= Len(L2[m.term])
        /\ \A k \in 1..Len(L[m.term]) : L2[m.term][k] = L[m.term][k]
    BY <1>1, <2>1, LenProperties DEF LedgerGrows, Pfx, Ledgers
  <2>4. \A k \in 1..Len(m.entries) : m.prev_log_index + k \in 1..Len(L[m.term])
    BY <2>1
  <2>5. m.prev_log_index # 0 => m.prev_log_index \in 1..Len(L[m.term])
    BY <2>1
  <2>6. matched_index(m) = m.prev_log_index + Len(m.entries)
    BY DEF matched_index
  <2>7. matched_index(m) <= Len(L2[m.term])
    BY <2>1, <2>3, <2>6
  <2>8. \A k \in 1..Len(m.entries) : m.entries[k] = L2[m.term][m.prev_log_index + k]
    BY <2>1, <2>3, <2>4 DEF FromLog
  <2>9. m.prev_log_term = IF m.prev_log_index = 0 THEN 0 ELSE L2[m.term][m.prev_log_index].term
    BY <2>1, <2>3, <2>5 DEF FromLog
  <2> QED
    BY <2>2, <2>7, <2>8, <2>9 DEF FromLog
<1>3. CASE m \notin msgs
  <2>1. NewRequest(i, m)
    BY <1>3 DEF StepOf, SentStep
  <2>2. W2[leader_term'[i]] = i /\ L2[leader_term'[i]] = log'[i]
    BY <1>1, <2>1 DEF NewRequest, LeadersWrite
  <2> QED
    BY <2>1, <2>2 DEF NewRequest
<1> QED
  BY <1>2, <1>3

\* Writers stay elected, once.
LEMMA WritersLedStep ==
  ASSUME TypeOK, TypeOK', ElectionInv, NodeInv, NEW i \in Server, StepOf(i),
         NEW L \in Ledgers, NEW W \in Writers, LogInv(L, W),
         NEW L2 \in Ledgers, NEW W2 \in Writers, Carries(i, L, W, L2, W2)
  PROVE  WritersLed(L2, W2)'
<1> SUFFICES ASSUME NEW t \in Term
             PROVE  /\ L2[t] = <<>> <=> W2[t] = Nobody
                    /\ W2[t] # Nobody =>
                         /\ Elected(W2[t], t)'
                         /\ current_term'[W2[t]] >= t
                         /\ ~(Standing(W2[t])' /\ election_term'[W2[t]] = t)
  BY DEF WritersLed
<1>1. t \in Nat
  BY DEF Term
<1>2. msgs \subseteq msgs'
  BY DEF StepOf, SentStep
<1>3. CASE L2[t] = L[t] /\ W2[t] = W[t]
  <2>1. L2[t] = <<>> <=> W2[t] = Nobody
    BY <1>3 DEF LogInv, WritersLed
  <2>2. ASSUME W[t] # Nobody
        PROVE  /\ Elected(W[t], t)' /\ current_term'[W[t]] >= t
               /\ ~(Standing(W[t])' /\ election_term'[W[t]] = t)
    <3>1. /\ W[t] \in Server /\ Elected(W[t], t) /\ current_term[W[t]] >= t
          /\ ~(Standing(W[t]) /\ election_term[W[t]] = t)
      BY <2>2 DEF Writers, LogInv, WritersLed
    <3>2. Elected(W[t], t)'
      BY <1>2, <3>1, ElectedForGood
    <3>3. /\ current_term[W[t]] \in Nat /\ current_term'[W[t]] \in Nat
          /\ current_term[W[t]] <= current_term'[W[t]]
      BY <3>1, TermsGrow
    <3>4. ~(Standing(W[t])' /\ election_term'[W[t]] = t)
      <4>1. CASE W[t] = i
        BY <1>1, <3>1, <3>3, <4>1 DEF StepOf, SentStep
      <4>2. CASE W[t] # i
        BY <3>1, <4>2 DEF StepOf, Frame, Standing, Live
      <4> QED
        BY <4>1, <4>2
    <3> QED
      BY <1>1, <3>1, <3>2, <3>3, <3>4
  <2> QED
    BY <1>3, <2>1, <2>2
<1>4. ASSUME NEW e \in Entry, Grows(i, e), L2 = [L EXCEPT ![e.term] = log'[i]],
             W2 = [W EXCEPT ![e.term] = i], t = e.term
      PROVE  /\ L2[t] = <<>> <=> W2[t] = Nobody
             /\ W2[t] # Nobody =>
                  /\ Elected(W2[t], t)'
                  /\ current_term'[W2[t]] >= t
                  /\ ~(Standing(W2[t])' /\ election_term'[W2[t]] = t)
  <2>1. L2[t] = log'[i] /\ W2[t] = i
    BY <1>4 DEF Ledgers, Writers
  <2>2. Len(log[i]) \in Nat /\ Len(log'[i]) = Len(log[i]) + 1
    BY <1>4, GrowsFacts
  <2>3. log'[i] # <<>> /\ i # Nobody
    BY <2>2, EmptySeq, ServerAssumption
  <2>4. Elected(i, t)
    BY <1>4 DEF Grows, Entry, ElectionInv, LeadersElected, Elected, Standing, Granted
  <2>5. Elected(i, t)'
    BY <1>2, <2>4, ElectedForGood
  <2>6. current_term'[i] >= t /\ ~Standing(i)'
    BY <1>1, <1>4 DEF Grows
  <2> QED
    BY <2>1, <2>3, <2>5, <2>6
<1>5. ASSUME NEW e \in Entry, L2 = [L EXCEPT ![e.term] = log'[i]],
             W2 = [W EXCEPT ![e.term] = i], t # e.term
      PROVE  L2[t] = L[t] /\ W2[t] = W[t]
  BY <1>5 DEF Ledgers, Writers
<1> QED
  BY <1>3, <1>4, <1>5 DEF Carries

\* Together: a step keeps every log a part of the ledger.
LEMMA LogStep ==
  ASSUME TypeOK, TypeOK', ElectionInv, NodeInv, NodeInv', NEW i \in Server, StepOf(i),
         NEW L \in Ledgers, NEW W \in Writers, LogInv(L, W),
         NEW L2 \in Ledgers, NEW W2 \in Writers, Carries(i, L, W, L2, W2)
  PROVE  LogInv(L2, W2)'
BY LogsWrittenStep, LedgerSoundStep, LeadersWriteStep, RequestsWrittenStep, WritersLedStep
DEF LogInv, LedgerSound

-----------------------------------------------------------------------------
(* The invariant and what follows from it.                                 *)

\* In every reachable state all logs are parts of one ledger.
Written == \E L \in Ledgers, W \in Writers : LogInv(L, W)

\* The ledger before anyone has led.
EmptyLedger == [t \in Term |-> <<>>]

NoWriters == [t \in Term |-> Nobody]

\* A new cluster has written nothing.
LEMMA LogInit ==
  ASSUME Init
  PROVE  EmptyLedger \in Ledgers /\ NoWriters \in Writers /\ LogInv(EmptyLedger, NoWriters)
<1>1. Len(<<>>) = 0 /\ <<>> \in Seq(Entry)
  BY EmptySeq
<1>2. EmptyLedger \in Ledgers /\ NoWriters \in Writers
  BY <1>1 DEF EmptyLedger, NoWriters, Ledgers, Writers
<1>3. \A t \in Term : EmptyLedger[t] = <<>> /\ NoWriters[t] = Nobody
  BY DEF EmptyLedger, NoWriters
<1>4. \A j \in Server : log[j] = <<>> /\ leader_term[j] = 0
  BY DEF Init
<1>5. msgs = {}
  BY DEF Init
<1>6. \A k \in 1..0 : FALSE
  OBVIOUS
<1> QED
  BY <1>1, <1>2, <1>3, <1>4, <1>5, <1>6
  DEF LogInv, LogsWritten, LedgerSound, RequestsWritten, WritersLed, LeadersWrite

\* Doing nothing changes nothing.
LEMMA LogStutter ==
  ASSUME UNCHANGED vars, NEW L, NEW W, LogInv(L, W)
  PROVE  LogInv(L, W)'
BY DEF vars, metadata, node, election, leader, LogInv, LogsWritten, LedgerSound, RequestsWritten,
       WritersLed, LeadersWrite, Elected, Standing, Live

\* In every reachable state there is a ledger of what the leaders wrote, and all
\* logs and requests are parts of it.
THEOREM LogsAreWritten == Spec => []Written
<1>1. Init => Written
  BY LogInit DEF Written
<1>2. TypeOK /\ TypeOK' /\ ElectionInv /\ NodeInv /\ NodeInv' /\ Written /\ [Next]_vars => Written'
  <2> SUFFICES ASSUME TypeOK, TypeOK', ElectionInv, NodeInv, NodeInv', Written, [Next]_vars
               PROVE  Written'
    OBVIOUS
  <2>1. PICK L \in Ledgers, W \in Writers : LogInv(L, W)
    BY DEF Written
  <2>2. CASE UNCHANGED vars
    BY <2>1, <2>2, LogStutter DEF Written
  <2>3. CASE Next
    <3>1. PICK i \in Server : StepOf(i)
      BY <2>3, NodeStep
    <3>2. PICK L2 \in Ledgers, W2 \in Writers : Carries(i, L, W, L2, W2)
      BY <3>1, LedgerExists
    <3>3. LogInv(L2, W2)'
      BY <2>1, <3>1, <3>2, LogStep
    <3> QED
      BY <3>3 DEF Written
  <2> QED
    BY <2>2, <2>3
<1> QED
  BY <1>1, <1>2, TypeCorrect, ElectionInvariant, NodeInvariant, PTL DEF Spec

\* Two logs that hold an entry of one term at one index are the same up to it,
\* through crashes, torn batches and truncations: handle_append_entries may take
\* equal index and term for the same command.
THEOREM LogsMatch == Spec => []LogMatching
<1>1. TypeOK /\ Written => LogMatching
  <2> SUFFICES ASSUME TypeOK, Written, NEW i \in Server, NEW j \in Server,
                      NEW k \in 1..Len(log[i]), has_entry(log[j], k, log[i][k].term)
               PROVE  SubSeq(log[i], 1, k) = SubSeq(log[j], 1, k)
    BY DEF LogMatching
  <2>1. PICK L \in Ledgers, W \in Writers : LogInv(L, W)
    BY DEF Written
  <2>2. /\ log[i] \in Seq(Entry) /\ log[j] \in Seq(Entry)
        /\ k \in Nat /\ k \in 1..Len(log[j]) /\ log[j][k].term = log[i][k].term
    BY LenProperties DEF TypeOK, has_entry
  <2>3. log[i][k].term \in Term
    BY <2>2, EntryTerm
  <2>4. L[log[i][k].term] \in Seq(Entry) /\ k <= k
    BY <2>2, <2>3 DEF Ledgers
  <2>5. Pfx(log[i], L[log[i][k].term], k) /\ Pfx(log[j], L[log[i][k].term], k)
    BY <2>1, <2>2 DEF LogInv, LogsWritten
  <2>6. Pfx(log[i], log[j], k)
    BY <2>2, <2>4, <2>5, PfxSym, PfxVia
  <2> QED
    BY <2>2, <2>6, PfxSubSeq
<1> QED
  BY <1>1, TypeCorrect, LogsAreWritten, PTL

-----------------------------------------------------------------------------
(* Acknowledgments.                                                        *)

\* The only new acknowledgment is a follower's, for the request it has just taken.
LEMMA NewAck ==
  ASSUME NEW i \in Server, StepOf(i), NEW r \in msgs', Success(r), r \notin msgs
  PROVE  \E m \in msgs : /\ Takes(i, m) /\ r = AppendReply(i, m, m.term, TRUE)
                         /\ log'[i] = MergedLog(log[i], m) /\ ~InvalidRequest(i, m)
<1>1. ~Calm
  BY DEF Calm
<1>2. ~Rests(i) /\ ~Commits(i) /\ ~\E e \in Entry : Grows(i, e)
  BY <1>1 DEF Rests, Commits, Grows
<1>3. ~Campaigns(i) /\ ~\E m \in msgs : Votes(i, m)
  BY DEF Campaigns, Votes, Success
<1>4. PICK m \in msgs : Takes(i, m)
  BY <1>2, <1>3 DEF StepOf
<1> QED
  BY <1>4 DEF Takes

\* What an acknowledgment is about.
LEMMA AckFacts ==
  ASSUME TypeOK, NEW L \in Ledgers, NEW W \in Writers, LogInv(L, W), AcksSent,
         NEW r \in msgs, Success(r)
  PROVE  /\ r.from \in Server /\ r.term \in Term /\ r.term \in Nat
         /\ matched_index(r.replied_to) \in Nat
         /\ matched_index(r.replied_to) <= Len(L[r.term])
         /\ current_term[r.from] >= r.term
<1>1. r \in AppendEntriesReply
  BY MessageKinds DEF TypeOK, Success
<1>2. r.from \in Server /\ r.term \in Term /\ r.replied_to \in AppendEntries
  BY <1>1 DEF AppendEntriesReply
<1>3. r.replied_to.kind = "AppendEntries"
  BY <1>2 DEF AppendEntries
<1>4. /\ r.replied_to \in msgs /\ r.term = r.replied_to.term
      /\ current_term[r.from] >= r.term
  BY DEF AcksSent
<1>5. /\ matched_index(r.replied_to) \in Nat
      /\ matched_index(r.replied_to) <= Len(L[r.replied_to.term])
      /\ r.replied_to.term \in Nat
  BY <1>3, <1>4, RequestFacts
<1> QED
  BY <1>2, <1>4, <1>5

\* Who has acknowledged something of a term has reached the term.
LEMMA AckedTerm ==
  ASSUME TypeOK, NEW L \in Ledgers, NEW W \in Writers, LogInv(L, W), AcksSent,
         NEW q \in Server, NEW t \in Term, NEW k, Acked(W, q, t, k)
  PROVE  current_term[q] >= t
<1>1. CASE W[t] = q
  BY <1>1, ServerAssumption DEF LogInv, WritersLed
<1>2. CASE Replied(q, t, k)
  BY <1>2, AckFacts DEF Replied
<1> QED
  BY <1>1, <1>2 DEF Acked

\* Acknowledgments are not forgotten.
LEMMA AckedStays ==
  ASSUME NEW i \in Server, StepOf(i), NEW L, NEW W, NEW L2, NEW W2, LedgerGrows(L, W, L2, W2),
         NEW q \in Server, NEW t \in Term, NEW k, Acked(W, q, t, k)
  PROVE  Acked(W2, q, t, k)'
<1>1. msgs \subseteq msgs'
  BY DEF StepOf, SentStep
<1>2. W[t] = q => W2[t] = q
  BY ServerAssumption DEF LedgerGrows
<1> QED
  BY <1>1, <1>2 DEF Acked, Replied

\* A new acknowledgment of an old entry is one for the request just taken.
LEMMA AckedNew ==
  ASSUME NEW i \in Server, StepOf(i), NEW L \in Ledgers, NEW W \in Writers, LogInv(L, W),
         NEW L2, NEW W2, LedgerGrows(L, W, L2, W2),
         NEW q \in Server, NEW t \in Term, NEW k, L[t] # <<>>,
         Acked(W2, q, t, k)', ~Acked(W, q, t, k)
  PROVE  \E m \in msgs : /\ Takes(i, m) /\ q = i /\ t = m.term /\ matched_index(m) >= k
                         /\ log'[i] = MergedLog(log[i], m) /\ ~InvalidRequest(i, m)
<1>1. W2[t] = W[t]
  BY DEF LogInv, WritersLed, LedgerGrows
<1>2. PICK r \in msgs' : /\ Success(r) /\ r.from = q /\ r.term = t
                         /\ matched_index(r.replied_to) >= k
  BY <1>1 DEF Acked, Replied
<1>3. r \notin msgs
  BY <1>2 DEF Acked, Replied
<1>4. PICK m \in msgs : /\ Takes(i, m) /\ r = AppendReply(i, m, m.term, TRUE)
                        /\ log'[i] = MergedLog(log[i], m) /\ ~InvalidRequest(i, m)
  BY <1>2, <1>3, NewAck
<1>5. r.from = i /\ r.term = m.term /\ r.replied_to = m
  BY <1>4 DEF AppendReply
<1> QED
  BY <1>2, <1>4, <1>5

\* What is dead stays dead.
LEMMA DeadStays ==
  ASSUME TypeOK, TypeOK', NEW i \in Server, StepOf(i),
         NEW L \in Ledgers, NEW W \in Writers, LogInv(L, W),
         NEW L2, NEW W2, LedgerGrows(L, W, L2, W2),
         NEW t \in Term, NEW k, L[t] # <<>>, Dead(W, t, k)
  PROVE  Dead(W2, t, k)'
<1>0. t \in Nat
  BY DEF Term
<1>1. ASSUME NEW p \in Server, current_term[p] > t, ~Acked(W, p, t, k)
      PROVE  current_term'[p] > t /\ ~Acked(W2, p, t, k)'
  <2>1. /\ current_term[p] \in Nat /\ current_term'[p] \in Nat
        /\ current_term[p] <= current_term'[p]
    BY TermsGrow
  <2>2. current_term'[p] > t
    BY <1>0, <1>1, <2>1
  <2>3. ASSUME Acked(W2, p, t, k)' PROVE FALSE
    <3>1. PICK m \in msgs : Takes(i, m) /\ p = i /\ t = m.term
      BY <1>1, <2>3, AckedNew
    <3>2. current_term'[p] = t
      BY <3>1 DEF Takes
    <3> QED
      BY <1>0, <2>1, <2>2, <3>2
  <2> QED
    BY <2>2, <2>3
<1>2. PICK p \in Server, q \in Server :
        /\ p # q
        /\ current_term[p] > t /\ ~Acked(W, p, t, k)
        /\ current_term[q] > t /\ ~Acked(W, q, t, k)
  BY DEF Dead
<1>3. current_term'[p] > t /\ ~Acked(W2, p, t, k)'
  BY <1>1, <1>2
<1>4. current_term'[q] > t /\ ~Acked(W2, q, t, k)'
  BY <1>1, <1>2
<1> QED
  BY <1>2, <1>3, <1>4 DEF Dead

\* An entry of its own that a leader has just written is nobody else's yet.
LEMMA FreshEntry ==
  ASSUME TypeOK, TypeOK', ElectionInv, NodeInv, NEW i \in Server, StepOf(i),
         NEW L \in Ledgers, NEW W \in Writers, LogInv(L, W), AcksSent,
         NEW L2 \in Ledgers, NEW W2 \in Writers, Carries(i, L, W, L2, W2),
         NEW t \in Term, NEW k, Own(L2, t, k), ~Own(L, t, k)
  PROVE  /\ L2[t] = log'[i] /\ t = current_term[i]
         /\ \A u \in Term : u # t => L2[u] = L[u] /\ W2[u] = W[u]
         /\ Calm /\ UNCHANGED current_term
         /\ \A q \in Server : Acked(W2, q, t, k)' => q = i
<1>0. LedgerGrows(L, W, L2, W2)
  BY LedgerExtends
<1>1. L2[t] # L[t]
  BY DEF Own
<1>2. PICK e \in Entry : /\ Grows(i, e) /\ L2 = [L EXCEPT ![e.term] = log'[i]]
                         /\ W2 = [W EXCEPT ![e.term] = i]
  BY <1>1 DEF Carries
<1>3. t = e.term /\ L2[t] = log'[i] /\ W2[t] = i
  BY <1>1, <1>2 DEF Ledgers, Writers
<1>4. \A u \in Term : u # t => L2[u] = L[u] /\ W2[u] = W[u]
  BY <1>2, <1>3 DEF Ledgers, Writers
<1>5. Calm /\ UNCHANGED current_term /\ t = current_term[i]
  BY <1>2, <1>3 DEF Grows
<1>6. k \in Nat /\ Len(L[t]) \in Nat /\ k > Len(L[t])
  <2>1. Len(L[t]) \in Nat /\ Len(L2[t]) \in Nat
    BY LenProperties DEF Ledgers
  <2>2. k \in Nat /\ k >= 1
    BY <2>1 DEF Own
  <2>3. CASE k <= Len(L[t])
    <3>1. k \in 1..Len(L[t])
      BY <2>1, <2>2, <2>3
    <3>2. L2[t][k] = L[t][k]
      BY <1>0, <3>1 DEF LedgerGrows, Pfx
    <3> QED
      BY <3>1, <3>2 DEF Own
  <2> QED
    BY <2>1, <2>2, <2>3
<1>7. ASSUME NEW q \in Server, Replied(q, t, k)' PROVE FALSE
  <2>1. PICK r \in msgs' : Success(r) /\ r.term = t /\ matched_index(r.replied_to) >= k
    BY <1>7 DEF Replied
  <2>2. r \in msgs
    BY <1>5, <2>1 DEF Calm
  <2>3. matched_index(r.replied_to) \in Nat /\ matched_index(r.replied_to) <= Len(L[t])
    BY <2>1, <2>2, AckFacts
  <2> QED
    BY <1>6, <2>1, <2>3
<1> QED
  BY <1>3, <1>4, <1>5, <1>7 DEF Acked

\* Acknowledgments stay answers to requests.
LEMMA AcksSentStep ==
  ASSUME TypeOK, TypeOK', NEW i \in Server, StepOf(i),
         NEW L \in Ledgers, NEW W \in Writers, LogInv(L, W), AcksSent
  PROVE  AcksSent'
<1> SUFFICES ASSUME NEW r \in msgs', Success(r)
             PROVE  /\ r.replied_to \in msgs' /\ r.term = r.replied_to.term
                    /\ r.from = r.replied_to.to /\ r.to = r.replied_to.from
                    /\ current_term'[r.from] >= r.term
  BY DEF AcksSent, Success
<1>1. msgs \subseteq msgs'
  BY DEF StepOf, SentStep
<1>2. CASE r \in msgs
  <2>1. r.from \in Server /\ r.term \in Nat /\ current_term[r.from] >= r.term
    BY <1>2, AckFacts
  <2>2. /\ current_term[r.from] \in Nat /\ current_term'[r.from] \in Nat
        /\ current_term[r.from] <= current_term'[r.from]
    BY <2>1, TermsGrow
  <2>3. current_term'[r.from] >= r.term
    BY <2>1, <2>2
  <2> QED
    BY <1>1, <1>2, <2>3 DEF AcksSent
<1>3. CASE r \notin msgs
  <2>1. PICK m \in msgs : Takes(i, m) /\ r = AppendReply(i, m, m.term, TRUE)
    BY <1>3, NewAck
  <2>2. r.from = i /\ r.to = m.from /\ r.term = m.term /\ r.replied_to = m
    BY <2>1 DEF AppendReply
  <2>3. m.to = i /\ current_term'[i] = m.term
    BY <2>1 DEF Takes
  <2>4. m.term \in Nat
    BY <2>1, RequestFacts DEF Takes
  <2> QED
    BY <1>1, <2>2, <2>3, <2>4
<1> QED
  BY <1>2, <1>3

\* A follower keeps what it acknowledged while it stays in the term.
LEMMA AcksDurableStep ==
  ASSUME TypeOK, TypeOK', ElectionInv, NodeInv, NEW i \in Server, StepOf(i),
         NEW L \in Ledgers, NEW W \in Writers, LogInv(L, W), AcksSent, AcksDurable(L),
         NEW L2 \in Ledgers, NEW W2 \in Writers, Carries(i, L, W, L2, W2)
  PROVE  AcksDurable(L2)'
<1> SUFFICES ASSUME NEW r \in msgs', Success(r), current_term'[r.from] = r.term
             PROVE  Pfx(log'[r.from], L2[r.term], matched_index(r.replied_to))
  BY DEF AcksDurable, Success
<1> DEFINE K == matched_index(r.replied_to)
<1>0. LedgerGrows(L, W, L2, W2)
  BY LedgerExtends
<1>1. CASE r \in msgs
  <2>1. /\ r.from \in Server /\ r.term \in Term /\ r.term \in Nat
        /\ K \in Nat /\ current_term[r.from] >= r.term
    BY <1>1, AckFacts
  <2>2. /\ current_term[r.from] \in Nat /\ current_term'[r.from] \in Nat
        /\ current_term[r.from] <= current_term'[r.from]
    BY <2>1, TermsGrow
  <2>3. current_term[r.from] = r.term
    BY <2>1, <2>2
  <2>4. Pfx(log[r.from], L[r.term], K)
    BY <1>1, <2>3 DEF AcksDurable
  <2>5. L[r.term] \in Seq(Entry) /\ log'[r.from] \in Seq(Entry)
    BY <2>1 DEF Ledgers, TypeOK
  <2>6. Pfx(L[r.term], L[r.term], K)
    BY <2>1, <2>4, <2>5, PfxSelf DEF Pfx
  <2>7. \A m \in msgs : r.from = i /\ Takes(i, m) => Pfx(L[r.term], L[m.term], K)
    BY <2>6 DEF Takes
  <2> HIDE DEF K
  <2>8. Pfx(log'[r.from], L[r.term], K)
    BY <2>1, <2>4, <2>5, <2>7, LogKeeps
  <2>9. Pfx(log'[r.from], L2[r.term], K)
    BY <1>0, <2>1, <2>5, <2>8, LedgerKeeps
  <2> QED
    BY <2>9 DEF K
<1>2. CASE r \notin msgs
  <2>1. PICK m \in msgs : /\ Takes(i, m) /\ r = AppendReply(i, m, m.term, TRUE)
                          /\ log'[i] = MergedLog(log[i], m) /\ ~InvalidRequest(i, m)
    BY <1>2, NewAck
  <2>2. r.from = i /\ r.term = m.term /\ r.replied_to = m
    BY <2>1 DEF AppendReply
  <2>3. Pfx(log'[i], L[m.term], matched_index(m))
    BY <2>1, TakesHolds
  <2>4. m.term \in Term /\ matched_index(m) \in Nat
    BY <2>1, RequestFacts DEF Takes
  <2>5. log'[i] \in Seq(Entry)
    BY DEF TypeOK
  <2>6. PICK lg \in Seq(Entry) : lg = log'[i]
    BY <2>5
  <2>7. Pfx(lg, L2[m.term], matched_index(m))
    BY <1>0, <2>3, <2>4, <2>6, LedgerKeeps
  <2> QED
    BY <2>2, <2>6, <2>7
<1> QED
  BY <1>1, <1>2

-----------------------------------------------------------------------------
(* Later leaders.                                                          *)

\* What a node holds of a leader's own entries survives every step unless it is
\* dead: the leaders it may take entries from have it too.
LEMMA HeldStays ==
  ASSUME TypeOK, TypeOK', ElectionInv, NodeInv, NEW i \in Server, StepOf(i),
         NEW L \in Ledgers, NEW W \in Writers, LogInv(L, W), AcksSent, LeadersKeep(L, W),
         NEW q \in Server, NEW t \in Term, NEW k, Own(L, t, k), Acked(W, q, t, k),
         Pfx(log[q], L[t], k), ~Dead(W, t, k)
  PROVE  Pfx(log'[q], L[t], k)
<1>1. L[t] \in Seq(Entry) /\ Len(L[t]) \in Nat /\ t \in Nat
  BY LenProperties DEF Ledgers, Term
<1>2. k \in Nat /\ k \in 1..Len(L[t]) /\ k <= Len(L[t])
  BY <1>1 DEF Own
<1>3. ASSUME NEW m \in msgs, q = i, Takes(i, m) PROVE Pfx(L[t], L[m.term], k)
  <2>1. m.term \in Term /\ m.term \in Nat /\ L[m.term] # <<>>
    BY <1>3, RequestFacts DEF Takes
  <2>2. current_term[i] >= t /\ current_term[i] \in Nat /\ m.term >= current_term[i]
    <3>1. current_term[q] >= t
      BY AckedTerm
    <3>2. current_term[i] \in Nat
      BY DEF TypeOK, Term
    <3> QED
      BY <1>3, <3>1, <3>2 DEF Takes
  <2>3. CASE m.term = t
    BY <1>1, <1>2, <2>3, PfxSelf
  <2>4. CASE t < m.term
    <3>1. Pfx(L[m.term], L[t], k)
      BY <1>2, <2>1, <2>4 DEF LeadersKeep
    <3> QED
      BY <3>1, PfxSym
  <2> QED
    BY <1>1, <2>1, <2>2, <2>3, <2>4
<1> QED
  BY <1>1, <1>2, <1>3, LogKeeps

\* What was acknowledged stays unless it is dead.
LEMMA AcksHeldStep ==
  ASSUME TypeOK, TypeOK', ElectionInv, NodeInv, NEW i \in Server, StepOf(i),
         NEW L \in Ledgers, NEW W \in Writers, LogInv(L, W), QuorumInv(L, W),
         NEW L2 \in Ledgers, NEW W2 \in Writers, Carries(i, L, W, L2, W2)
  PROVE  AcksHeld(L2, W2)'
<1> SUFFICES ASSUME NEW q \in Server, NEW t \in Term, NEW k \in 1..Len(L2[t]),
                    Own(L2, t, k), Acked(W2, q, t, k)', ~Dead(W2, t, k)'
             PROVE  Pfx(log'[q], L2[t], k)
  BY DEF AcksHeld, Own
<1>0. LedgerGrows(L, W, L2, W2) /\ AcksSent /\ LeadersKeep(L, W) /\ AcksHeld(L, W)
  BY LedgerExtends DEF QuorumInv
<1>1. /\ L2[t] \in Seq(Entry) /\ Len(L2[t]) \in Nat /\ k \in Nat /\ k <= Len(L2[t])
      /\ log'[q] \in Seq(Entry)
  BY LenProperties DEF Ledgers, TypeOK
<1>2. CASE ~Own(L, t, k)
  <2>1. L2[t] = log'[i] /\ q = i
    BY <1>0, <1>2, FreshEntry
  <2>2. Pfx(L2[t], L2[t], k)
    BY <1>1, PfxSelf
  <2> QED
    BY <2>1, <2>2
<1>3. CASE Own(L, t, k)
  <2>1. k \in 1..Len(L[t]) /\ L[t] \in Seq(Entry) /\ L[t] # <<>>
    BY <1>3, EmptySeq DEF Own, Ledgers
  <2>2. ~Dead(W, t, k)
    BY <1>0, <2>1, DeadStays
  <2>3. CASE Acked(W, q, t, k)
    <3>1. Pfx(log[q], L[t], k)
      BY <1>0, <1>3, <2>1, <2>2, <2>3 DEF AcksHeld
    <3>2. Pfx(log'[q], L[t], k)
      BY <1>0, <1>3, <2>2, <2>3, <3>1, HeldStays
    <3> QED
      BY <1>0, <1>1, <3>2, LedgerKeeps
  <2>4. CASE ~Acked(W, q, t, k)
    <3>1. PICK m \in msgs :
            /\ Takes(i, m) /\ q = i /\ t = m.term /\ matched_index(m) >= k
            /\ log'[i] = MergedLog(log[i], m) /\ ~InvalidRequest(i, m)
      BY <1>0, <2>1, <2>4, AckedNew
    <3>2. Pfx(log'[i], L[m.term], matched_index(m))
      BY <3>1, TakesHolds
    <3>3. matched_index(m) \in Nat
      BY <3>1, RequestFacts DEF Takes
    <3>4. Pfx(log'[q], L[t], k)
      BY <1>1, <2>1, <3>1, <3>2, <3>3, PfxShorter
    <3> QED
      BY <1>0, <1>1, <3>4, LedgerKeeps
  <2> QED
    BY <2>3, <2>4
<1> QED
  BY <1>2, <1>3

\* The two nodes of an election have left all earlier terms.
LEMMA ElectedTerms ==
  ASSUME TypeOK, ElectionInv, NEW v \in msgs, Granted(v)
  PROVE  /\ v.from \in Server /\ v.to \in Server /\ v.from # v.to /\ v.term \in Nat
         /\ current_term[v.from] \in Nat /\ current_term[v.from] >= v.term
<1>1. v.from \in Server /\ v.to \in Server /\ v.term \in Nat
  BY MessageKinds DEF TypeOK, Term
<1>2. current_term[v.from] \in Nat
  BY <1>1 DEF TypeOK, Term
<1>3. v.from # v.to /\ VoteStands(v.from, v.term, v.to)
  BY DEF Granted, ElectionInv, VotesBacked
<1> QED
  BY <1>1, <1>2, <1>3 DEF VoteStands

\* Later leaders keep it.
LEMMA LeadersKeepStep ==
  ASSUME TypeOK, TypeOK', ElectionInv, NodeInv, NEW i \in Server, StepOf(i),
         NEW L \in Ledgers, NEW W \in Writers, LogInv(L, W), QuorumInv(L, W),
         NEW L2 \in Ledgers, NEW W2 \in Writers, Carries(i, L, W, L2, W2)
  PROVE  LeadersKeep(L2, W2)'
<1> SUFFICES ASSUME NEW t \in Term, NEW u \in Term, NEW k \in 1..Len(L2[t]),
                    Own(L2, t, k), t < u, L2[u] # <<>>, ~Dead(W2, t, k)'
             PROVE  Pfx(L2[u], L2[t], k)
  BY DEF LeadersKeep, Own
<1>0. /\ LedgerGrows(L, W, L2, W2) /\ AcksSent /\ LeadersKeep(L, W) /\ AcksHeld(L, W)
      /\ VotesKeep(L, W)
  BY LedgerExtends DEF QuorumInv
<1>1. /\ L2[t] \in Seq(Entry) /\ L2[u] \in Seq(Entry) /\ L[u] \in Seq(Entry)
      /\ Len(L2[t]) \in Nat /\ k \in Nat /\ t \in Nat /\ u \in Nat
  BY LenProperties DEF Ledgers, Term
<1>2. CASE ~Own(L, t, k)
  <2>1. /\ t = current_term[i] /\ L2[u] = L[u] /\ W2[u] = W[u] /\ UNCHANGED current_term
        /\ \A q \in Server : Acked(W2, q, t, k)' => q = i
    BY <1>0, <1>1, <1>2, FreshEntry
  <2>2. PICK c \in Server : Elected(c, u) /\ current_term[c] >= u
    BY <2>1 DEF LogInv, WritersLed, Writers
  <2>3. PICK v \in msgs : Granted(v) /\ v.to = c /\ v.term = u
    BY <2>2 DEF Elected, Granted
  <2>4. /\ v.from \in Server /\ v.from # c
        /\ current_term[v.from] \in Nat /\ current_term[v.from] >= u
    BY <2>3, ElectedTerms
  <2>5. current_term[c] \in Nat
    BY DEF TypeOK, Term
  <2>6. /\ c # i /\ v.from # i
        /\ current_term'[c] > t /\ current_term'[v.from] > t
    BY <1>1, <2>1, <2>2, <2>4, <2>5
  <2>7. ~Acked(W2, c, t, k)' /\ ~Acked(W2, v.from, t, k)'
    BY <2>1, <2>4, <2>6
  <2>8. Dead(W2, t, k)'
    BY <2>4, <2>6, <2>7 DEF Dead
  <2> QED
    BY <2>8
<1>3. CASE Own(L, t, k)
  <2>1. k \in 1..Len(L[t]) /\ L[t] \in Seq(Entry) /\ L[t] # <<>>
    BY <1>3, EmptySeq DEF Own, Ledgers
  <2>2. ~Dead(W, t, k)
    BY <1>0, <2>1, DeadStays
  <2>3. CASE L[u] # <<>>
    <3>1. Pfx(L[u], L[t], k)
      BY <1>0, <1>3, <2>1, <2>2, <2>3 DEF LeadersKeep
    <3>2. Pfx(L2[t], L[u], k)
      BY <1>0, <1>1, <3>1, LedgerKeeps, PfxSym
    <3> QED
      BY <1>0, <1>1, <3>2, LedgerKeeps, PfxSym
  <2>4. CASE L[u] = <<>>
    <3>1. PICK e \in Entry : Grows(i, e) /\ L2 = [L EXCEPT ![e.term] = log'[i]]
      BY <2>4 DEF Carries
    <3>2. u = e.term /\ L2[u] = log'[i]
      BY <2>4, <3>1 DEF Ledgers
    <3>3. i # Nobody
      BY ServerAssumption
    <3>4. /\ u = current_term[i] /\ Len(log[i]) \in Nat /\ Len(log'[i]) = Len(log[i]) + 1
          /\ \A n \in 1..Len(log[i]) : log'[i][n] = log[i][n]
          /\ W[u] = i \/ (/\ Standing(i) /\ election_term[i] = u
                          /\ \E v \in msgs : Granted(v) /\ v.to = i /\ v.term = u)
      BY SMTT(30), <3>1, <3>2, GrowsFacts
    <3>5. W[u] # i
      BY <2>4, <3>3 DEF LogInv, WritersLed
    <3>6. Standing(i) /\ election_term[i] = u
      BY <3>4, <3>5
    <3>7. PICK v \in msgs : Granted(v) /\ v.to = i /\ v.term = u
      BY <3>4, <3>5
    <3>8. /\ v.from \in Server /\ v.from # i
          /\ current_term[v.from] \in Nat /\ current_term[v.from] >= u
      BY <3>7, ElectedTerms
    <3>9. current_term[i] > t /\ current_term[v.from] > t
      BY <1>1, <3>4, <3>8
    <3>10. Acked(W, i, t, k) \/ Acked(W, v.from, t, k)
      BY <2>2, <3>8, <3>9 DEF Dead
    <3>11. Pfx(log[i], L[t], k)
      <4>1. CASE Acked(W, i, t, k)
        BY <1>0, <1>3, <2>1, <2>2, <4>1 DEF AcksHeld
      <4>2. CASE Acked(W, v.from, t, k)
        BY <1>0, <1>3, <2>1, <2>2, <3>6, <3>7, <4>2 DEF VotesKeep
      <4> QED
        BY <3>10, <4>1, <4>2
    <3>12. Pfx(L2[u], L[t], k)
      <4>1. Pfx(L2[u], log[i], Len(log[i]))
        BY <3>2, <3>4 DEF Pfx
      <4>2. k <= Len(log[i]) /\ k <= k /\ log[i] \in Seq(Entry)
        BY <1>1, <3>11 DEF Pfx, TypeOK
      <4> QED
        BY SMTT(30), <1>1, <2>1, <3>4, <3>11, <4>1, <4>2, PfxVia
    <3> QED
      BY <1>0, <1>1, <3>12, LedgerKeeps
  <2> QED
    BY <2>3, <2>4
<1> QED
  BY <1>2, <1>3

\* A candidate whose log is as up to date as that of a node that holds a leader's
\* own entry holds it as well (candidate_log_is_up_to_date).
LEMMA UpToDateHolds ==
  ASSUME TypeOK, NEW L \in Ledgers, NEW W \in Writers, LogInv(L, W), LeadersKeep(L, W),
         NEW t \in Term, NEW k, Own(L, t, k), ~Dead(W, t, k),
         NEW i \in Server, Pfx(log[i], L[t], k), NEW c \in Server,
         NEW m, m.last_log_index = Len(log[c]), m.last_log_term = last_term(log[c]),
         candidate_log_is_up_to_date(m, log[i])
  PROVE  Pfx(log[c], L[t], k)
<1> DEFINE n == Len(log[i])
           I == Len(log[c])
           T1 == last_term(log[i])
           T == last_term(log[c])
<1>1. log[i] \in Seq(Entry) /\ log[c] \in Seq(Entry) /\ n \in Nat /\ I \in Nat
  BY LenProperties DEF TypeOK
<1>2. /\ L[t] \in Seq(Entry) /\ Len(L[t]) \in Nat /\ t \in Nat
  BY LenProperties DEF Ledgers, Term
<1>3. k \in Nat /\ 1 <= k /\ k <= Len(L[t]) /\ k \in 1..Len(L[t]) /\ L[t][k].term = t
  BY <1>2 DEF Own
<1>4. k <= n /\ log[i][k] = L[t][k]
  BY <1>3 DEF Pfx
<1>5. n \in 1..n /\ log[i] # <<>>
  BY <1>1, <1>3, <1>4, EmptySeq
<1>6. T1 = log[i][n].term
  BY <1>5 DEF last_term
<1>7. T1 \in Term /\ T1 \in Nat /\ T1 # 0
  BY <1>1, <1>5, <1>6, EntryTerm
<1>8. Pfx(log[i], L[T1], n)
  BY <1>5, <1>6 DEF LogInv, LogsWritten
<1>9. L[T1] \in Seq(Entry) /\ Len(L[T1]) \in Nat
  BY <1>7, LenProperties DEF Ledgers
<1>10. t <= T1
  <2>1. k \in 1..Len(L[T1]) /\ k \in 1..n
    BY <1>1, <1>3, <1>4, <1>8, <1>9 DEF Pfx
  <2>2. L[T1][k] = L[t][k]
    BY <1>4, <1>8, <2>1 DEF Pfx
  <2>3. L[T1][k].term <= T1
    BY <1>7, <2>1 DEF LogInv, LedgerSound
  <2> QED
    BY <1>3, <2>2, <2>3
<1>11. \/ T = T1 /\ I >= n
       \/ T # T1 /\ T > T1
  BY DEF candidate_log_is_up_to_date, last_index
<1>12. T \in Nat
  BY <1>1, LastTermType DEF Term
<1>13. T >= T1 /\ T # 0
  BY <1>7, <1>11, <1>12
<1>14. log[c] # <<>>
  BY <1>13 DEF last_term
<1>15. T = log[c][I].term
  BY <1>14 DEF last_term
<1>16. I # 0
  BY <1>1, <1>14, EmptySeq
<1>17. I \in 1..I
  BY <1>1, <1>16
<1>18. T \in Term
  BY <1>1, <1>15, <1>17, EntryTerm
<1>19. Pfx(log[c], L[T], I)
  BY <1>15, <1>17 DEF LogInv, LogsWritten
<1>20. L[T] \in Seq(Entry) /\ Len(L[T]) \in Nat
  BY <1>18, LenProperties DEF Ledgers
<1> HIDE DEF n, I, T, T1
<1>21. k <= k
  BY <1>3
<1>22. CASE T = T1 /\ I >= n
  <2>1. k <= I
    BY <1>1, <1>3, <1>4, <1>22
  <2>2. Pfx(L[T], log[i], n)
    BY <1>8, <1>22, PfxSym
  <2>3. Pfx(log[c], log[i], k)
    BY <1>1, <1>3, <1>4, <1>19, <1>20, <2>1, <2>2, PfxVia
  <2> QED
    BY <1>1, <1>2, <1>3, <1>21, <2>3, PfxVia
<1>23. CASE T # T1 /\ T > T1
  <2>1. t < T
    BY <1>2, <1>7, <1>10, <1>12, <1>23
  <2>2. L[T] # <<>>
    BY <1>16, <1>1, <1>19, <1>20, EmptySeq DEF Pfx
  <2>3. Pfx(L[T], L[t], k)
    BY <1>3, <1>18, <2>1, <2>2 DEF LeadersKeep
  <2>4. k <= I
    <3> SUFFICES ASSUME ~(k <= I) PROVE FALSE
      OBVIOUS
    <3>1. I \in 1..k /\ I \in 1..Len(L[t])
      BY <1>1, <1>2, <1>3, <1>17
    <3>2. L[T][I] = L[t][I] /\ log[c][I] = L[T][I]
      BY <1>17, <1>19, <2>3, <3>1 DEF Pfx
    <3>3. L[t][I].term <= t
      BY <3>1 DEF LogInv, LedgerSound
    <3> QED
      BY <1>2, <1>12, <1>15, <2>1, <3>2, <3>3
  <2> QED
    BY <1>1, <1>2, <1>3, <1>19, <1>20, <1>21, <2>3, <2>4, PfxVia
<1> QED
  BY <1>11, <1>22, <1>23

\* Who still stands has not touched its log.
LEMMA StandingLog ==
  ASSUME NEW i \in Server, StepOf(i), NEW c \in Server, Standing(c)'
  PROVE  log'[c] = log[c]
<1>1. CASE c # i
  BY <1>1 DEF StepOf, Frame
<1>2. CASE c = i
  <2>1. ~\E m \in msgs : Takes(i, m)
    BY <1>2 DEF Takes
  <2>2. ~\E e \in Entry : Grows(i, e)
    BY <1>2 DEF Grows
  <2>3. Rests(i) \/ Commits(i) \/ Campaigns(i) \/ \E m \in msgs : Votes(i, m)
    BY <2>1, <2>2 DEF StepOf
  <2>4. UNCHANGED log
    BY <2>3 DEF Rests, Commits, Campaigns, Votes
  <2> QED
    BY <2>4
<1> QED
  BY <1>1, <1>2

\* A new vote is given to a candidate whose log was compared.
LEMMA NewVote ==
  ASSUME NEW i \in Server, StepOf(i), NEW v \in msgs', Granted(v), v \notin msgs
  PROVE  \E m \in msgs : /\ Votes(i, m) /\ v.from = i /\ v.to = m.from /\ v.term = m.term
                         /\ \A r \in msgs' : Success(r) => r \in msgs
<1>1. ~Calm
  BY DEF Calm
<1>2. ~Rests(i) /\ ~Commits(i) /\ ~\E e \in Entry : Grows(i, e)
  BY <1>1 DEF Rests, Commits, Grows
<1>3. ~Campaigns(i)
  BY DEF Campaigns, Granted
<1>4. ~\E m \in msgs : Takes(i, m)
  BY DEF Takes, Granted, AppendReply
<1>5. PICK m \in msgs : Votes(i, m)
  BY <1>2, <1>3, <1>4 DEF StepOf
<1>6. v.from = i /\ v.to = m.from /\ v.term = m.term
  BY <1>5 DEF Votes
<1>7. \A r \in msgs' : Success(r) => r \in msgs
  BY <1>5 DEF Votes, Success
<1> QED
  BY <1>5, <1>6, <1>7

\* A candidate that collects votes after the step stood already before it.
LEMMA OldCandidacy ==
  ASSUME TypeOK, TypeOK', ElectionInv, ElectionInv', CandidatesHonest,
         NEW i \in Server, StepOf(i), NEW v \in msgs', Granted(v),
         Standing(v.to)', election_term'[v.to] = v.term
  PROVE  Standing(v.to) /\ election_term[v.to] = v.term
<1>0. v.from \in Server /\ v.to \in Server /\ v.term \in Term
  BY MessageKinds DEF TypeOK
<1>1. /\ v.from \in Server /\ v.to \in Server /\ v.from # v.to /\ v.term \in Nat
  BY <1>0 DEF Term, Granted, ElectionInv, VotesBacked
<1>2. CASE v.to # i
  BY <1>1, <1>2 DEF StepOf, Frame, Standing, Live
<1>3. CASE v.to = i
  <2>1. v \in msgs
    BY <1>1, <1>3, NewVote
  <2>2. PICK n \in msgs : n.kind = "RequestVote" /\ n.from = i /\ n.term = v.term
    BY <1>3, <2>1 DEF CandidatesHonest
  <2>3. VoteStands(i, v.term, i)
    BY <2>2 DEF ElectionInv, VotesBacked
  <2>4. current_term[i] \in Nat
    BY DEF TypeOK, Term
  <2>5. current_term[i] >= v.term
    BY <1>1, <2>3, <2>4 DEF VoteStands
  <2>6. ~(election_term'[i] > current_term[i])
    BY <1>1, <1>3, <2>4, <2>5
  <2> QED
    BY <1>3, <2>6 DEF StepOf, SentStep
<1> QED
  BY <1>2, <1>3

\* Votes in flight stay good.
LEMMA VotesKeepStep ==
  ASSUME TypeOK, TypeOK', ElectionInv, ElectionInv', NodeInv, NEW i \in Server, StepOf(i),
         NEW L \in Ledgers, NEW W \in Writers, LogInv(L, W), QuorumInv(L, W),
         NEW L2 \in Ledgers, NEW W2 \in Writers, Carries(i, L, W, L2, W2)
  PROVE  VotesKeep(L2, W2)'
<1> SUFFICES ASSUME NEW v \in msgs', Granted(v), Standing(v.to)', election_term'[v.to] = v.term,
                    NEW t \in Term, NEW k \in 1..Len(L2[t]), Own(L2, t, k), t < v.term,
                    Acked(W2, v.from, t, k)', ~Dead(W2, t, k)'
             PROVE  Pfx(log'[v.to], L2[t], k)
  BY DEF VotesKeep, Own, Granted
<1>0. /\ LedgerGrows(L, W, L2, W2) /\ AcksSent /\ LeadersKeep(L, W) /\ AcksHeld(L, W)
      /\ VotesKeep(L, W) /\ CandidatesHonest
  BY LedgerExtends DEF QuorumInv
<1>1. Standing(v.to) /\ election_term[v.to] = v.term
  BY <1>0, OldCandidacy
<1>2. v.from \in Server /\ v.to \in Server /\ v.term \in Nat
  <2>1. v.from \in Server /\ v.to \in Server /\ v.term \in Term
    BY MessageKinds DEF TypeOK
  <2> QED
    BY <2>1 DEF Term
<1>3. log'[v.to] = log[v.to] /\ log[v.to] \in Seq(Entry)
  BY <1>2, StandingLog DEF TypeOK
<1>4. t \in Nat /\ k \in Nat
  BY LenProperties DEF Ledgers, Term
<1>5. v \in msgs => current_term[v.from] \in Nat /\ current_term[v.from] >= v.term
  BY ElectedTerms
<1>6. CASE ~Own(L, t, k)
  <2>1. t = current_term[i] /\ Calm /\ v.from = i
    BY <1>0, <1>2, <1>6, FreshEntry
  <2>2. v \in msgs
    BY <2>1 DEF Calm
  <2> QED
    BY <1>2, <1>4, <1>5, <2>1, <2>2
<1>7. CASE Own(L, t, k)
  <2>1. k \in 1..Len(L[t]) /\ L[t] \in Seq(Entry) /\ L[t] # <<>>
    BY <1>7, EmptySeq DEF Own, Ledgers
  <2>2. ~Dead(W, t, k)
    BY <1>0, <2>1, DeadStays
  <2>3. Pfx(log[v.to], L[t], k)
    <3>1. CASE v \in msgs
      <4>1. Acked(W, v.from, t, k)
        <5> SUFFICES ASSUME ~Acked(W, v.from, t, k) PROVE FALSE
          OBVIOUS
        <5>1. PICK m \in msgs : Takes(i, m) /\ v.from = i /\ t = m.term
          BY <1>0, <1>2, <2>1, AckedNew
        <5>2. t >= current_term[i]
          BY <5>1 DEF Takes
        <5> QED
          BY <1>2, <1>4, <1>5, <3>1, <5>1, <5>2
      <4> QED
        BY <1>0, <1>1, <1>7, <2>1, <2>2, <3>1, <4>1 DEF VotesKeep
    <3>2. CASE v \notin msgs
      <4>1. PICK m \in msgs :
              /\ Votes(i, m) /\ v.from = i /\ v.to = m.from /\ v.term = m.term
              /\ \A r \in msgs' : Success(r) => r \in msgs
        BY <3>2, NewVote
      <4>2. W2[t] = W[t]
        BY <1>0, <2>1 DEF LogInv, WritersLed, LedgerGrows
      <4>3. Acked(W, i, t, k)
        BY <4>1, <4>2 DEF Acked, Replied
      <4>4. Pfx(log[i], L[t], k)
        BY <1>0, <1>7, <2>1, <2>2, <4>3 DEF AcksHeld
      <4>5. m.kind = "RequestVote" /\ candidate_log_is_up_to_date(m, log[i])
        BY <4>1 DEF Votes
      <4>6. m.last_log_index = Len(log[v.to]) /\ m.last_log_term = last_term(log[v.to])
        BY <1>0, <1>1, <4>1, <4>5 DEF CandidatesHonest
      <4> QED
        BY <1>0, <1>2, <1>7, <2>2, <4>4, <4>5, <4>6, UpToDateHolds
    <3> QED
      BY <3>1, <3>2
  <2> QED
    BY <1>0, <1>3, <1>4, <2>3, LedgerKeeps
<1> QED
  BY <1>6, <1>7

\* Candidates' requests stay honest, and votes answer requests.
LEMMA CandidatesHonestStep ==
  ASSUME TypeOK, TypeOK', ElectionInv, NEW i \in Server, StepOf(i), CandidatesHonest
  PROVE  CandidatesHonest'
<1>1. ASSUME NEW m \in msgs', m.kind = "RequestVote", Standing(m.from)',
             election_term'[m.from] = m.term
      PROVE  m.last_log_index = Len(log'[m.from]) /\ m.last_log_term = last_term(log'[m.from])
  <2>1. m.from \in Server /\ m.term \in Nat
    BY SMTT(30), MessageKinds DEF TypeOK, Term
  <2>2. log'[m.from] = log[m.from]
    BY <1>1, <2>1, StandingLog
  <2>3. CASE m \in msgs
    <3>1. VoteStands(m.from, m.term, m.from)
      BY <1>1, <2>3 DEF ElectionInv, VotesBacked
    <3>2. current_term[m.from] \in Nat
      BY SMTT(30), <2>1 DEF TypeOK, Term
    <3>3. current_term[m.from] >= m.term
      BY <2>1, <3>1, <3>2 DEF VoteStands
    <3>4. Standing(m.from) /\ election_term[m.from] = m.term
      <4>1. CASE m.from # i
        BY <1>1, <2>1, <4>1 DEF StepOf, Frame, Standing, Live
      <4>2. CASE m.from = i
        <5>1. ~(election_term'[i] > current_term[i])
          BY <1>1, <2>1, <3>2, <3>3, <4>2
        <5> QED
          BY <1>1, <4>2, <5>1 DEF StepOf, SentStep
      <4> QED
        BY <4>1, <4>2
    <3> QED
      BY <1>1, <2>2, <2>3, <3>4 DEF CandidatesHonest
  <2>4. CASE m \notin msgs
    <3>1. ~Calm
      BY <1>1, <2>4 DEF Calm
    <3>2. ~Rests(i) /\ ~Commits(i) /\ ~\E e \in Entry : Grows(i, e)
      BY <3>1 DEF Rests, Commits, Grows
    <3>3. ~\E x \in msgs : Votes(i, x)
      BY <1>1, <2>4 DEF Votes
    <3>4. ASSUME NEW x \in msgs, Takes(i, x) PROVE FALSE
      BY <1>1, <2>4, <3>4 DEF Takes, AppendReply
    <3>5. Campaigns(i)
      BY <3>2, <3>3, <3>4 DEF StepOf
    <3> QED
      BY <2>2, <2>4, <3>5 DEF Campaigns
  <2> QED
    BY <2>3, <2>4
<1>2. ASSUME NEW m \in msgs', Granted(m)
      PROVE  \E n \in msgs' : n.kind = "RequestVote" /\ n.from = m.to /\ n.term = m.term
  <2>1. msgs \subseteq msgs'
    BY DEF StepOf, SentStep
  <2>2. CASE m \in msgs
    BY <1>2, <2>1, <2>2 DEF CandidatesHonest
  <2>3. CASE m \notin msgs
    <3>1. PICK n \in msgs : Votes(i, n) /\ m.to = n.from /\ m.term = n.term
      BY <1>2, <2>3, NewVote
    <3> QED
      BY <2>1, <3>1 DEF Votes
  <2> QED
    BY <2>2, <2>3
<1> QED
  BY <1>1, <1>2 DEF CandidatesHonest, Granted

\* Together: a step keeps what acknowledgments and votes promise.
LEMMA QuorumStep ==
  ASSUME TypeOK, TypeOK', ElectionInv, ElectionInv', NodeInv, NEW i \in Server, StepOf(i),
         NEW L \in Ledgers, NEW W \in Writers, LogInv(L, W), QuorumInv(L, W),
         NEW L2 \in Ledgers, NEW W2 \in Writers, Carries(i, L, W, L2, W2)
  PROVE  QuorumInv(L2, W2)'
<1>1. AcksSent' /\ CandidatesHonest'
  BY AcksSentStep, CandidatesHonestStep DEF QuorumInv
<1>2. AcksDurable(L2)'
  BY AcksDurableStep DEF QuorumInv
<1>3. AcksHeld(L2, W2)' /\ LeadersKeep(L2, W2)' /\ VotesKeep(L2, W2)'
  BY AcksHeldStep, LeadersKeepStep, VotesKeepStep
<1> QED
  BY <1>1, <1>2, <1>3 DEF QuorumInv

-----------------------------------------------------------------------------
(* Commitment.                                                             *)

\* What two nodes have acknowledged is not dead: of three nodes, only one is left.
LEMMA ChosenLives ==
  ASSUME NEW L, NEW W, NEW t, NEW k, ChosenAt(L, W, t, k)
  PROVE  ~Dead(W, t, k)
BY ServerAssumption DEF ChosenAt, Dead

\* Every leader of the term or a later one has it.
LEMMA ChosenKept ==
  ASSUME NEW L \in Ledgers, NEW W \in Writers, LeadersKeep(L, W),
         NEW t \in Term, NEW k \in Nat, ChosenAt(L, W, t, k), NEW n \in Nat, n <= k,
         NEW u \in Term, t <= u, L[u] # <<>>
  PROVE  Pfx(L[u], L[t], n)
<1>1. /\ L[t] \in Seq(Entry) /\ L[u] \in Seq(Entry) /\ Len(L[t]) \in Nat
      /\ t \in Nat /\ u \in Nat
  BY LenProperties DEF Ledgers, Term
<1>2. Own(L, t, k) /\ k \in 1..Len(L[t]) /\ k <= Len(L[t])
  BY <1>1 DEF ChosenAt, Own
<1>3. Pfx(L[u], L[t], k)
  <2>1. CASE u = t
    BY <1>1, <1>2, <2>1, PfxSelf
  <2>2. CASE u # t
    BY <1>1, <1>2, <2>2, ChosenLives DEF LeadersKeep
  <2> QED
    BY <2>1, <2>2
<1> QED
  BY <1>1, <1>3, PfxShorter

\* What is chosen stays chosen.
LEMMA ChosenStays ==
  ASSUME NEW i \in Server, StepOf(i), NEW L \in Ledgers, NEW W \in Writers,
         NEW L2 \in Ledgers, NEW W2 \in Writers, LedgerGrows(L, W, L2, W2),
         NEW t \in Term, NEW k, ChosenAt(L, W, t, k)
  PROVE  ChosenAt(L2, W2, t, k)'
<1>1. Len(L[t]) \in Nat /\ Len(L2[t]) \in Nat
  BY LenProperties DEF Ledgers
<1>2. Own(L2, t, k)
  BY <1>1 DEF ChosenAt, Own, LedgerGrows, Pfx
<1>3. PICK p \in Server, q \in Server : p # q /\ Acked(W, p, t, k) /\ Acked(W, q, t, k)
  BY DEF ChosenAt
<1>4. Acked(W2, p, t, k)'
  BY <1>3, AckedStays
<1>5. Acked(W2, q, t, k)'
  BY <1>3, AckedStays
<1> QED
  BY <1>2, <1>3, <1>4, <1>5 DEF ChosenAt, Own

\* What is backed in one log is backed in every log that shares it.
LEMMA BackedShared ==
  ASSUME NEW L \in Ledgers, NEW W, NEW s \in Seq(Entry), NEW n \in Nat, NEW b \in Nat,
         Backed(L, W, s, n, b),
         NEW s2 \in Seq(Entry), NEW n2 \in Nat, NEW b2 \in Nat, n2 <= n, b <= b2,
         n2 # 0 => Pfx(s2, s, n2)
  PROVE  Backed(L, W, s2, n2, b2)
<1>1. CASE n2 = 0
  BY <1>1 DEF Backed
<1>2. CASE n2 # 0
  <2>1. PICK t \in Term, k \in Nat : t <= b /\ k >= n /\ ChosenAt(L, W, t, k) /\ Pfx(s, L[t], n)
    BY <1>2 DEF Backed
  <2>2. L[t] \in Seq(Entry) /\ t \in Nat /\ n2 <= n2
    BY DEF Ledgers, Term
  <2>3. Pfx(s2, L[t], n2)
    BY <1>2, <2>1, <2>2, PfxVia
  <2>4. t <= b2 /\ k >= n2
    BY <2>1, <2>2
  <2> QED
    BY <2>1, <2>3, <2>4 DEF Backed
<1> QED
  BY <1>1, <1>2

\* What is backed stays backed.
LEMMA BackedStays ==
  ASSUME NEW i \in Server, StepOf(i), NEW L \in Ledgers, NEW W \in Writers,
         NEW L2 \in Ledgers, NEW W2 \in Writers, LedgerGrows(L, W, L2, W2),
         NEW s \in Seq(Entry), NEW n \in Nat, NEW b \in Nat, Backed(L, W, s, n, b)
  PROVE  Backed(L2, W2, s, n, b)'
<1>1. CASE n = 0
  BY <1>1 DEF Backed
<1>2. CASE n # 0
  <2>1. PICK t \in Term, k \in Nat : t <= b /\ k >= n /\ ChosenAt(L, W, t, k) /\ Pfx(s, L[t], n)
    BY <1>2 DEF Backed
  <2>2. ChosenAt(L2, W2, t, k)'
    BY <2>1, ChosenStays
  <2>3. Pfx(s, L2[t], n)
    BY <2>1, LedgerKeeps
  <2> QED
    BY <2>1, <2>2, <2>3 DEF Backed
<1> QED
  BY <1>1, <1>2

\* A leader believes only what it was told.
LEMMA MatchAckedStep ==
  ASSUME TypeOK, TypeOK', NEW i \in Server, StepOf(i), NEW L, NEW W, NEW L2, NEW W2,
         LedgerGrows(L, W, L2, W2), MatchAcked(W)
  PROVE  MatchAcked(W2)'
<1> SUFFICES ASSUME NEW j \in Server, leader_term'[j] # 0, NEW p \in Peers(j),
                    peers'[j][p].match_index # 0
             PROVE  Acked(W2, p, leader_term[j], peers[j][p].match_index)'
  BY DEF MatchAcked
<1>1. msgs \subseteq msgs' /\ p \in Server /\ leader_term'[j] \in Term
  BY DEF StepOf, SentStep, Peers, TypeOK
<1>2. ASSUME leader_term'[j] = leader_term[j],
             peers'[j][p].match_index = peers[j][p].match_index
      PROVE  Acked(W2, p, leader_term[j], peers[j][p].match_index)'
  <2>1. PICK lt \in Term : lt = leader_term'[j]
    BY <1>1
  <2>0. PICK k : k = peers'[j][p].match_index
    OBVIOUS
  <2>2. Acked(W, p, lt, k)
    BY <1>2, <2>0, <2>1 DEF MatchAcked
  <2>3. Acked(W2, p, lt, k)'
    BY <1>1, <2>2, AckedStays
  <2> QED
    BY <2>0, <2>1, <2>3
<1>3. ASSUME leader_term'[j] = leader_term[j],
             Replied(p, leader_term[j], peers'[j][p].match_index)
      PROVE  Acked(W2, p, leader_term[j], peers[j][p].match_index)'
  BY <1>1, <1>3 DEF Acked, Replied
<1>4. CASE j # i
  BY <1>2, <1>4 DEF StepOf, Frame
<1>5. CASE j = i /\ MatchStep(i)
  BY <1>2, <1>3, <1>5 DEF MatchStep
<1>6. CASE j = i /\ (Campaigns(i) \/ \E m \in msgs : Takes(i, m))
  BY <1>6 DEF Campaigns, Takes
<1>7. ASSUME j = i, NEW m \in msgs, Votes(i, m)
      PROVE  Acked(W2, p, leader_term[j], peers[j][p].match_index)'
  BY <1>2, <1>7 DEF Votes
<1>8. ASSUME j = i, NEW e \in Entry, Grows(i, e)
      PROVE  Acked(W2, p, leader_term[j], peers[j][p].match_index)'
  BY <1>5, <1>8 DEF Grows
<1> QED
  BY <1>4, <1>5, <1>6, <1>7, <1>8 DEF StepOf, Rests, Commits

\* A leader's commit index is chosen: it holds the entry itself and one peer has
\* acknowledged it.
LEMMA CommitsChosen ==
  ASSUME TypeOK, TypeOK', NodeInv, NEW i \in Server, Commits(i),
         NEW L \in Ledgers, NEW W \in Writers, LogInv(L, W), AcksSent, MatchAcked(W)
  PROVE  /\ leader_term[i] \in Term /\ leader_term[i] = current_term[i]
         /\ commit_index'[i] \in Nat /\ commit_index'[i] > commit_index[i]
         /\ L[leader_term[i]] = log[i] /\ log'[i] = log[i]
         /\ ChosenAt(L, W, leader_term[i], commit_index'[i])
         /\ Pfx(log[i], log[i], commit_index'[i])
<1>1. PICK t \in Term, k \in Nat, lg \in Seq(Entry) :
        t = leader_term[i] /\ k = commit_index'[i] /\ lg = log[i]
  BY DEF TypeOK
<1>2. t # 0 /\ Len(lg) \in Nat /\ commit_index[i] \in Nat /\ log'[i] = lg
  BY <1>1, LenProperties DEF Commits, MatchStep, TypeOK
<1>3. k \in 1..Len(lg) /\ lg[k].term = t /\ k <= Len(lg) /\ k >= 1 /\ k > commit_index[i]
  BY <1>1, <1>2 DEF Commits
<1>4. PICK p \in Peers(i) : peers'[i][p].match_index >= k
  BY <1>1 DEF Commits
<1>5. PICK M \in Nat : M = peers'[i][p].match_index
  <2>1. peers'[i][p] \in PeerState
    BY DEF TypeOK, Peers
  <2> QED
    BY <2>1 DEF PeerState
<1>6. W[t] = i /\ L[t] = lg
  BY <1>1, <1>2 DEF LogInv, LeadersWrite
<1>7. p \in Server /\ p # i
  BY DEF Peers
<1>8. Replied(p, t, M)
  <2>1. M # 0
    BY <1>3, <1>4, <1>5
  <2>2. M = peers[i][p].match_index \/ Replied(p, t, M)
    BY <1>1, <1>5 DEF Commits, MatchStep
  <2>3. CASE M = peers[i][p].match_index
    BY <1>1, <1>2, <1>6, <1>7, <2>1, <2>3 DEF MatchAcked, Acked
  <2> QED
    BY <2>2, <2>3
<1>9. PICK r \in msgs : Success(r) /\ r.from = p /\ r.term = t /\ matched_index(r.replied_to) >= M
  BY <1>8 DEF Replied
<1>10. matched_index(r.replied_to) \in Nat
  BY <1>9, AckFacts
<1>11. matched_index(r.replied_to) >= k
  BY <1>4, <1>5, <1>9, <1>10
<1>12. Acked(W, p, t, k) /\ Acked(W, i, t, k)
  BY <1>6, <1>9, <1>11 DEF Acked, Replied
<1>13. ChosenAt(L, W, t, k)
  BY <1>3, <1>6, <1>7, <1>12 DEF ChosenAt, Own
<1>14. current_term[i] = t
  BY <1>1, <1>2 DEF NodeInv, NodeOK, LeaderAt
<1>15. Pfx(lg, lg, k)
  BY <1>3, PfxSelf
<1> QED
  BY <1>1, <1>2, <1>3, <1>6, <1>13, <1>14, <1>15

\* A follower keeps what it has committed whatever it takes, and what it commits
\* anew the leader had committed.
LEMMA TakesBacked ==
  ASSUME TypeOK, TypeOK', ElectionInv, NodeInv, NEW i \in Server, StepOf(i),
         NEW L \in Ledgers, NEW W \in Writers, LogInv(L, W), QuorumInv(L, W), CommitInv(L, W),
         NEW m \in msgs, Takes(i, m), Live(i)'
  PROVE  Backed(L, W, log'[i], commit_index'[i], current_term'[i])
<1>1. PICK n \in Nat, b \in Nat, lg \in Seq(Entry) :
        n = commit_index'[i] /\ b = current_term'[i] /\ lg = log'[i]
  <2>1. current_term'[i] \in Term
    BY DEF TypeOK
  <2>2. current_term'[i] \in Nat
    BY <2>1 DEF Term
  <2> QED
    BY <2>2 DEF TypeOK
<1>2. /\ m \in AppendEntries /\ m.term \in Term /\ m.term \in Nat /\ L[m.term] \in Seq(Entry)
      /\ matched_index(m) \in Nat /\ m.leader_commit \in Nat /\ m.kind = "AppendEntries"
      /\ L[m.term] # <<>>
  BY RequestFacts DEF Takes
<1>3. /\ Live(i) /\ m.term >= current_term[i] /\ b = m.term
      /\ lg = MergedLog(log[i], m) /\ n = FollowerCommit(commit_index[i], m)
      /\ ~InvalidRequest(i, m)
  BY <1>1 DEF Takes
<1>4. current_term[i] \in Nat /\ commit_index[i] \in Nat /\ log[i] \in Seq(Entry)
  <2>1. current_term[i] \in Nat
    BY DEF TypeOK, Term
  <2> QED
    BY <2>1 DEF TypeOK
<1>5. Pfx(lg, L[m.term], matched_index(m))
  BY <1>1, <1>3, TakesHolds
<1>6. n = commit_index[i] \/ (n <= m.leader_commit /\ n <= matched_index(m))
  <2>1. PICK x \in Nat : commit_index[i] <= x /\ matched_index(m) <= x
    <3>1. PICK c \in Nat : c = commit_index[i]
      BY <1>4
    <3>2. PICK d \in Nat : d = matched_index(m)
      BY <1>2
    <3>3. c + d \in Nat /\ c <= c + d /\ d <= c + d
      OBVIOUS
    <3> QED
      BY <3>1, <3>2, <3>3
  <2> QED
    BY <1>2, <1>3, <1>4, <2>1, FollowerCommitBounds
<1>7. CASE n = commit_index[i] /\ n # 0
  <2>1. Backed(L, W, log[i], n, current_term[i])
    BY <1>3, <1>7 DEF CommitInv, NodesBacked
  <2>2. PICK t \in Term, k \in Nat : /\ t <= current_term[i] /\ k >= n
                                     /\ ChosenAt(L, W, t, k) /\ Pfx(log[i], L[t], n)
    BY <1>7, <2>1 DEF Backed
  <2>3. L[t] \in Seq(Entry) /\ t \in Nat
    BY DEF Ledgers, Term
  <2>4. ASSUME NEW x \in msgs, Takes(i, x) PROVE Pfx(L[t], L[x.term], n)
    <3>1. x.term \in Term /\ x.term \in Nat /\ L[x.term] # <<>> /\ x.term >= current_term[i]
      BY <2>4, RequestFacts DEF Takes
    <3>2. t <= x.term
      BY <1>4, <2>2, <2>3, <3>1
    <3>3. n <= k /\ LeadersKeep(L, W)
      BY <2>2 DEF QuorumInv
    <3> QED
      BY <2>2, <3>1, <3>2, <3>3, ChosenKept, PfxSym
  <2>5. Pfx(lg, L[t], n)
    <3>1. Pfx(log'[i], L[t], n)
      BY <2>2, <2>3, <2>4, LogKeeps
    <3> QED
      BY <1>1, <3>1
  <2>6. t <= b
    BY <1>2, <1>3, <1>4, <2>2, <2>3
  <2>7. Backed(L, W, lg, n, b)
    BY <2>2, <2>5, <2>6 DEF Backed
  <2> QED
    BY <1>1, <2>7
<1>8. CASE n <= m.leader_commit /\ n <= matched_index(m)
  <2>1. Backed(L, W, L[m.term], m.leader_commit, m.term)
    BY <1>2 DEF CommitInv, RequestsBacked
  <2>2. Pfx(lg, L[m.term], n)
    BY <1>2, <1>5, <1>8, PfxShorter
  <2>3. b <= b
    OBVIOUS
  <2>4. Backed(L, W, lg, n, b)
    BY <1>2, <1>3, <1>8, <2>1, <2>2, <2>3, BackedShared
  <2> QED
    BY <1>1, <2>4
<1>9. CASE n = 0
  BY <1>1, <1>9 DEF Backed
<1> QED
  BY <1>6, <1>7, <1>8, <1>9

\* What a node has committed after a step was backed when it took the step.
LEMMA StepBacked ==
  ASSUME TypeOK, TypeOK', ElectionInv, NodeInv, NEW i \in Server, StepOf(i),
         NEW L \in Ledgers, NEW W \in Writers, LogInv(L, W), QuorumInv(L, W), CommitInv(L, W),
         NEW j \in Server, Live(j)'
  PROVE  Backed(L, W, log'[j], commit_index'[j], current_term'[j])
<1>1. PICK n \in Nat, b \in Nat, lg \in Seq(Entry) :
        n = commit_index'[j] /\ b = current_term'[j] /\ lg = log'[j]
  <2>1. commit_index'[j] \in Nat /\ log'[j] \in Seq(Entry)
    BY DEF TypeOK
  <2>2. current_term'[j] \in Nat
    BY TermsGrow
  <2> QED
    BY <2>1, <2>2
<1>2. /\ current_term[j] \in Nat /\ commit_index[j] \in Nat /\ log[j] \in Seq(Entry)
      /\ Len(log[j]) \in Nat /\ current_term[j] <= b
  <2>1. current_term[j] \in Nat /\ current_term[j] <= b
    BY <1>1, TermsGrow
  <2> QED
    BY <2>1, LenProperties DEF TypeOK
<1>3. ASSUME Live(j), n = commit_index[j], n # 0 /\ n <= Len(log[j]) => Pfx(lg, log[j], n)
      PROVE  Backed(L, W, lg, n, b)
  <2>1. Backed(L, W, log[j], n, current_term[j])
    BY <1>3 DEF CommitInv, NodesBacked
  <2>2. n # 0 => n <= Len(log[j])
    BY <2>1 DEF Backed, Pfx
  <2>3. n # 0 => Pfx(lg, log[j], n)
    BY <1>3, <2>2
  <2>4. n <= n
    OBVIOUS
  <2> QED
    BY <1>2, <2>1, <2>3, <2>4, BackedShared
<1>4. ASSUME Live(j), n = commit_index[j], lg = log[j]
      PROVE  Backed(L, W, lg, n, b)
  BY <1>2, <1>3, <1>4, PfxSelf
<1>5. CASE j # i
  BY <1>1, <1>4, <1>5 DEF StepOf, Frame, Live
<1>6. CASE j = i /\ Rests(i)
  <2>1. CASE n = 0
    BY <1>1, <2>1 DEF Backed
  <2>2. CASE n # 0
    <3>1. Live(j) /\ n = commit_index[j] /\ lg = log[j]
      BY <1>1, <1>6, <2>2 DEF Rests
    <3> QED
      BY <1>1, <1>4, <3>1
  <2> QED
    BY <2>1, <2>2
<1>7. CASE j = i /\ Commits(i)
  <2>1. /\ leader_term[i] \in Term /\ leader_term[i] = current_term[i]
        /\ L[leader_term[i]] = lg /\ ChosenAt(L, W, leader_term[i], n) /\ Pfx(lg, lg, n)
    BY <1>1, <1>7, CommitsChosen DEF QuorumInv, CommitInv
  <2>2. n >= n
    OBVIOUS
  <2>3. Backed(L, W, lg, n, b)
    BY <1>2, <1>7, <2>1, <2>2 DEF Backed
  <2> QED
    BY <1>1, <2>3
<1>8. ASSUME j = i, Campaigns(i) \/ \E m \in msgs : Votes(i, m)
      PROVE  Backed(L, W, lg, n, b)
  <2>1. Live(j) /\ n = commit_index[j] /\ lg = log[j]
    BY <1>1, <1>8 DEF Campaigns, Votes
  <2> QED
    BY <1>4, <2>1
<1>9. CASE j = i /\ \E m \in msgs : Takes(i, m)
  BY <1>9, TakesBacked
<1>10. ASSUME j = i, NEW e \in Entry, Grows(i, e)
       PROVE  Backed(L, W, lg, n, b)
  <2>1. Live(i)
    BY <1>10 DEF Grows, Entry, Standing, NodeInv, NodeOK, LeaderAt
  <2>2. Len(log'[i]) = Len(log[i]) + 1 /\ \A k \in 1..Len(log[i]) : log'[i][k] = log[i][k]
    BY <1>10, GrowsFacts
  <2>3. n # 0 /\ n <= Len(log[j]) => Pfx(lg, log[j], n)
    BY <1>1, <1>2, <1>10, <2>2 DEF Pfx
  <2>4. n = commit_index[j]
    BY <1>1, <1>10 DEF Grows
  <2> QED
    BY <1>3, <1>10, <2>1, <2>3, <2>4
<1> QED
  BY <1>1, <1>5, <1>6, <1>7, <1>8, <1>9, <1>10 DEF StepOf

\* What a node has committed stays backed.
LEMMA NodesBackedStep ==
  ASSUME TypeOK, TypeOK', ElectionInv, NodeInv, NEW i \in Server, StepOf(i),
         NEW L \in Ledgers, NEW W \in Writers, LogInv(L, W), QuorumInv(L, W), CommitInv(L, W),
         NEW L2 \in Ledgers, NEW W2 \in Writers, Carries(i, L, W, L2, W2)
  PROVE  NodesBacked(L2, W2)'
<1> SUFFICES ASSUME NEW j \in Server, Live(j)'
             PROVE  Backed(L2, W2, log[j], commit_index[j], current_term[j])'
  BY DEF NodesBacked
<1>1. LedgerGrows(L, W, L2, W2)
  BY LedgerExtends
<1>2. PICK n \in Nat, b \in Nat, lg \in Seq(Entry) :
        n = commit_index'[j] /\ b = current_term'[j] /\ lg = log'[j]
  <2>1. commit_index'[j] \in Nat /\ log'[j] \in Seq(Entry)
    BY DEF TypeOK
  <2>2. current_term'[j] \in Nat
    BY TermsGrow
  <2> QED
    BY <2>1, <2>2
<1>3. Backed(L, W, lg, n, b)
  BY <1>2, StepBacked
<1>4. Backed(L2, W2, lg, n, b)'
  BY <1>1, <1>3, BackedStays
<1> QED
  BY <1>2, <1>4

\* What a request announces as committed stays backed.
LEMMA RequestsBackedStep ==
  ASSUME TypeOK, TypeOK', ElectionInv, NodeInv, NodeInv', NEW i \in Server, StepOf(i),
         NEW L \in Ledgers, NEW W \in Writers, LogInv(L, W), QuorumInv(L, W), CommitInv(L, W),
         NEW L2 \in Ledgers, NEW W2 \in Writers, Carries(i, L, W, L2, W2)
  PROVE  RequestsBacked(L2, W2)'
<1> SUFFICES ASSUME NEW m \in msgs', m.kind = "AppendEntries"
             PROVE  Backed(L2, W2, L2[m.term], m.leader_commit, m.term)'
  BY DEF RequestsBacked
<1>0. /\ LedgerGrows(L, W, L2, W2) /\ LeadersWrite(L2, W2)' /\ NodesBacked(L2, W2)'
  BY LedgerExtends, LeadersWriteStep, NodesBackedStep
<1>1. m \in AppendEntries
  BY MessageKinds DEF TypeOK
<1>2. m.term \in Term /\ m.leader_commit \in Nat
  BY <1>1 DEF AppendEntries
<1>3. /\ m.term \in Nat /\ L[m.term] \in Seq(Entry) /\ L2[m.term] \in Seq(Entry)
      /\ Len(L[m.term]) \in Nat
  BY <1>2, LenProperties DEF Ledgers, Term
<1>4. CASE m \in msgs
  <2>1. Backed(L, W, L[m.term], m.leader_commit, m.term)
    BY <1>4 DEF CommitInv, RequestsBacked
  <2>2. m.leader_commit # 0 => m.leader_commit <= Len(L[m.term])
    BY <2>1 DEF Backed, Pfx
  <2>3. Pfx(L2[m.term], L[m.term], Len(L[m.term]))
    BY <1>0, <1>2 DEF LedgerGrows
  <2>4. m.leader_commit # 0 => Pfx(L2[m.term], L[m.term], m.leader_commit)
    BY <1>2, <1>3, <2>2, <2>3, PfxShorter
  <2>5. m.leader_commit <= m.leader_commit /\ m.term <= m.term
    BY <1>2, <1>3
  <2>6. Backed(L, W, L2[m.term], m.leader_commit, m.term)
    BY <1>2, <1>3, <2>1, <2>4, <2>5, BackedShared
  <2> QED
    BY <1>0, <1>2, <1>3, <2>6, BackedStays
<1>5. CASE m \notin msgs
  <2>1. NewRequest(i, m)
    BY <1>5 DEF StepOf, SentStep
  <2>2. /\ m.term = leader_term'[i] /\ leader_term'[i] # 0 /\ m.leader_commit <= commit_index'[i]
    BY <2>1 DEF NewRequest
  <2>3. Live(i)' /\ current_term'[i] = m.term
    BY <2>2 DEF NodeInv, NodeOK, LeaderAt
  <2>4. L2[m.term] = log'[i]
    BY <1>0, <2>2 DEF LeadersWrite
  <2>5. PICK n \in Nat : n = commit_index'[i]
    BY DEF TypeOK
  <2>6. Backed(L2, W2, L2[m.term], n, m.term)'
    BY <1>0, <2>3, <2>4, <2>5 DEF NodesBacked
  <2>7. CASE m.leader_commit = 0
    BY <2>7 DEF Backed
  <2>8. CASE m.leader_commit # 0
    <3>1. m.leader_commit <= n /\ n # 0
      BY <1>2, <2>2, <2>5, <2>8
    <3>2. PICK t \in Term, k \in Nat : /\ t <= m.term /\ k >= n /\ ChosenAt(L2, W2, t, k)'
                                       /\ Pfx(L2[m.term], L2[t], n)
      BY <2>6, <3>1 DEF Backed
    <3>3. k >= m.leader_commit
      BY <1>2, <3>1, <3>2
    <3>4. Pfx(L2[m.term], L2[t], m.leader_commit)
      BY <1>2, <1>3, <3>1, <3>2, PfxShorter DEF Ledgers
    <3> QED
      BY <3>2, <3>3, <3>4 DEF Backed
  <2> QED
    BY <2>7, <2>8
<1> QED
  BY <1>4, <1>5

\* Together: a step keeps the whole invariant.
LEMMA SafetyStep ==
  ASSUME TypeOK, TypeOK', ElectionInv, ElectionInv', NodeInv, NodeInv', NEW i \in Server, StepOf(i),
         NEW L \in Ledgers, NEW W \in Writers, SafetyInv(L, W),
         NEW L2 \in Ledgers, NEW W2 \in Writers, Carries(i, L, W, L2, W2)
  PROVE  SafetyInv(L2, W2)' /\ LedgerGrows(L, W, L2, W2)
<1>1. LogInv(L, W) /\ QuorumInv(L, W) /\ CommitInv(L, W)
  BY DEF SafetyInv
<1>2. LedgerGrows(L, W, L2, W2)
  BY <1>1, LedgerExtends
<1>3. LogInv(L2, W2)' /\ QuorumInv(L2, W2)'
  BY <1>1, LogStep, QuorumStep
<1>4. MatchAcked(W2)'
  BY <1>1, <1>2, MatchAckedStep DEF CommitInv
<1>5. NodesBacked(L2, W2)' /\ RequestsBacked(L2, W2)'
  BY <1>1, NodesBackedStep, RequestsBackedStep
<1> QED
  BY <1>2, <1>3, <1>4, <1>5 DEF SafetyInv, CommitInv

-----------------------------------------------------------------------------
(* The invariant and what follows from it.                                 *)

\* In every reachable state there is a ledger of which all logs, requests,
\* acknowledgments, votes and commitments are parts.
Safe == \E L \in Ledgers, W \in Writers : SafetyInv(L, W)

\* A new cluster has acknowledged, voted and committed nothing.
LEMMA SafetyInit == Init => Safe
<1> SUFFICES ASSUME Init PROVE Safe
  OBVIOUS
<1>1. /\ EmptyLedger \in Ledgers /\ NoWriters \in Writers
      /\ LogInv(EmptyLedger, NoWriters)
  BY LogInit
<1>2. msgs = {}
  BY DEF Init
<1>3. \A t \in Term : Len(EmptyLedger[t]) = 0
  BY EmptySeq DEF EmptyLedger
<1>4. \A k \in 1..0 : FALSE
  OBVIOUS
<1>5. AcksSent /\ AcksDurable(EmptyLedger) /\ VotesKeep(EmptyLedger, NoWriters) /\ CandidatesHonest
  BY <1>2 DEF AcksSent, AcksDurable, VotesKeep, CandidatesHonest
<1>6. AcksHeld(EmptyLedger, NoWriters) /\ LeadersKeep(EmptyLedger, NoWriters)
  BY <1>3, <1>4 DEF AcksHeld, LeadersKeep
<1>7. QuorumInv(EmptyLedger, NoWriters)
  BY <1>5, <1>6 DEF QuorumInv
<1>8. MatchAcked(NoWriters) /\ NodesBacked(EmptyLedger, NoWriters)
  BY DEF Init, MatchAcked, NodesBacked, Backed
<1>9. RequestsBacked(EmptyLedger, NoWriters)
  BY <1>2 DEF RequestsBacked
<1> QED
  BY <1>1, <1>7, <1>8, <1>9 DEF Safe, SafetyInv, CommitInv

\* Doing nothing changes nothing.
LEMMA SafetyStutter ==
  ASSUME UNCHANGED vars, NEW L, NEW W, SafetyInv(L, W)
  PROVE  SafetyInv(L, W)'
<1>1. /\ msgs' = msgs /\ log' = log /\ current_term' = current_term /\ stopped' = stopped
      /\ role' = role /\ election_term' = election_term /\ leader_term' = leader_term
      /\ peers' = peers /\ commit_index' = commit_index
  BY DEF vars, metadata, node, election, leader
<1>2. LogInv(L, W)'
  BY LogStutter DEF SafetyInv
<1>3. QuorumInv(L, W)'
  <2>1. AcksSent' /\ AcksDurable(L)' /\ CandidatesHonest'
    BY <1>1 DEF SafetyInv, QuorumInv, AcksSent, AcksDurable, CandidatesHonest, Standing, Live
  <2>2. AcksHeld(L, W)' /\ LeadersKeep(L, W)'
    BY <1>1 DEF SafetyInv, QuorumInv, AcksHeld, LeadersKeep, Acked, Replied, Dead, Own
  <2>3. VotesKeep(L, W)'
    BY <1>1 DEF SafetyInv, QuorumInv, VotesKeep, Acked, Replied, Dead, Own, Standing, Live
  <2> QED
    BY <2>1, <2>2, <2>3 DEF QuorumInv
<1>4. CommitInv(L, W)'
  BY <1>1 DEF SafetyInv, CommitInv, MatchAcked, NodesBacked, RequestsBacked, Backed, ChosenAt, Own,
     Acked, Replied, Live
<1> QED
  BY <1>2, <1>3, <1>4 DEF SafetyInv

\* A step leads from a safe state to a safe state.
LEMMA SafetyNext ==
  TypeOK /\ TypeOK' /\ ElectionInv /\ ElectionInv' /\ NodeInv /\ NodeInv' /\ Safe /\ [Next]_vars
    => Safe'
<1> SUFFICES ASSUME TypeOK, TypeOK', ElectionInv, ElectionInv', NodeInv, NodeInv', Safe, [Next]_vars
             PROVE  Safe'
  OBVIOUS
<1>1. PICK L \in Ledgers, W \in Writers : SafetyInv(L, W)
  BY DEF Safe
<1>2. CASE UNCHANGED vars
  BY <1>1, <1>2, SafetyStutter DEF Safe
<1>3. CASE Next
  <2>1. PICK i \in Server : StepOf(i)
    BY <1>3, NodeStep
  <2>2. PICK L2 \in Ledgers, W2 \in Writers : Carries(i, L, W, L2, W2)
    BY <2>1, LedgerExists
  <2>3. SafetyInv(L2, W2)'
    BY <1>1, <2>1, <2>2, SafetyStep
  <2> QED
    BY <2>3 DEF Safe
<1> QED
  BY <1>2, <1>3

\* The cluster is safe: whatever crashes, restarts, torn writes and lost, repeated
\* or reordered messages it goes through, every acknowledgment, vote and commitment
\* is backed by what the leaders wrote.
THEOREM ClusterIsSafe == Spec => []Safe
<1>1. Init => Safe
  BY SafetyInit
<1>2. TypeOK /\ TypeOK' /\ ElectionInv /\ ElectionInv' /\ NodeInv /\ NodeInv' /\ Safe /\ [Next]_vars
        => Safe'
  BY SafetyNext
<1> QED
  BY <1>1, <1>2, TypeCorrect, ElectionInvariant, NodeInvariant, PTL DEF Spec

\* A leadership gives each read id out once, and what carries it was sent after the
\* read was asked: no acknowledgment confirms a read that was asked after its probe
\* was sent (on_append_reply compares only the id and the index), across elections,
\* restarts, late acknowledgments and the end of the ids (next_read_id_).
THEOREM ReadIdsAreOnce == Spec => []ReadIdsNameOneRead
<1>1. TypeOK /\ NodeInv /\ Safe => ReadIdsNameOneRead
  <2> SUFFICES ASSUME TypeOK, NodeInv, Safe, NEW i \in Server, leader_term[i] # 0
               PROVE  /\ next_read_id[i] # 0 =>
                           /\ ~Carried(i, next_read_id[i])
                           /\ \A r \in read_rounds[i] : r.id # next_read_id[i]
                      /\ \A r \in read_rounds[i] :
                           /\ r.index = 0 => ~Carried(i, r.id)
                           /\ \A q \in read_rounds[i] : q.id = r.id => q = r
    BY DEF ReadIdsNameOneRead
  <2>1. AcksSent
    BY DEF Safe, SafetyInv, QuorumInv
  <2>2. /\ next_read_id[i] \in Nat
        /\ \A r \in read_rounds[i] : r.id \in Nat /\ r.id # 0
        /\ ReadAt(i)
    BY BoundAssumption DEF TypeOK, NodeInv, NodeOK
  \* What carries an id, carries one given out, and the index of its read if that is
  \* still in progress.
  <2>3. ASSUME NEW id \in Nat, id # 0, Carried(i, id)
        PROVE  /\ next_read_id[i] # 0 => id < next_read_id[i]
               /\ \A r \in read_rounds[i] : r.id = id => r.index # 0
    <3>1. PICK p \in msgs : ProbeOf(i, id, p)
      BY <2>1, <2>3 DEF Carried, AcksSent, Success
    <3>2. SentOK(p)
      BY <3>1 DEF ProbeOf, NodeInv
    <3> QED
      BY <2>3, <3>1, <3>2 DEF ProbeOf, SentOK
  <2>4. next_read_id[i] # 0 => ~Carried(i, next_read_id[i])
    BY <2>2, <2>3
  <2>5. next_read_id[i] # 0 => \A r \in read_rounds[i] : r.id # next_read_id[i]
    BY <2>2 DEF ReadAt
  <2>6. \A r \in read_rounds[i] : r.index = 0 => ~Carried(i, r.id)
    BY <2>2, <2>3
  <2>7. \A r, q \in read_rounds[i] : q.id = r.id => q = r
    BY <2>2 DEF ReadAt
  <2> QED
    BY <2>4, <2>5, <2>6, <2>7
<1> QED
  BY <1>1, TypeCorrect, NodeInvariant, ClusterIsSafe, PTL

\* What a leader believes a follower of its term holds, the follower's disk holds:
\* RaftLeaderReplication::advance_commit_index counts only entries that are there.
THEOREM MatchesAreDurable == Spec => []MatchIsDurable
<1>1. TypeOK /\ Safe => MatchIsDurable
  <2> SUFFICES ASSUME TypeOK, Safe, NEW i \in Server, Active(i), NEW p \in Peers(i),
                      current_term[p] = leader_term[i]
               PROVE  /\ peers[i][p].match_index <= Len(log[p])
                      /\ SubSeq(log[p], 1, peers[i][p].match_index)
                           = SubSeq(log[i], 1, peers[i][p].match_index)
    BY DEF MatchIsDurable
  <2> DEFINE M == peers[i][p].match_index
             t == leader_term[i]
  <2>1. PICK L \in Ledgers, W \in Writers : SafetyInv(L, W)
    BY DEF Safe
  <2>2. p \in Server /\ p # i /\ t # 0 /\ t \in Term
    BY DEF Peers, Active, TypeOK
  <2>3. log[p] \in Seq(Entry) /\ log[i] \in Seq(Entry)
    BY <2>2 DEF TypeOK
  <2>4. Len(log[p]) \in Nat /\ Len(log[i]) \in Nat
    BY <2>3, LenProperties
  <2>5. peers[i][p] \in PeerState
    BY <2>2 DEF TypeOK
  <2>6. M \in Nat
    BY <2>5 DEF PeerState
  <2>7. W[t] = i /\ L[t] = log[i]
    BY <2>1, <2>2 DEF SafetyInv, LogInv, LeadersWrite
  <2>8. M = 0 \/ Acked(W, p, t, M)
    BY <2>1, <2>2 DEF SafetyInv, CommitInv, MatchAcked
  <2> HIDE DEF M
  <2>9. Pfx(log[p], log[i], M)
    <3>1. CASE M = 0
      BY <2>4, <3>1 DEF Pfx
    <3>2. CASE M # 0
      <4>1. PICK r \in msgs : /\ Success(r) /\ r.from = p /\ r.term = t
                              /\ matched_index(r.replied_to) >= M
        BY <2>2, <2>7, <2>8, <3>2 DEF Acked, Replied
      <4>2. AcksSent /\ AcksDurable(L) /\ LogInv(L, W)
        BY <2>1 DEF SafetyInv, QuorumInv
      <4>3. matched_index(r.replied_to) \in Nat
        BY <4>1, <4>2, AckFacts
      <4>4. Pfx(log[p], log[i], matched_index(r.replied_to))
        BY <2>7, <4>1, <4>2 DEF AcksDurable
      <4> QED
        BY <2>3, <2>6, <4>1, <4>3, <4>4, PfxShorter
    <3> QED
      BY <3>1, <3>2
  <2>10. SubSeq(log[p], 1, M) = SubSeq(log[i], 1, M) /\ M <= Len(log[p])
    BY <2>3, <2>6, <2>9, PfxSubSeq DEF Pfx
  <2> QED
    BY <2>10 DEF M
<1> QED
  BY <1>1, TypeCorrect, ClusterIsSafe, PTL

\* The terms in a leader's log go up.
LEMMA LedgerRises ==
  ASSUME NEW L \in Ledgers, LedgerSound(L), NEW t \in Term, NEW k \in Nat, k # 0,
         k + 1 <= Len(L[t])
  PROVE  L[t][k].term <= L[t][k + 1].term
<1>1. L[t] \in Seq(Entry) /\ Len(L[t]) \in Nat
  BY LenProperties DEF Ledgers
<1>2. k + 1 \in 1..Len(L[t]) /\ k \in 1..(k + 1)
  BY <1>1
<1>3. PICK u \in Term : u = L[t][k + 1].term
  BY <1>1, <1>2, EntryTerm
<1>4. Pfx(L[t], L[u], k + 1)
  BY <1>2, <1>3 DEF LedgerSound
<1>5. L[u] \in Seq(Entry) /\ Len(L[u]) \in Nat
  BY LenProperties DEF Ledgers
<1>6. k \in 1..Len(L[u]) /\ L[u][k] = L[t][k]
  BY <1>2, <1>4, <1>5 DEF Pfx
<1>7. L[u][k].term <= u
  BY <1>6 DEF LedgerSound
<1> QED
  BY <1>3, <1>6, <1>7

\* Every request is well formed.
LEMMA RequestsValid ==
  ASSUME TypeOK, NodeInv, NEW L \in Ledgers, NEW W \in Writers, LogInv(L, W),
         NEW m \in msgs, m.kind = "AppendEntries"
  PROVE  valid_entries(m)
<1> DEFINE s == L[m.term]
           prev == m.prev_log_index
<1>1. /\ m.term \in Term /\ m.term \in Nat /\ prev \in Nat /\ Len(m.entries) \in Nat
      /\ s \in Seq(Entry) /\ Len(s) \in Nat /\ FromLog(m, s) /\ prev + Len(m.entries) <= Len(s)
  BY RequestFacts
<1>2. LedgerSound(L)
  BY DEF LogInv
<1>3. prev # 0 => prev \in 1..Len(s)
  BY <1>1
<1>4. prev = 0 => m.prev_log_term = 0
  BY <1>1 DEF FromLog
<1>5. prev # 0 => /\ m.prev_log_term = s[prev].term /\ s[prev].term \in Nat /\ s[prev].term # 0
                  /\ s[prev].term <= m.term
  BY <1>1, <1>2, <1>3, EntryTerm DEF FromLog, LedgerSound
<1>6. m.read_context # 0 => prev = 0 /\ m.entries = <<>>
  BY DEF NodeInv, SentOK
<1>7. ASSUME NEW k \in 1..Len(m.entries)
      PROVE  /\ m.entries[k].term <= m.term
             /\ m.entries[k].term >= IF k = 1 THEN m.prev_log_term ELSE m.entries[k - 1].term
  <2>1. prev + k \in 1..Len(s) /\ m.entries[k] = s[prev + k] /\ k \in Nat
    BY <1>1 DEF FromLog
  <2>2. s[prev + k].term <= m.term
    BY <1>1, <1>2, <2>1 DEF LedgerSound
  <2>3. s[prev + k].term \in Nat
    BY <1>1, <2>1, EntryTerm
  <2>4. CASE k = 1 /\ prev = 0
    BY <1>4, <2>1, <2>2, <2>3, <2>4
  <2>5. CASE k = 1 /\ prev # 0
    <3>1. prev + 1 <= Len(s)
      BY <1>1, <2>1, <2>5
    <3>2. s[prev].term <= s[prev + 1].term
      BY <1>1, <1>2, <2>5, <3>1, LedgerRises
    <3> QED
      BY <1>5, <2>1, <2>2, <2>3, <2>5, <3>2
  <2>6. CASE k # 1
    <3> HIDE DEF s
    <3>0. k \in Nat /\ k >= 1 /\ k <= Len(m.entries)
      BY <1>1
    <3>1. k - 1 \in 1..Len(m.entries) /\ prev + (k - 1) \in Nat /\ prev + (k - 1) # 0
          /\ prev + (k - 1) + 1 = prev + k /\ prev + (k - 1) \in 1..Len(s)
      BY SMTT(30), <1>1, <2>6, <3>0
    <3>2. m.entries[k - 1] = s[prev + (k - 1)]
      BY <1>1, <3>1 DEF FromLog
    <3>3. prev + (k - 1) + 1 <= Len(s)
      BY <1>1, <2>1, <3>1
    <3>4. PICK x \in Nat : x = prev + (k - 1)
      BY <3>1
    <3>5. s[x].term <= s[x + 1].term
      BY <1>1, <1>2, <3>1, <3>3, <3>4, LedgerRises DEF s
    <3>6. s[x].term \in Nat
      BY <1>1, <3>1, <3>4, EntryTerm
    <3> QED
      BY <2>1, <2>2, <2>3, <2>6, <3>1, <3>2, <3>4, <3>5, <3>6
  <2> QED
    BY <2>4, <2>5, <2>6
<1> QED
  BY SMTT(30), <1>1, <1>4, <1>5, <1>6, <1>7 DEF valid_entries

\* An entry of the batch that a receiver holds with the same index and term is the
\* same entry.
LEMMA SameEntry ==
  ASSUME TypeOK, NEW L \in Ledgers, NEW W \in Writers, LogInv(L, W),
         NEW m \in msgs, m.kind = "AppendEntries", NEW j \in Server,
         NEW k \in 1..Len(m.entries), has_entry(log[j], m.prev_log_index + k, m.entries[k].term)
  PROVE  log[j][m.prev_log_index + k] = m.entries[k]
<1> DEFINE s == L[m.term]
           prev == m.prev_log_index
<1>1. /\ m.term \in Term /\ prev \in Nat /\ Len(m.entries) \in Nat
      /\ s \in Seq(Entry) /\ Len(s) \in Nat /\ FromLog(m, s) /\ prev + Len(m.entries) <= Len(s)
  BY RequestFacts
<1>2. /\ prev + k \in 1..Len(s) /\ m.entries[k] = s[prev + k]
      /\ prev + k \in 1..Len(log[j]) /\ log[j][prev + k].term = m.entries[k].term
  <2>1. prev + k \in 1..Len(s)
    BY <1>1
  <2>2. m.entries[k] = s[prev + k]
    BY <1>1 DEF FromLog
  <2> QED
    BY <2>1, <2>2 DEF has_entry
<1>3. PICK u \in Term : u = s[prev + k].term
  BY <1>1, <1>2, EntryTerm
<1>4. Pfx(s, L[u], prev + k)
  BY <1>1, <1>2, <1>3 DEF LogInv, LedgerSound
<1>5. Pfx(log[j], L[u], prev + k)
  BY <1>2, <1>3 DEF LogInv, LogsWritten
<1>6. prev + k \in 1..(prev + k)
  BY <1>1
<1> QED
  BY <1>2, <1>4, <1>5, <1>6 DEF Pfx

\* Whatever request arrives, however late, its receiver can use it: no handler
\* answers InvalidRequest or finds a committed entry in the way.
THEOREM RequestsAreUsable == Spec => []RequestsUsable
<1>1. TypeOK /\ NodeInv /\ Safe => RequestsUsable
  <2> SUFFICES ASSUME TypeOK, NodeInv, Safe, NEW m \in msgs, m.kind = "AppendEntries",
                      m.term >= current_term[m.to], Live(m.to)
               PROVE  /\ ~InvalidRequest(m.to, m)
                      /\ previous_matches(log[m.to], m) =>
                           ~CommittedConflict(log[m.to], commit_index[m.to], m)
    BY DEF RequestsUsable
  <2> DEFINE j == m.to
             prev == m.prev_log_index
  <2>1. PICK L \in Ledgers, W \in Writers : SafetyInv(L, W)
    BY DEF Safe
  <2>2. LogInv(L, W) /\ LeadersKeep(L, W) /\ NodesBacked(L, W)
    BY <2>1 DEF SafetyInv, QuorumInv, CommitInv
  <2>3. /\ m.term \in Term /\ m.term \in Nat /\ prev \in Nat /\ Len(m.entries) \in Nat
        /\ L[m.term] \in Seq(Entry) /\ Len(L[m.term]) \in Nat /\ L[m.term] # <<>>
        /\ FromLog(m, L[m.term]) /\ prev + Len(m.entries) <= Len(L[m.term]) /\ j \in Server
    BY <2>2, RequestFacts
  <2>4. log[j] \in Seq(Entry) /\ Len(log[j]) \in Nat /\ commit_index[j] \in Nat
    BY <2>3, LenProperties DEF TypeOK
  <2>5. current_term[j] \in Nat
    BY <2>3 DEF TypeOK, Term
  <2>6. valid_entries(m)
    BY <2>2, RequestsValid
  <2>7. commit_index[j] <= Len(log[j])
    BY <2>3 DEF NodeInv, NodeOK, CommitAt, Pfx
  <2>8. ~CommandMismatch(log[j], m)
    <3> SUFFICES ASSUME NEW k \in 1..Len(m.entries), Agrees(log[j], m, k)
                 PROVE  log[j][prev + k].command = m.entries[k].command
      BY DEF CommandMismatch
    <3>1. k \in 1..k
      BY <2>3
    <3>2. has_entry(log[j], prev + k, m.entries[k].term)
      BY <3>1 DEF Agrees
    <3>3. log[j][prev + k] = m.entries[k]
      BY <2>2, <2>3, <3>2, SameEntry
    <3> QED
      BY <3>3
  <2>9. ~CommittedConflict(log[j], commit_index[j], m)
    <3> SUFFICES ASSUME NEW k \in 1..Len(m.entries), Agrees(log[j], m, k - 1),
                        ~Agrees(log[j], m, k), prev + k <= Len(log[j]), prev + k <= commit_index[j]
                 PROVE  FALSE
      BY DEF CommittedConflict
    <3>1. commit_index[j] # 0 /\ prev + k \in 1..commit_index[j]
      BY <2>3, <2>4
    <3>2. PICK t \in Term, c \in Nat :
            /\ t <= current_term[j] /\ c >= commit_index[j]
            /\ ChosenAt(L, W, t, c) /\ Pfx(log[j], L[t], commit_index[j])
      BY <2>2, <2>3, <3>1 DEF NodesBacked, Backed
    <3>3. t \in Nat
      BY DEF Term
    <3>4. t <= m.term /\ commit_index[j] <= c
      BY <2>3, <2>4, <2>5, <3>2, <3>3
    <3>5. Pfx(L[m.term], L[t], commit_index[j])
      BY <2>2, <2>3, <2>4, <3>2, <3>4, ChosenKept
    <3>6. log[j][prev + k] = L[m.term][prev + k]
      BY <3>1, <3>2, <3>5 DEF Pfx
    <3>7. m.entries[k] = L[m.term][prev + k] /\ prev + k \in 1..Len(log[j])
      BY <2>3, <2>4 DEF FromLog
    <3>8. has_entry(log[j], prev + k, m.entries[k].term)
      BY <3>6, <3>7 DEF has_entry
    <3>9. Agrees(log[j], m, k)
      <4> SUFFICES ASSUME NEW x \in 1..k PROVE has_entry(log[j], prev + x, m.entries[x].term)
        BY DEF Agrees
      <4>1. x = k \/ x \in 1..(k - 1)
        BY <2>3
      <4> QED
        BY <3>8, <4>1 DEF Agrees
    <3> QED
      BY <3>9
  <2> QED
    BY <2>6, <2>7, <2>8, <2>9, <2>4 DEF InvalidRequest, last_index
<1> QED
  BY <1>1, TypeCorrect, NodeInvariant, ClusterIsSafe, PTL

-----------------------------------------------------------------------------
(* What is committed.                                                      *)

\* The leader of term t committed the history; while it leads it knows.
CommittedIn(L, W, t) ==
  /\ \E k \in Nat : /\ k >= Len(chosen) /\ ChosenAt(L, W, t, k)
                    /\ Pfx(chosen, L[t], Len(chosen))
  /\ \A j \in Server : leader_term[j] = t => Len(chosen) <= commit_index[j]

\* The history is chosen, a leader committed it, and nobody has or announces more
\* than it.
HistInv(L, W) ==
  /\ chosen \in Seq(Entry)
  /\ Len(chosen) = 0 \/ \E t \in Term : CommittedIn(L, W, t)
  /\ Backed(L, W, chosen, Len(chosen), MaxTerm)
  /\ \A j \in Server : commit_index[j] <= Len(chosen)
  /\ \A m \in msgs : m.kind = "AppendEntries" => m.leader_commit <= Len(chosen)

Recorded == \E L \in Ledgers, W \in Writers : SafetyInv(L, W) /\ HistInv(L, W)

\* Two chosen prefixes agree: the leader of the later term has what was chosen in
\* the earlier one.
LEMMA BackedAgree ==
  ASSUME NEW L \in Ledgers, NEW W \in Writers, LeadersKeep(L, W),
         NEW s \in Seq(Entry), NEW n \in Nat, NEW b, Backed(L, W, s, n, b),
         NEW s2 \in Seq(Entry), NEW n2 \in Nat, NEW b2, Backed(L, W, s2, n2, b2),
         n <= n2
  PROVE  Pfx(s2, s, n)
<1>0. Len(s) \in Nat /\ Len(s2) \in Nat
  BY LenProperties
<1>1. CASE n = 0
  BY <1>0, <1>1 DEF Pfx
<1>2. CASE n # 0
  <2>1. PICK t \in Term, k \in Nat : k >= n /\ ChosenAt(L, W, t, k) /\ Pfx(s, L[t], n)
    BY <1>2 DEF Backed
  <2>2. PICK t2 \in Term, k2 \in Nat : k2 >= n2 /\ ChosenAt(L, W, t2, k2) /\ Pfx(s2, L[t2], n2)
    BY <1>2 DEF Backed
  <2>3. L[t] \in Seq(Entry) /\ L[t2] \in Seq(Entry) /\ t \in Nat /\ t2 \in Nat
    BY DEF Ledgers, Term
  <2>4. L[t] # <<>> /\ L[t2] # <<>>
    BY <2>1, <2>2, EmptySeq DEF ChosenAt, Own
  <2>5. n <= k /\ n <= k2 /\ n <= n
    BY <2>1, <2>2
  <2>6. Pfx(L[t2], L[t], n)
    <3>1. CASE t <= t2
      BY <2>1, <2>4, <2>5, <3>1, ChosenKept
    <3>2. CASE t2 <= t
      BY <2>2, <2>4, <2>5, <3>2, ChosenKept, PfxSym
    <3> QED
      BY <2>3, <3>1, <3>2
  <2>7. Pfx(s2, L[t], n)
    BY <2>2, <2>3, <2>5, <2>6, PfxVia
  <2>8. Pfx(L[t], s, n)
    BY <2>1, PfxSym
  <2> QED
    BY <2>3, <2>5, <2>7, <2>8, PfxVia
<1> QED
  BY <1>1, <1>2

\* Only a leader that commits gets past everything committed before.
LEMMA LongerCommits ==
  ASSUME TypeOK, TypeOK', NEW i \in Server, StepOf(i), NEW L \in Ledgers, NEW W \in Writers,
         HistInv(L, W), NEW j \in Server, Longer(j)
  PROVE  j = i /\ Commits(i)
<1>1. /\ commit_index'[j] \in Nat /\ commit_index[j] \in Nat /\ Len(chosen) \in Nat
      /\ commit_index[j] <= Len(chosen) /\ commit_index'[j] > Len(chosen)
  BY LenProperties DEF TypeOK, HistInv, Longer
<1>2. commit_index'[j] # commit_index[j] /\ commit_index'[j] # 0
  BY <1>1
<1>3. j = i
  BY <1>2 DEF StepOf, Frame
<1>4. ~Rests(i) /\ ~Campaigns(i) /\ ~\E m \in msgs : Votes(i, m)
  BY <1>2, <1>3 DEF Rests, Campaigns, Votes
<1>5. ~\E e \in Entry : Grows(i, e)
  BY <1>2, <1>3 DEF Grows
<1>6. ASSUME NEW m \in msgs, Takes(i, m) PROVE FALSE
  <2>1. m.kind = "AppendEntries" /\ commit_index'[i] = FollowerCommit(commit_index[i], m)
    BY <1>2, <1>3, <1>6 DEF Takes
  <2>2. m \in AppendEntries
    BY <2>1, MessageKinds DEF TypeOK
  <2>3. m.leader_commit \in Nat /\ m.leader_commit <= Len(chosen) /\ matched_index(m) \in Nat
    BY <2>1, <2>2, LenProperties DEF AppendEntries, HistInv, matched_index
  <2> QED
    BY <1>1, <1>3, <2>1, <2>3 DEF FollowerCommit
<1> QED
  BY <1>3, <1>4, <1>5, <1>6 DEF StepOf

\* What a step does to the history: nothing, or the step is a leader's commit and
\* the history is its log up to the new commit index.
LEMMA RecordStep ==
  ASSUME TypeOK, TypeOK', NEW i \in Server, StepOf(i), NEW L \in Ledgers, NEW W \in Writers,
         HistInv(L, W), Record
  PROVE  \/ chosen' = chosen /\ \A j \in Server : commit_index'[j] <= Len(chosen)
         \/ /\ Commits(i) /\ commit_index'[i] > Len(chosen)
            /\ chosen' = SubSeq(log[i], 1, commit_index'[i])
            /\ \A j \in Server : j # i => commit_index'[j] <= Len(chosen)
<1>1. \A j \in Server : commit_index'[j] \in Nat /\ Len(chosen) \in Nat
  BY LenProperties DEF TypeOK, HistInv
<1>2. CASE \E j \in Server : Longer(j)
  <2>1. PICK j \in Server : Longer(j) /\ chosen' = SubSeq(log'[j], 1, commit_index'[j])
    BY <1>2 DEF Record
  <2>2. j = i /\ Commits(i)
    BY <2>1, LongerCommits
  <2>3. log'[i] = log[i]
    BY <2>2 DEF Commits
  <2>4. ASSUME NEW q \in Server, q # i PROVE commit_index'[q] <= Len(chosen)
    BY <1>1, <2>4, LongerCommits DEF Longer
  <2> QED
    BY <2>1, <2>2, <2>3, <2>4 DEF Longer
<1>3. CASE ~\E j \in Server : Longer(j)
  BY <1>1, <1>3 DEF Record, Longer
<1> QED
  BY <1>2, <1>3

\* A leader's commit past the history extends it.
LEMMA CommitExtends ==
  ASSUME TypeOK, TypeOK', NodeInv, NEW i \in Server, StepOf(i),
         NEW L \in Ledgers, NEW W \in Writers, SafetyInv(L, W), HistInv(L, W),
         Commits(i), commit_index'[i] > Len(chosen),
         chosen' = SubSeq(log[i], 1, commit_index'[i])
  PROVE  /\ chosen' \in Seq(Entry) /\ Len(chosen') = commit_index'[i]
         /\ Pfx(chosen', log[i], commit_index'[i])
         /\ Pfx(chosen', chosen, Len(chosen))
         /\ Backed(L, W, chosen', Len(chosen'), MaxTerm)
<1>1. /\ leader_term[i] \in Term /\ leader_term[i] = current_term[i]
      /\ commit_index'[i] \in Nat /\ L[leader_term[i]] = log[i]
      /\ ChosenAt(L, W, leader_term[i], commit_index'[i])
      /\ Pfx(log[i], log[i], commit_index'[i])
  BY CommitsChosen DEF SafetyInv, QuorumInv, CommitInv
<1>2. PICK n \in Nat, c \in Seq(Entry) : n = commit_index'[i] /\ c = SubSeq(log[i], 1, n)
                                         /\ Len(c) = n /\ Pfx(c, log[i], n)
  <2>1. log[i] \in Seq(Entry) /\ commit_index'[i] <= Len(log[i])
    BY <1>1 DEF TypeOK, Pfx
  <2> QED
    BY <1>1, <2>1, SubSeqPfx
<1>3. leader_term[i] \in Nat /\ leader_term[i] <= MaxTerm /\ MaxTerm \in Nat
  BY <1>1, BoundAssumption DEF Term
<1>4. Len(chosen) \in Nat /\ Len(chosen) <= n /\ n >= n
  BY <1>2, LenProperties DEF HistInv
<1>5. Backed(L, W, c, n, MaxTerm)
  BY <1>1, <1>2, <1>3, <1>4 DEF Backed
<1>6. Pfx(c, chosen, Len(chosen))
  BY <1>4, <1>5, BackedAgree DEF HistInv, SafetyInv, QuorumInv
<1> QED
  BY <1>2, <1>5, <1>6

\* While a node leads, its commit index does not fall.
LEMMA CommitRises ==
  ASSUME TypeOK, TypeOK', NEW i \in Server, StepOf(i), NEW j \in Server,
         leader_term'[j] # 0, leader_term'[j] = leader_term[j]
  PROVE  commit_index[j] <= commit_index'[j]
<1>1. commit_index[j] \in Nat /\ commit_index'[j] \in Nat
  BY DEF TypeOK
<1>2. CASE j # i
  BY <1>1, <1>2 DEF StepOf, Frame
<1>3. CASE j = i
  <2>1. ~\E m \in msgs : Takes(i, m)
    BY <1>3 DEF Takes
  <2>2. CASE Commits(i)
    BY <1>1, <1>3, <2>2 DEF Commits
  <2>3. CASE Rests(i) \/ Campaigns(i) \/ \E m \in msgs : Votes(i, m)
    BY <1>1, <1>3, <2>3 DEF Rests, Campaigns, Votes
  <2>4. CASE \E e \in Entry : Grows(i, e)
    BY <1>1, <1>3, <2>4 DEF Grows
  <2> QED
    BY <2>1, <2>2, <2>3, <2>4 DEF StepOf
<1> QED
  BY <1>2, <1>3

\* A step keeps it known who committed the history: a term whose leader has
\* written is not won again.
LEMMA CommittedStep ==
  ASSUME TypeOK, TypeOK', NodeInv, NEW i \in Server, StepOf(i),
         NEW L \in Ledgers, NEW W \in Writers, SafetyInv(L, W), HistInv(L, W), Record,
         NEW L2 \in Ledgers, NEW W2 \in Writers, LedgerGrows(L, W, L2, W2), LogInv(L2, W2)'
  PROVE  Len(chosen') = 0 \/ \E t \in Term : CommittedIn(L2, W2, t)'
<1>1. CASE chosen' = chosen
  <2> SUFFICES ASSUME Len(chosen) # 0
               PROVE  \E t \in Term : CommittedIn(L2, W2, t)'
    BY <1>1
  <2>1. PICK t \in Term : CommittedIn(L, W, t)
    BY DEF HistInv
  <2>2. PICK k \in Nat : /\ k >= Len(chosen) /\ ChosenAt(L, W, t, k)
                         /\ Pfx(chosen, L[t], Len(chosen))
    BY <2>1 DEF CommittedIn
  <2>3. ChosenAt(L2, W2, t, k)'
    BY <2>2, ChosenStays
  <2>4. Pfx(chosen, L2[t], Len(chosen))
    BY <2>2, LedgerKeeps, LenProperties DEF HistInv
  <2>5. ASSUME NEW j \in Server, leader_term'[j] = t PROVE Len(chosen) <= commit_index'[j]
    <3>1. L[t] # <<>> /\ t # 0 /\ W[t] # Nobody
      <4>1. k \in 1..Len(L[t]) /\ L[t][k].term = t /\ L[t] \in Seq(Entry)
        BY <2>2 DEF ChosenAt, Own, Ledgers
      <4>2. L[t][k] \in Entry
        BY <4>1, ElementOfSeq
      <4> QED
        BY <4>1, <4>2, EmptySeq DEF Entry, SafetyInv, LogInv, WritersLed
    <3>2. W2[t] = W[t] /\ W2[t] = j
      BY <2>5, <3>1 DEF LedgerGrows, LogInv, LeadersWrite
    <3>3. ~(Standing(j) /\ election_term[j] = t)
      BY <3>1, <3>2 DEF SafetyInv, LogInv, WritersLed
    <3>4. leader_term[j] = t
      BY <2>5, <3>1, <3>3 DEF StepOf, Frame, SentStep, ReadsStep
    <3>5. Len(chosen) <= commit_index[j] /\ commit_index[j] <= commit_index'[j]
      BY <2>1, <2>5, <3>1, <3>4, CommitRises DEF CommittedIn
    <3>6. Len(chosen) \in Nat /\ commit_index[j] \in Nat /\ commit_index'[j] \in Nat
      BY LenProperties DEF HistInv, TypeOK
    <3> QED
      BY <3>5, <3>6
  <2> QED
    BY <1>1, <2>2, <2>3, <2>4, <2>5 DEF CommittedIn
<1>2. CASE /\ Commits(i) /\ commit_index'[i] > Len(chosen)
           /\ chosen' = SubSeq(log[i], 1, commit_index'[i])
  <2>1. PICK t \in Term, n \in Nat, c \in Seq(Entry) :
          t = leader_term[i] /\ n = commit_index'[i] /\ c = chosen'
    BY <1>2, CommitExtends DEF TypeOK
  <2>2. Len(c) = n /\ Pfx(c, log[i], n)
    BY <1>2, <2>1, CommitExtends
  <2>3. L[t] = log[i] /\ ChosenAt(L, W, t, n)
    BY <1>2, <2>1, CommitsChosen DEF SafetyInv, QuorumInv, CommitInv
  <2>4. ChosenAt(L2, W2, t, n)'
    BY <2>3, ChosenStays
  <2>5. Pfx(c, L2[t], n)
    BY <2>2, <2>3, LedgerKeeps
  <2>6. leader_term'[i] = t /\ t # 0
    BY <1>2, <2>1 DEF Commits, MatchStep
  <2>7. ASSUME NEW j \in Server, leader_term'[j] = t PROVE Len(c) <= commit_index'[j]
    <3>1. W2[t] = i /\ W2[t] = j
      BY <2>6, <2>7 DEF LogInv, LeadersWrite
    <3> QED
      BY <2>1, <2>2, <3>1
  <2>8. CommittedIn(L2, W2, t)'
    BY <2>1, <2>2, <2>4, <2>5, <2>7 DEF CommittedIn
  <2> QED
    BY <2>8
<1> QED
  BY <1>1, <1>2, RecordStep

\* A step keeps the history chosen.
LEMMA HistStep ==
  ASSUME TypeOK, TypeOK', ElectionInv, ElectionInv', NodeInv, NodeInv', NEW i \in Server, StepOf(i),
         NEW L \in Ledgers, NEW W \in Writers, SafetyInv(L, W), HistInv(L, W), Record,
         NEW L2 \in Ledgers, NEW W2 \in Writers, LedgerGrows(L, W, L2, W2), LogInv(L2, W2)'
  PROVE  HistInv(L2, W2)'
<1>0. MaxTerm \in Nat /\ Len(chosen) \in Nat /\ \A j \in Server : commit_index'[j] \in Nat
  BY BoundAssumption, LenProperties DEF HistInv, TypeOK
<1>1. /\ chosen' \in Seq(Entry) /\ Backed(L, W, chosen', Len(chosen'), MaxTerm)
      /\ Len(chosen) <= Len(chosen')
      /\ \A j \in Server : commit_index'[j] <= Len(chosen')
  <2>1. CASE chosen' = chosen /\ \A j \in Server : commit_index'[j] <= Len(chosen)
    BY <1>0, <2>1 DEF HistInv
  <2>2. CASE /\ Commits(i) /\ commit_index'[i] > Len(chosen)
             /\ chosen' = SubSeq(log[i], 1, commit_index'[i])
             /\ \A j \in Server : j # i => commit_index'[j] <= Len(chosen)
    <3>1. /\ chosen' \in Seq(Entry) /\ Len(chosen') = commit_index'[i]
          /\ Backed(L, W, chosen', Len(chosen'), MaxTerm)
      BY <2>2, CommitExtends
    <3>2. ASSUME NEW j \in Server PROVE commit_index'[j] <= Len(chosen')
      <4>1. PICK n \in Nat, x \in Nat, y \in Nat :
              n = commit_index'[i] /\ x = commit_index'[j] /\ y = Len(chosen)
        BY <1>0
      <4>2. (j = i => x = n) /\ (j # i => x <= y) /\ n > y /\ Len(chosen') = n
        BY <2>2, <3>1, <4>1
      <4>3. x <= n
        BY <4>2
      <4> QED
        BY <4>1, <4>2, <4>3
    <3> QED
      BY <1>0, <2>2, <3>1, <3>2
  <2> QED
    BY <2>1, <2>2, RecordStep
<1>2. PICK c \in Seq(Entry), n \in Nat : c = chosen' /\ n = Len(chosen')
  BY <1>1, LenProperties
<1>3. Backed(L2, W2, c, n, MaxTerm)'
  BY <1>0, <1>1, <1>2, BackedStays
<1>4. ASSUME NEW m \in msgs', m.kind = "AppendEntries" PROVE m.leader_commit <= n
  <2>1. m \in AppendEntries
    BY <1>4, MessageKinds DEF TypeOK
  <2>2. m.leader_commit \in Nat
    BY <2>1 DEF AppendEntries
  <2>3. CASE m \in msgs
    BY <1>0, <1>1, <1>2, <1>4, <2>2, <2>3 DEF HistInv
  <2>4. CASE m \notin msgs
    <3>1. m.leader_commit <= commit_index'[i]
      BY <1>4, <2>4 DEF StepOf, SentStep, NewRequest
    <3> QED
      BY <1>0, <1>1, <1>2, <2>2, <3>1
  <2> QED
    BY <2>3, <2>4
<1>5. chosen' \in Seq(Entry) /\ \A j \in Server : commit_index'[j] <= Len(chosen')
  BY <1>1
<1>6. \A m \in msgs' : m.kind = "AppendEntries" => m.leader_commit <= Len(chosen')
  BY <1>2, <1>4
<1>7. Backed(L2, W2, chosen, Len(chosen), MaxTerm)'
  BY <1>2, <1>3
<1>8. Len(chosen') = 0 \/ \E t \in Term : CommittedIn(L2, W2, t)'
  BY CommittedStep
<1> QED
  BY <1>5, <1>6, <1>7, <1>8 DEF HistInv

-----------------------------------------------------------------------------
(* The invariant and what follows from it.                                 *)

\* The history variables do not influence the cluster.
LEMMA HistoryIsRaft == HSpec => Spec
<1>1. HInit => Init
  BY DEF HInit
<1>2. [HNext]_hvars => [Next]_vars
  BY DEF HNext, hvars
<1> QED
  BY <1>1, <1>2, PTL DEF HSpec, Spec

\* A new cluster has committed nothing.
LEMMA HistInit == HInit => Recorded
<1> SUFFICES ASSUME HInit PROVE Recorded
  OBVIOUS
<1>1. Safe
  BY SafetyInit DEF HInit
<1>2. PICK L \in Ledgers, W \in Writers : SafetyInv(L, W)
  BY <1>1 DEF Safe
<1>3. chosen = <<>> /\ Len(chosen) = 0 /\ chosen \in Seq(Entry)
  BY EmptySeq DEF HInit
<1>4. HistInv(L, W)
  BY <1>3 DEF HistInv, HInit, Init, Backed
<1> QED
  BY <1>2, <1>4 DEF Recorded

\* A step keeps the history recorded.
LEMMA HistNext ==
  TypeOK /\ TypeOK' /\ ElectionInv /\ ElectionInv' /\ NodeInv /\ NodeInv' /\ Recorded
    /\ [HNext]_hvars => Recorded'
<1> SUFFICES ASSUME TypeOK, TypeOK', ElectionInv, ElectionInv', NodeInv, NodeInv', Recorded,
                    [HNext]_hvars
             PROVE  Recorded'
  OBVIOUS
<1>1. PICK L \in Ledgers, W \in Writers : SafetyInv(L, W) /\ HistInv(L, W)
  BY DEF Recorded
<1>2. CASE UNCHANGED hvars
  <2>1. UNCHANGED vars /\ chosen' = chosen
    BY <1>2 DEF hvars
  <2>2. SafetyInv(L, W)'
    BY <1>1, <2>1, SafetyStutter
  <2>3. commit_index' = commit_index /\ msgs' = msgs
    BY <2>1 DEF vars, node
  <2>4. HistInv(L, W)'
    BY <1>1, <2>1, <2>3 DEF HistInv, CommittedIn, Backed, ChosenAt, Own, Acked, Replied,
                            vars, leader
  <2> QED
    BY <2>2, <2>4 DEF Recorded
<1>3. CASE HNext
  <2>1. PICK i \in Server : StepOf(i)
    BY <1>3, NodeStep DEF HNext
  <2>2. PICK L2 \in Ledgers, W2 \in Writers : Carries(i, L, W, L2, W2)
    BY <2>1, LedgerExists
  <2>3. SafetyInv(L2, W2)' /\ LedgerGrows(L, W, L2, W2)
    BY <1>1, <2>1, <2>2, SafetyStep
  <2>4. HistInv(L2, W2)'
    BY <1>1, <1>3, <2>1, <2>3, HistStep DEF HNext, SafetyInv
  <2> QED
    BY <2>3, <2>4 DEF Recorded
<1> QED
  BY <1>2, <1>3

\* In every reachable state what has been committed was acknowledged by two nodes
\* as part of a leader's log, and no node is ahead of it.
THEOREM HistoryIsRecorded == HSpec => []Recorded
<1>1. HInit => Recorded
  BY HistInit
<1>2. TypeOK /\ TypeOK' /\ ElectionInv /\ ElectionInv' /\ NodeInv /\ NodeInv' /\ Recorded
        /\ [HNext]_hvars => Recorded'
  BY HistNext
<1> QED
  BY <1>1, <1>2, HistoryIsRaft, TypeCorrect, ElectionInvariant, NodeInvariant, PTL DEF HSpec

\* Every committed entry is on two disks at all times: no single crash loses it.
THEOREM CommittedIsOnMajority == HSpec => []CommittedOnMajority
<1>1. TypeOK /\ Recorded => CommittedOnMajority
  <2> SUFFICES ASSUME TypeOK, Recorded, NEW k \in 1..Len(chosen)
               PROVE  \E i, j \in Server :
                        /\ i # j
                        /\ Len(log[i]) >= k /\ SubSeq(log[i], 1, k) = SubSeq(chosen, 1, k)
                        /\ Len(log[j]) >= k /\ SubSeq(log[j], 1, k) = SubSeq(chosen, 1, k)
    BY DEF CommittedOnMajority
  <2>1. PICK L \in Ledgers, W \in Writers : SafetyInv(L, W) /\ HistInv(L, W)
    BY DEF Recorded
  <2>2. chosen \in Seq(Entry) /\ Len(chosen) \in Nat /\ Len(chosen) # 0 /\ k \in Nat /\ k <= Len(chosen)
    BY <2>1, LenProperties DEF HistInv
  <2>3. PICK t \in Term, c \in Nat :
          c >= Len(chosen) /\ ChosenAt(L, W, t, c) /\ Pfx(chosen, L[t], Len(chosen))
    BY <2>1, <2>2 DEF HistInv, Backed
  <2>4. PICK i \in Server, j \in Server : i # j /\ Acked(W, i, t, c) /\ Acked(W, j, t, c)
    BY <2>3 DEF ChosenAt
  <2>5. ~Dead(W, t, c) /\ Own(L, t, c) /\ c \in 1..Len(L[t]) /\ L[t] \in Seq(Entry)
    BY <2>3, ChosenLives DEF ChosenAt, Own, Ledgers
  <2>6. ASSUME NEW q \in Server, Acked(W, q, t, c)
        PROVE  Len(log[q]) >= k /\ SubSeq(log[q], 1, k) = SubSeq(chosen, 1, k)
    <3>1. log[q] \in Seq(Entry) /\ Len(log[q]) \in Nat
      BY LenProperties DEF TypeOK
    <3>2. Pfx(log[q], L[t], c)
      BY <2>1, <2>5, <2>6 DEF SafetyInv, QuorumInv, AcksHeld
    <3>3. Pfx(L[t], chosen, Len(chosen)) /\ k <= c
      BY <2>2, <2>3, PfxSym
    <3>4. Pfx(log[q], chosen, k)
      BY <2>2, <2>5, <3>1, <3>2, <3>3, PfxVia
    <3> QED
      BY <2>2, <3>1, <3>4, PfxSubSeq DEF Pfx
  <2> QED
    BY <2>4, <2>6
<1> QED
  BY <1>1, HistoryIsRaft, TypeCorrect, HistoryIsRecorded, PTL

\* The leader of the highest term has everything that was ever committed.
THEOREM LeadersAreComplete == HSpec => []LeaderCompleteness
<1>1. TypeOK /\ NodeInv /\ Recorded => LeaderCompleteness
  <2> SUFFICES ASSUME TypeOK, NodeInv, Recorded, NEW i \in Server, Active(i),
                      \A j \in Server : current_term[j] <= leader_term[i]
               PROVE  Len(log[i]) >= Len(chosen) /\ SubSeq(log[i], 1, Len(chosen)) = chosen
    BY DEF LeaderCompleteness
  <2> DEFINE u == leader_term[i]
             n == Len(chosen)
  <2>1. PICK L \in Ledgers, W \in Writers : SafetyInv(L, W) /\ HistInv(L, W)
    BY DEF Recorded
  <2>2. chosen \in Seq(Entry) /\ n \in Nat
    BY <2>1, LenProperties DEF HistInv
  <2>3. log[i] \in Seq(Entry) /\ Len(log[i]) \in Nat /\ u \in Term /\ u # 0
    BY LenProperties DEF TypeOK, Active
  <2>4. W[u] = i /\ L[u] = log[i]
    BY <2>1, <2>3 DEF SafetyInv, LogInv, LeadersWrite
  <2>5. Pfx(log[i], chosen, n)
    <3>1. CASE n = 0
      BY <2>2, <2>3, <3>1 DEF Pfx
    <3>2. CASE n # 0
      <4>1. PICK t \in Term, c \in Nat :
              c >= n /\ ChosenAt(L, W, t, c) /\ Pfx(chosen, L[t], n)
        BY <2>1, <2>2, <3>2 DEF HistInv, Backed
      <4>2. PICK p \in Server : Acked(W, p, t, c)
        BY <4>1 DEF ChosenAt
      <4>3. current_term[p] >= t
        BY <2>1, <4>2, AckedTerm DEF SafetyInv, QuorumInv
      <4>4. current_term[p] \in Nat /\ t \in Nat /\ u \in Nat
        BY <2>3 DEF TypeOK, Term
      <4>5. t <= u /\ n <= c /\ n <= n
        BY <2>2, <4>1, <4>3, <4>4
      <4>6. L[u] # <<>>
        BY <2>1, <2>3, <2>4, ServerAssumption DEF SafetyInv, LogInv, WritersLed
      <4>7. Pfx(log[i], L[t], n)
        BY <2>1, <2>2, <2>3, <2>4, <4>1, <4>5, <4>6, ChosenKept DEF SafetyInv, QuorumInv
      <4>8. Pfx(L[t], chosen, n) /\ L[t] \in Seq(Entry)
        BY <4>1, PfxSym DEF Ledgers
      <4> QED
        BY <2>2, <2>3, <4>5, <4>7, <4>8, PfxVia
    <3> QED
      BY <3>1, <3>2
  <2>6. SubSeq(log[i], 1, n) = SubSeq(chosen, 1, n) /\ SubSeq(chosen, 1, n) = chosen
    BY <2>2, <2>3, <2>5, PfxSubSeq
  <2> QED
    BY <2>2, <2>3, <2>5, <2>6 DEF Pfx
<1> QED
  BY <1>1, HistoryIsRaft, TypeCorrect, NodeInvariant, HistoryIsRecorded, PTL

-----------------------------------------------------------------------------
(* The abstract replicated log.                                            *)

\* A log that agrees with the whole of another extends it.
LEMMA PfxExtends ==
  ASSUME NEW s \in Seq(Entry), NEW u \in Seq(Entry), Pfx(s, u, Len(u))
  PROVE  Replicated!Extends(s, u)
<1>1. Len(s) \in Nat /\ Len(u) \in Nat
  BY LenProperties
<1>2. SubSeq(s, 1, Len(u)) = SubSeq(u, 1, Len(u)) /\ SubSeq(u, 1, Len(u)) = u
  BY <1>1, PfxSubSeq
<1> QED
  BY <1>1, <1>2 DEF Replicated!Extends, Pfx

\* Logs of one length that agree on it are equal.
LEMMA PfxEqual ==
  ASSUME NEW s \in Seq(Entry), NEW u \in Seq(Entry), Len(s) = Len(u), Pfx(s, u, Len(u))
  PROVE  s = u
<1>1. \A k \in 1..Len(s) : s[k] = u[k]
  BY DEF Pfx
<1> QED
  BY <1>1, SeqEqual

\* What a running node has applied is committed.
LEMMA AppliedCommitted ==
  ASSUME TypeOK', NodeInv', NEW L \in Ledgers, NEW W \in Writers, SafetyInv(L, W), HistInv(L, W),
         NEW i \in Server, Live(i)', commit_index'[i] <= Len(chosen),
         Backed(L, W, log'[i], commit_index'[i], current_term'[i])
  PROVE  Pfx(chosen, applied'[i], Len(applied'[i])) /\ Len(applied'[i]) = commit_index'[i]
<1>1. PICK ap \in Seq(Entry), lg \in Seq(Entry), n \in Nat :
        ap = applied'[i] /\ lg = log'[i] /\ n = commit_index'[i]
  BY DEF TypeOK
<1>2. Len(ap) = n /\ Pfx(ap, lg, n)
  BY <1>1 DEF NodeInv, NodeOK, CommitAt
<1>3. chosen \in Seq(Entry) /\ Len(chosen) \in Nat
  BY LenProperties DEF HistInv
<1>4. Backed(L, W, lg, n, current_term'[i])
  BY <1>1
<1>5. Pfx(chosen, lg, n)
  BY <1>1, <1>3, <1>4, BackedAgree DEF HistInv, SafetyInv, QuorumInv
<1>6. Pfx(lg, ap, n) /\ n <= n
  BY <1>2, PfxSym
<1>7. Pfx(chosen, ap, n)
  BY <1>1, <1>3, <1>5, <1>6, PfxVia
<1> QED
  BY <1>1, <1>2, <1>7

\* Every step of the cluster is a step of the abstract log, or none.
LEMMA StepReplicates ==
  ASSUME TypeOK, TypeOK', ElectionInv, NodeInv, NodeInv', NEW i \in Server, StepOf(i),
         NEW L \in Ledgers, NEW W \in Writers, SafetyInv(L, W), HistInv(L, W), Record
  PROVE  Replicated!Next \/ (chosen' = chosen /\ applied' = applied)
<1>1. PICK a \in Seq(Entry), b \in Seq(Entry) : a = applied[i] /\ b = applied'[i]
  BY DEF TypeOK
<1>2. applied' = [applied EXCEPT ![i] = b]
  <2>1. /\ applied \in [Server -> Seq(Entry)] /\ applied' \in [Server -> Seq(Entry)]
        /\ \A j \in Server : j # i => applied'[j] = applied[j]
    BY DEF TypeOK, StepOf, Frame
  <2> QED
    BY <1>1, <2>1
<1>3. a = b => applied' = applied
  <2>1. applied \in [Server -> Seq(Entry)] /\ applied' \in [Server -> Seq(Entry)]
    BY DEF TypeOK
  <2>2. ASSUME a = b PROVE \A j \in Server : applied'[j] = applied[j]
    BY <1>1, <1>2, <2>1, <2>2
  <2>3. ASSUME a = b PROVE applied' = applied
    BY <2>1, <2>2, <2>3
  <2> QED
    BY <2>3
<1>4. chosen \in Seq(Entry) /\ Len(chosen) \in Nat /\ Len(a) \in Nat /\ Len(b) \in Nat
  BY LenProperties DEF HistInv
<1>5. LogInv(L, W) /\ QuorumInv(L, W) /\ CommitInv(L, W)
  BY DEF SafetyInv
<1>6. CASE /\ Commits(i) /\ commit_index'[i] > Len(chosen)
           /\ chosen' = SubSeq(log[i], 1, commit_index'[i])
  <2>1. /\ chosen' \in Seq(Entry) /\ Len(chosen') = commit_index'[i]
        /\ Pfx(chosen', log[i], commit_index'[i]) /\ Pfx(chosen', chosen, Len(chosen))
    BY <1>6, CommitExtends
  <2>2. PICK c \in Seq(Entry), n \in Nat, lg \in Seq(Entry) :
          c = chosen' /\ n = commit_index'[i] /\ lg = log[i]
    BY <2>1 DEF TypeOK
  <2>3. Live(i)' /\ log'[i] = log[i]
    BY <1>6 DEF Commits, NodeInv, NodeOK, LeaderAt
  <2>4. Len(b) = n /\ Pfx(b, lg, n)
    BY <1>1, <2>2, <2>3 DEF NodeInv, NodeOK, CommitAt
  <2>5. Pfx(lg, c, n) /\ Len(c) = n /\ n <= n
    BY <2>1, <2>2, PfxSym
  <2>6. Pfx(b, c, Len(c))
    BY <2>2, <2>4, <2>5, PfxVia
  <2>7. b = c
    BY <2>4, <2>5, <2>6, PfxEqual
  <2>8. Replicated!Extends(c, chosen)
    BY <1>4, <2>1, <2>2, PfxExtends
  <2>9. Replicated!Commit(i)
    BY <1>2, <1>6, <2>1, <2>2, <2>7, <2>8 DEF Replicated!Commit
  <2> QED
    BY <2>9 DEF Replicated!Next
<1>7. ASSUME chosen' = chosen, \A j \in Server : commit_index'[j] <= Len(chosen),
             Live(i), Live(i)', commit_index[i] <= commit_index'[i]
      PROVE  Replicated!Next \/ (chosen' = chosen /\ applied' = applied)
  <2>1. Pfx(chosen, b, Len(b)) /\ Len(b) = commit_index'[i]
    BY <1>1, <1>5, <1>7, StepBacked, AppliedCommitted
  <2>2. Len(a) = commit_index[i] /\ Pfx(a, log[i], Len(a)) /\ log[i] \in Seq(Entry)
    BY <1>1, <1>7 DEF NodeInv, NodeOK, CommitAt, TypeOK
  <2>3. Len(a) <= Len(b) /\ Len(a) <= Len(a) /\ Len(a) <= Len(chosen)
    <3>1. commit_index[i] \in Nat /\ commit_index'[i] \in Nat
      BY DEF TypeOK
    <3> QED
      BY <1>4, <1>7, <2>1, <2>2, <3>1
  <2>4. Backed(L, W, log[i], Len(a), current_term[i])
    BY <1>5, <1>7, <2>2 DEF CommitInv, NodesBacked
  <2>5. Pfx(chosen, log[i], Len(a))
    BY <1>4, <2>2, <2>3, <2>4, BackedAgree DEF HistInv, SafetyInv, QuorumInv
  <2>6. Pfx(b, chosen, Len(b))
    BY <2>1, PfxSym
  <2>7. Pfx(b, log[i], Len(a))
    BY <1>4, <2>2, <2>3, <2>5, <2>6, PfxVia
  <2>8. Pfx(b, a, Len(a))
    BY <1>4, <2>2, <2>3, <2>7, PfxSym, PfxVia
  <2>9. CASE Len(a) = Len(b)
    BY <1>3, <1>7, <2>8, <2>9, PfxEqual
  <2>10. CASE Len(a) # Len(b)
    <3>1. Len(b) > Len(a)
      BY <1>4, <2>3, <2>10
    <3>2. Replicated!Extends(b, a) /\ Replicated!Extends(chosen, b)
      BY <1>4, <2>1, <2>8, PfxExtends
    <3>3. Replicated!Learn(i)
      BY <1>1, <1>2, <1>7, <3>1, <3>2 DEF Replicated!Learn
    <3> QED
      BY <3>3 DEF Replicated!Next
  <2> QED
    BY <2>9, <2>10
<1>8. ASSUME chosen' = chosen, b = <<>>
      PROVE  Replicated!Next \/ (chosen' = chosen /\ applied' = applied)
  BY <1>2, <1>8 DEF Replicated!Next, Replicated!Reset
<1>9. ASSUME chosen' = chosen, \A j \in Server : commit_index'[j] <= Len(chosen)
      PROVE  Replicated!Next \/ (chosen' = chosen /\ applied' = applied)
  <2>1. CASE a = b
    BY <1>3, <1>9, <2>1
  <2>2. CASE b = <<>>
    BY <1>8, <1>9, <2>2
  <2>3. CASE Commits(i)
    <3>1. Live(i) /\ Live(i)'
      BY <2>3 DEF Commits, MatchStep, NodeInv, NodeOK, LeaderAt
    <3>2. commit_index[i] <= commit_index'[i]
      BY <2>3 DEF Commits, TypeOK
    <3> QED
      BY <1>7, <1>9, <3>1, <3>2
  <2>4. ASSUME NEW m \in msgs, Takes(i, m), a # b
        PROVE  Replicated!Next \/ (chosen' = chosen /\ applied' = applied)
    <3>1. /\ Live(i) /\ Live(i)' /\ commit_index'[i] = FollowerCommit(commit_index[i], m)
          /\ m.kind = "AppendEntries"
      BY <1>1, <2>4 DEF Takes
    <3>2. m \in AppendEntries
      BY <3>1, MessageKinds DEF TypeOK
    <3>3. m.leader_commit \in Nat /\ matched_index(m) \in Nat
      BY <3>2, LenProperties DEF AppendEntries, matched_index
    <3>4. commit_index[i] \in Nat
      BY DEF TypeOK
    <3>5. commit_index[i] <= commit_index'[i]
      BY <3>1, <3>3, <3>4 DEF FollowerCommit
    <3> QED
      BY <1>7, <1>9, <3>1, <3>5
  <2>5. CASE Rests(i)
    BY <1>1, <2>1, <2>2, <2>5 DEF Rests
  <2>6. CASE Campaigns(i) \/ \E m \in msgs : Votes(i, m)
    BY <1>1, <2>1, <2>6 DEF Campaigns, Votes
  <2>7. CASE \E e \in Entry : Grows(i, e)
    BY <1>1, <2>1, <2>7 DEF Grows
  <2> QED
    BY <2>1, <2>3, <2>4, <2>5, <2>6, <2>7 DEF StepOf
<1> QED
  BY <1>6, <1>9, RecordStep

\* The cluster implements the abstract replicated log: what is committed is never
\* taken back or rewritten, and every state machine is fed a prefix of the one
\* history, whatever the network, the disks and the processes do.
THEOREM HistoryReplicates == HSpec => ReplicatedSpec
<1>1. HInit => Replicated!Init
  BY DEF HInit, Init, Replicated!Init
<1>2. TypeOK /\ TypeOK' /\ ElectionInv /\ NodeInv /\ NodeInv' /\ Recorded /\ [HNext]_hvars
        => [Replicated!Next]_(Replicated!vars)
  <2> SUFFICES ASSUME TypeOK, TypeOK', ElectionInv, NodeInv, NodeInv', Recorded, [HNext]_hvars
               PROVE  Replicated!Next \/ UNCHANGED Replicated!vars
    OBVIOUS
  <2>1. CASE UNCHANGED hvars
    BY <2>1 DEF hvars, vars, node, Replicated!vars
  <2>2. CASE HNext
    <3>1. PICK i \in Server : StepOf(i)
      BY <2>2, NodeStep DEF HNext
    <3>2. PICK L \in Ledgers, W \in Writers : SafetyInv(L, W) /\ HistInv(L, W)
      BY DEF Recorded
    <3>3. Replicated!Next \/ (chosen' = chosen /\ applied' = applied)
      BY <2>2, <3>1, <3>2, StepReplicates DEF HNext
    <3> QED
      BY <3>3 DEF Replicated!vars
  <2> QED
    BY <2>1, <2>2
<1> QED
  BY <1>1, <1>2, HistoryIsRaft, TypeCorrect, ElectionInvariant, NodeInvariant, HistoryIsRecorded, PTL
  DEF HSpec, ReplicatedSpec, Replicated!Spec

-----------------------------------------------------------------------------
(* Reads.                                                                  *)

\* What a step does to the reads of a node that leads after it: an index is given
\* at the commit index, at an entry of the leader's term; a read leaves when its
\* index is applied and a peer has acknowledged its probe.
RoundsMove(i) ==
  leader_term'[i] # 0 =>
    /\ \A r \in read_rounds'[i] : r.index # 0 =>
         \/ r \in read_rounds[i]
         \/ r.index = commit_index'[i] /\ has_entry(log'[i], r.index, leader_term'[i])
    /\ \A q \in read_rounds[i] :
         \/ \E r \in read_rounds'[i] : r.id = q.id
         \/ /\ q.index # 0 /\ q.index <= Len(applied'[i])
            /\ \E m \in msgs : /\ Success(m) /\ m.from \in Peers(i) /\ m.term = leader_term[i]
                               /\ m.replied_to.read_context = q.id

\* No leader's reads change.
Unread == \A j \in Server : leader_term'[j] = 0 \/ read_rounds'[j] = read_rounds[j]

\* Then there is nothing to say of them.
LEMMA UnreadMoves == Unread => \A j \in Server : RoundsMove(j)
BY DEF Unread, RoundsMove

\* Timers, proposals and restarts leave reads alone or end the leadership.
LEMMA UnreadLocal ==
  ASSUME TypeOK, NEW i \in Server,
         \/ on_election_timeout(i) \/ election_term_exhausted(i) \/ on_heartbeat_timeout(i)
         \/ Restart(i) \/ \E command \in Command : propose(i, command)
  PROVE  Unread
<1>1. CASE on_election_timeout(i)
  BY <1>1 DEF on_election_timeout, drop_leadership, Unread, TypeOK
<1>2. CASE election_term_exhausted(i)
  BY <1>2 DEF election_term_exhausted, stop, drop_leadership, Unread, TypeOK
<1>3. CASE on_heartbeat_timeout(i)
  BY <1>3 DEF on_heartbeat_timeout, stop, drop_leadership, Unread, TypeOK
<1>4. CASE Restart(i)
  BY <1>4 DEF Restart, drop_leadership, Unread, TypeOK
<1>5. ASSUME NEW command \in Command, propose(i, command) PROVE Unread
  BY <1>5 DEF propose, stop, drop_leadership, Unread, TypeOK
<1> QED
  BY <1>1, <1>2, <1>3, <1>4, <1>5

\* So do failed writes: the node stops.
LEMMA UnreadFailure ==
  ASSUME TypeOK, NEW i \in Server, Failure(i)
  PROVE  Unread
<1>1. ASSUME NEW term, NEW vote, NEW lg, WriteFails(i, term, vote, lg) PROVE Unread
  BY <1>1 DEF WriteFails, stop, drop_leadership, Unread, TypeOK
<1>2. CASE election_write_fails(i)
  BY <1>1, <1>2 DEF election_write_fails
<1>3. ASSUME NEW command \in Command, proposal_write_fails(i, command) PROVE Unread
  BY <1>1, <1>3 DEF proposal_write_fails
<1>4. ASSUME NEW m \in msgs, term_write_fails(i, m) PROVE Unread
  BY <1>1, <1>4 DEF term_write_fails
<1>5. ASSUME NEW m \in msgs, vote_write_fails(i, m) PROVE Unread
  BY <1>1, <1>5 DEF vote_write_fails
<1>6. ASSUME NEW m \in msgs, append_write_fails(i, m) PROVE Unread
  BY <1>1, <1>6 DEF append_write_fails
<1>7. ASSUME NEW m \in msgs, noop_write_fails(i, m) PROVE Unread
  BY <1>1, <1>7 DEF noop_write_fails
<1> QED
  BY <1>2, <1>3, <1>4, <1>5, <1>6, <1>7 DEF Failure

\* So do votes and requests, and the replies that answer no read.
LEMMA UnreadReceive ==
  ASSUME TypeOK, NEW i \in Server, NEW m \in msgs, Receive(i, m),
         ~append_reply_committed(i, m), ~append_reply_ready_read(i, m)
  PROVE  Unread
<1> USE DEF leader, stop, drop_leadership, Unread, TypeOK
<1>1. CASE on_request_vote(i, m)
  BY <1>1 DEF on_request_vote
<1>2. CASE vote_reply_steps_down(i, m)
  BY <1>2 DEF vote_reply_steps_down
<1>3. CASE vote_reply_recorded(i, m)
  BY <1>3 DEF vote_reply_recorded
<1>4. CASE vote_reply_becomes_leader(i, m)
  BY <1>4 DEF vote_reply_becomes_leader
<1>5. CASE append_entries_stale(i, m)
  BY <1>5 DEF append_entries_stale
<1>6. CASE append_entries_rejected(i, m)
  BY ZenonT(60), <1>6 DEF append_entries_rejected
<1>7. CASE append_entries_accepted(i, m)
  <2>1. \E hint \in Server \cup {Nobody} : drop_leadership(i, hint)
    BY <1>7, MessageKinds DEF append_entries_accepted
  <2> QED
    BY <2>1
<1>8. CASE append_reply_steps_down(i, m)
  BY <1>8 DEF append_reply_steps_down
<1>9. CASE append_reply_failed(i, m)
  BY SMTT(30), <1>9 DEF append_reply_failed
<1>10. CASE append_reply_recorded(i, m)
  BY <1>10 DEF append_reply_recorded
<1> QED
  BY <1>1, <1>2, <1>3, <1>4, <1>5, <1>6, <1>7, <1>8, <1>9, <1>10 DEF Receive

\* A commit starts the reads that waited for it, at the new commit index.
LEMMA CommitReads ==
  ASSUME TypeOK, TypeOK', NodeInv, NEW i \in Server, NEW m \in msgs, append_reply_committed(i, m)
  PROVE  \A j \in Server : RoundsMove(j)
<1>1. PICK commit : commit_index' = [commit_index EXCEPT ![i] = commit]
                    /\ \/ leader_term' = [leader_term EXCEPT ![i] = 0]
                             /\ read_rounds' = [read_rounds EXCEPT ![i] = {}]
                       \/ read_rounds' = read_rounds
                       \/ /\ read_rounds' = [read_rounds EXCEPT ![i] = StartedRounds(@, commit)]
                          /\ has_entry(log[i], commit, current_term[i])
                          /\ leader_term' = leader_term
  BY DEF append_reply_committed, stop, drop_leadership, current_term_committed
<1>2. CASE \/ leader_term' = [leader_term EXCEPT ![i] = 0]
                /\ read_rounds' = [read_rounds EXCEPT ![i] = {}]
           \/ read_rounds' = read_rounds
  <2>1. Unread
    BY <1>2 DEF Unread, TypeOK
  <2> QED
    BY <2>1, UnreadMoves
<1>3. CASE /\ read_rounds' = [read_rounds EXCEPT ![i] = StartedRounds(@, commit)]
           /\ has_entry(log[i], commit, current_term[i])
           /\ leader_term' = leader_term
  <2>1. ASSUME NEW j \in Server, j # i PROVE RoundsMove(j)
    <3>1. read_rounds'[j] = read_rounds[j]
      BY <1>3, <2>1 DEF TypeOK
    <3> QED
      BY <3>1 DEF RoundsMove
  <2>2. commit_index'[i] = commit /\ read_rounds'[i] = StartedRounds(read_rounds[i], commit)
    BY <1>1, <1>3 DEF TypeOK
  <2>3. log'[i] = log[i]
    BY DEF append_reply_committed
  <2>4. leader_term'[i] # 0 => leader_term'[i] = current_term[i]
    BY <1>3 DEF NodeInv, NodeOK, LeaderAt
  <2>5. ASSUME NEW r \in read_rounds'[i], r \notin read_rounds[i] PROVE r.index = commit
    <3>1. PICK q \in read_rounds[i] : r = IF q.index = 0 THEN [q EXCEPT !.index = commit] ELSE q
      BY <2>2 DEF StartedRounds
    <3>2. r = [q EXCEPT !.index = commit] /\ q \in [id : 1..MaxReadId, index : Nat]
      BY <2>5, <3>1 DEF TypeOK
    <3> QED
      BY <3>2
  <2>6. ASSUME NEW q \in read_rounds[i] PROVE \E r \in read_rounds'[i] : r.id = q.id
    <3>1. (IF q.index = 0 THEN [q EXCEPT !.index = commit] ELSE q) \in read_rounds'[i]
      BY <2>2 DEF StartedRounds
    <3>2. q \in [id : 1..MaxReadId, index : Nat]
      BY DEF TypeOK
    <3>3. [q EXCEPT !.index = commit].id = q.id
      BY <3>2
    <3> QED
      BY <3>1, <3>3
  <2>7. RoundsMove(i)
    BY <1>3, <2>2, <2>3, <2>4, <2>5, <2>6 DEF RoundsMove
  <2> QED
    BY <2>1, <2>7
<1> QED
  BY <1>1, <1>2, <1>3

\* A new read joins; it is started at once, with any that wait, when an entry of
\* the leader's term is committed.
LEMMA BarrierReads ==
  ASSUME TypeOK, TypeOK', NodeInv, NEW i \in Server, read_barrier(i)
  PROVE  \A j \in Server : RoundsMove(j)
<1> DEFINE n == [id |-> next_read_id[i], index |-> 0]
           asked == read_rounds[i] \cup {n}
<1>1. \/ leader_term' = [leader_term EXCEPT ![i] = 0]
           /\ read_rounds' = [read_rounds EXCEPT ![i] = {}]
      \/ read_rounds' = [read_rounds EXCEPT ![i] = asked] /\ leader_term' = leader_term
      \/ /\ read_rounds' = [read_rounds EXCEPT ![i] = StartedRounds(asked, commit_index[i])]
         /\ has_entry(log[i], commit_index[i], current_term[i]) /\ leader_term' = leader_term
  BY DEF read_barrier, stop, drop_leadership, current_term_committed
<1>2. CASE leader_term' = [leader_term EXCEPT ![i] = 0]
             /\ read_rounds' = [read_rounds EXCEPT ![i] = {}]
  <2>1. Unread
    BY <1>2 DEF Unread, TypeOK
  <2> QED
    BY <2>1, UnreadMoves
<1>3. ASSUME NEW j \in Server, j # i PROVE RoundsMove(j)
  <2>1. read_rounds'[j] = read_rounds[j]
    BY SMTT(30), <1>1, <1>3 DEF TypeOK
  <2> QED
    BY <2>1 DEF RoundsMove
<1>4. CASE read_rounds' = [read_rounds EXCEPT ![i] = asked] /\ leader_term' = leader_term
  <2>1. read_rounds'[i] = asked
    BY <1>4 DEF TypeOK
  <2>2. n.index = 0
    OBVIOUS
  <2>3. RoundsMove(i)
    BY <2>1, <2>2 DEF RoundsMove
  <2> QED
    BY <1>3, <2>3
<1>5. CASE /\ read_rounds' = [read_rounds EXCEPT ![i] = StartedRounds(asked, commit_index[i])]
           /\ has_entry(log[i], commit_index[i], current_term[i]) /\ leader_term' = leader_term
  <2> DEFINE commit == commit_index[i]
  <2>1. read_rounds'[i] = StartedRounds(asked, commit)
    BY <1>5 DEF TypeOK
  <2>2. log'[i] = log[i] /\ commit_index'[i] = commit
    BY DEF read_barrier
  <2>3. leader_term'[i] # 0 => leader_term'[i] = current_term[i]
    BY <1>5 DEF NodeInv, NodeOK, LeaderAt
  <2>4. \A q \in asked : [q EXCEPT !.index = commit].id = q.id
                         /\ [q EXCEPT !.index = commit].index = commit
    BY DEF TypeOK
  <2> HIDE DEF commit
  <2>5. ASSUME NEW r \in read_rounds'[i], r.index # 0, r \notin read_rounds[i]
        PROVE  r.index = commit
    <3>1. PICK q \in asked : r = IF q.index = 0 THEN [q EXCEPT !.index = commit] ELSE q
      BY <2>1 DEF StartedRounds
    <3>2. CASE q.index = 0
      BY <2>4, <3>1, <3>2
    <3>3. CASE q.index # 0
      BY <2>5, <3>1, <3>3
    <3> QED
      BY <3>2, <3>3
  <2>6. ASSUME NEW q \in read_rounds[i] PROVE \E r \in read_rounds'[i] : r.id = q.id
    <3>1. (IF q.index = 0 THEN [q EXCEPT !.index = commit] ELSE q) \in read_rounds'[i]
      BY <2>1 DEF StartedRounds
    <3> QED
      BY <2>4, <3>1
  <2>7. RoundsMove(i)
    BY <1>5, <2>2, <2>3, <2>5, <2>6 DEF RoundsMove, commit
  <2> QED
    BY <1>3, <2>7
<1> QED
  BY <1>1, <1>2, <1>4, <1>5

\* A read whose probe is acknowledged leaves, if its index is applied.
LEMMA ReadyReads ==
  ASSUME TypeOK, TypeOK', NodeInv, AcksSent, NEW i \in Server, NEW m \in msgs,
         append_reply_ready_read(i, m)
  PROVE  \A j \in Server : RoundsMove(j)
<1>1. PICK x \in read_rounds[i] :
        /\ x.index # 0 /\ m.replied_to = ReadProbe(i, m.from, leader_term[i], x)
        /\ IF Len(applied[i]) < x.index
             THEN stop(i, "InconsistentState")
             ELSE /\ read_rounds' = [read_rounds EXCEPT ![i] = @ \ {x}]
                  /\ UNCHANGED <<leader_term, peers, known_leader, stopped>>
  BY DEF append_reply_ready_read
<1>2. CASE Len(applied[i]) < x.index
  <2>1. Unread
    BY <1>1, <1>2 DEF stop, drop_leadership, Unread, TypeOK
  <2> QED
    BY <2>1, UnreadMoves
<1>3. CASE ~(Len(applied[i]) < x.index)
  <2>1. ASSUME NEW j \in Server, j # i PROVE RoundsMove(j)
    <3>1. read_rounds'[j] = read_rounds[j]
      BY <1>1, <1>3, <2>1 DEF TypeOK
    <3> QED
      BY <3>1 DEF RoundsMove
  <2>2. read_rounds'[i] = read_rounds[i] \ {x} /\ applied'[i] = applied[i]
    BY <1>1, <1>3 DEF TypeOK, append_reply_ready_read
  <2>3. x.index <= Len(applied'[i])
    <3>1. x.index \in Nat /\ Len(applied[i]) \in Nat
      BY LenProperties DEF TypeOK
    <3> QED
      BY <1>3, <2>2, <3>1
  <2>4. /\ Success(m) /\ m.term = leader_term[i] /\ leader_term[i] # 0
        /\ m.replied_to.read_context = x.id /\ m.replied_to.from = i
        /\ m.replied_to.to = m.from /\ m.replied_to.kind = "AppendEntries"
    BY <1>1 DEF append_reply_ready_read, ToAppendReply, Success, ReadProbe, NodeInv, NodeOK, LeaderAt
  <2>5. m.from \in Peers(i)
    <3>1. m.replied_to \in msgs
      BY <2>4 DEF AcksSent
    <3>2. m.from # i
      BY <2>4, <3>1 DEF NodeInv, SentOK
    <3>3. m.from \in Server
      BY MessageKinds DEF TypeOK
    <3> QED
      BY <3>2, <3>3 DEF Peers
  <2>6. RoundsMove(i)
    BY <1>1, <2>2, <2>3, <2>4, <2>5 DEF RoundsMove
  <2> QED
    BY <2>1, <2>6
<1> QED
  BY <1>2, <1>3

\* So moves every step.
LEMMA ReadsStepped ==
  ASSUME TypeOK, TypeOK', NodeInv, AcksSent, Next
  PROVE  \A j \in Server : RoundsMove(j)
<1>1. \A m \in msgs : m.to \in Server
  BY MessageKinds DEF TypeOK
<1>2. ASSUME NEW i \in Server, LocalStep(i) PROVE \A j \in Server : RoundsMove(j)
  BY <1>2, UnreadLocal, UnreadMoves, BarrierReads DEF LocalStep
<1>3. ASSUME NEW m \in msgs, Receive(m.to, m) PROVE \A j \in Server : RoundsMove(j)
  BY <1>1, <1>3, UnreadReceive, UnreadMoves, CommitReads, ReadyReads
<1>4. ASSUME NEW i \in Server, Failure(i) \/ Restart(i) PROVE \A j \in Server : RoundsMove(j)
  BY <1>4, UnreadFailure, UnreadLocal, UnreadMoves
<1> QED
  BY <1>2, <1>3, <1>4 DEF Next

\* Read id of leader i can never be confirmed: both peers have left its term, and
\* neither acknowledged a probe of that read before.
Missed(i, id) ==
  \A p \in Peers(i) :
    /\ current_term[p] > leader_term[i]
    /\ \A r \in msgs : Success(r) /\ r.from = p /\ r.term = leader_term[i] =>
         r.replied_to.read_context # id

\* Leader i has committed n entries, or will have once it commits one of its own.
Covered(i, n) ==
  \/ n <= commit_index[i]
  \/ /\ n <= Len(log[i])
     /\ \A k \in 1..Len(log[i]) : log[i][k].term = leader_term[i] => n < k

\* What was committed when a read was asked is covered by its leader, and by the
\* index of the read once it has one, unless the read can never be confirmed.
FloorsMet ==
  \A i \in Server :
    /\ \A r \in read_rounds[i] : \E f \in read_floor[i] : f.id = r.id
    /\ \A f, g \in read_floor[i] : f.id = g.id => f.floor = g.floor
    /\ \A f \in read_floor[i] :
         /\ f.floor \in Nat
         /\ \E r \in read_rounds[i] : r.id = f.id
         /\ Missed(i, f.id) \/ Covered(i, f.floor)
         /\ \A r \in read_rounds[i] :
              r.id = f.id /\ r.index # 0 => f.floor <= r.index \/ Missed(i, f.id)

\* A read asked now: if a later term has committed, both peers have moved on, and
\* no probe carries the read's id yet. Otherwise the leader has the history in its
\* log, before its own entries unless it committed the history itself.
LEMMA AskedMeets ==
  ASSUME TypeOK, NodeInv, NEW L \in Ledgers, NEW W \in Writers, SafetyInv(L, W), HistInv(L, W),
         NEW i \in Server, leader_term[i] # 0, next_read_id[i] # 0
  PROVE  Missed(i, next_read_id[i]) \/ Covered(i, Len(chosen))
<1> DEFINE lt == leader_term[i]
           n == Len(chosen)
<1>1. /\ lt \in Term /\ lt \in Nat /\ current_term[i] = lt
      /\ commit_index[i] \in Nat /\ n \in Nat /\ log[i] \in Seq(Entry) /\ Len(log[i]) \in Nat
  BY LenProperties DEF NodeInv, NodeOK, LeaderAt, TypeOK, Term, HistInv
<1>2. /\ LogInv(L, W) /\ AcksSent /\ LeadersKeep(L, W)
      /\ W[lt] = i /\ L[lt] = log[i]
  BY DEF SafetyInv, QuorumInv, LogInv, LeadersWrite
<1> HIDE DEF lt, n
<1>3. CASE n = 0
  BY <1>1, <1>3 DEF Covered, n
<1>4. CASE n # 0
  <2>1. PICK t \in Term : CommittedIn(L, W, t)
    BY <1>4 DEF HistInv, n
  <2>2. PICK k \in Nat : k >= n /\ ChosenAt(L, W, t, k)
    BY <2>1 DEF CommittedIn, n
  <2>3. /\ k \in 1..Len(L[t]) /\ L[t][k].term = t /\ L[t] \in Seq(Entry) /\ t \in Nat
    BY <2>2 DEF ChosenAt, Own, Ledgers, Term
  <2>4. CASE t > lt
    <3>1. PICK p \in Server, q \in Server : p # q /\ Acked(W, p, t, k) /\ Acked(W, q, t, k)
      BY <2>2 DEF ChosenAt
    <3>2. current_term[p] >= t /\ current_term[q] >= t
      BY <1>2, <3>1, AckedTerm
    <3>3. \A x \in Server : current_term[x] \in Nat
      BY DEF TypeOK, Term
    <3>4. current_term[p] > lt /\ current_term[q] > lt
      BY <1>1, <2>3, <2>4, <3>2, <3>3
    <3>5. p # i /\ q # i
      BY <1>1, <3>4
    <3>6. \A x \in Peers(i) : x = p \/ x = q
      BY <3>1, <3>5, ServerAssumption DEF Peers
    <3>7. ASSUME NEW r \in msgs, Success(r), r.term = lt
          PROVE  r.replied_to.read_context # next_read_id[i]
      <4>1. r.replied_to \in msgs /\ r.replied_to.term = lt
        BY <1>2, <3>7 DEF AcksSent
      <4>2. r.replied_to.kind = "AppendEntries" /\ r.replied_to \in AppendEntries
        <5>1. r \in AppendEntriesReply
          BY <3>7, MessageKinds DEF TypeOK, Success
        <5> QED
          BY <5>1 DEF AppendEntriesReply, AppendEntries
      <4>3. r.replied_to.from = i
        BY <1>2, <4>1, <4>2 DEF LogInv, RequestsWritten
      <4>4. r.replied_to.read_context # 0 => r.replied_to.read_context < next_read_id[i]
        BY <4>1, <4>2, <4>3 DEF NodeInv, SentOK, lt
      <4>5. r.replied_to.read_context \in Nat /\ next_read_id[i] \in Nat
        BY <4>2 DEF TypeOK, AppendEntries
      <4> QED
        BY <4>4, <4>5
    <3> QED
      BY <3>4, <3>6, <3>7 DEF Missed, lt
  <2>5. CASE t = lt
    BY <2>1, <2>5 DEF CommittedIn, Covered, lt, n
  <2>6. CASE t < lt
    <3>1. Pfx(log[i], L[t], k)
      <4>1. L[lt] # <<>>
        BY <1>1, <1>2, ServerAssumption DEF LogInv, WritersLed
      <4>2. t <= lt /\ k <= k
        BY <1>1, <2>3, <2>6
      <4> QED
        BY <1>1, <1>2, <2>2, <4>1, <4>2, ChosenKept
    <3>2. n <= Len(log[i])
      BY <1>1, <2>2, <3>1 DEF Pfx
    <3>3. ASSUME NEW j \in 1..Len(log[i]), log[i][j].term = lt PROVE n < j
      <4> SUFFICES ASSUME ~(n < j) PROVE FALSE
        OBVIOUS
      <4>1. j \in 1..k /\ j \in 1..Len(L[t])
        BY <1>1, <2>2, <2>3
      <4>2. log[i][j] = L[t][j]
        BY <3>1, <4>1 DEF Pfx
      <4>3. L[t][j].term <= t
        BY <1>2, <4>1 DEF LogInv, LedgerSound
      <4> QED
        BY <1>1, <2>3, <2>6, <3>3, <4>2, <4>3
    <3> QED
      BY <3>2, <3>3 DEF Covered, lt, n
  <2> QED
    BY <1>1, <2>3, <2>4, <2>5, <2>6
<1> QED
  BY <1>3, <1>4

\* Who has missed a read will not confirm it: nothing is acknowledged in a term
\* that its follower has left.
LEMMA MissedStays ==
  ASSUME TypeOK, TypeOK', NEW i \in Server, StepOf(i), NEW j \in Server,
         leader_term'[j] = leader_term[j], NEW id, Missed(j, id)
  PROVE  Missed(j, id)'
<1>1. \A p \in Server : /\ current_term[p] \in Nat /\ current_term'[p] \in Nat
                        /\ current_term'[p] >= current_term[p]
  <2>1. \A p \in Server : current_term[p] \in Nat /\ current_term'[p] \in Nat
    BY DEF TypeOK, Term
  <2>2. /\ current_term'[i] >= current_term[i]
        /\ \A p \in Server : p # i => current_term'[p] = current_term[p]
    BY DEF StepOf, Frame, SentStep
  <2> QED
    BY <2>1, <2>2
<1>2. leader_term[j] \in Nat /\ Peers(j) \subseteq Server
  BY DEF TypeOK, Term, Peers
<1>3. ASSUME NEW p \in Peers(j)
      PROVE  /\ current_term'[p] > leader_term'[j]
             /\ \A r \in msgs' : Success(r) /\ r.from = p /\ r.term = leader_term'[j] =>
                  r.replied_to.read_context # id
  <2>1. current_term[p] > leader_term[j]
    BY DEF Missed
  <2>2. current_term'[p] > leader_term'[j]
    BY <1>1, <1>2, <2>1
  <2>3. ASSUME NEW r \in msgs', Success(r), r.from = p, r.term = leader_term'[j]
        PROVE  r \in msgs
    <3> SUFFICES ASSUME r \notin msgs PROVE FALSE
      OBVIOUS
    <3>1. PICK m \in msgs : Takes(i, m) /\ r = AppendReply(i, m, m.term, TRUE)
      BY <2>3, NewAck
    <3>2. r.from = i /\ r.term = m.term /\ m.term >= current_term[i]
      BY <3>1 DEF AppendReply, Takes
    <3> QED
      BY <1>1, <1>2, <2>1, <2>3, <3>2
  <2> QED
    BY <2>2, <2>3 DEF Missed
<1> QED
  BY <1>3 DEF Missed

\* The log of a leader that goes on leading only grows.
LEMMA LeaderLog ==
  ASSUME TypeOK, NEW i \in Server, StepOf(i), NEW j \in Server,
         leader_term'[j] # 0, leader_term'[j] = leader_term[j]
  PROVE  log'[j] = log[j] \/ \E e \in Entry : log'[j] = Append(log[j], e)
<1>1. CASE j # i
  BY <1>1 DEF StepOf, Frame
<1>2. CASE j = i
  <2>1. ~\E m \in msgs : Takes(i, m)
    BY <1>2 DEF Takes
  <2>2. CASE Rests(i) \/ Commits(i) \/ Campaigns(i) \/ \E m \in msgs : Votes(i, m)
    BY <2>2 DEF Rests, Commits, Campaigns, Votes
  <2>3. CASE \E e \in Entry : Grows(i, e)
    BY <1>2, <2>3 DEF Grows, TypeOK
  <2> QED
    BY <2>1, <2>2, <2>3 DEF StepOf
<1> QED
  BY <1>1, <1>2

\* What a leader covers it goes on covering: it adds only entries of its own.
LEMMA CoveredStays ==
  ASSUME TypeOK, TypeOK', NEW i \in Server, StepOf(i), NEW j \in Server,
         leader_term'[j] # 0, leader_term'[j] = leader_term[j], NEW n \in Nat, Covered(j, n)
  PROVE  Covered(j, n)'
<1>1. /\ commit_index[j] \in Nat /\ commit_index'[j] \in Nat
      /\ log[j] \in Seq(Entry) /\ Len(log[j]) \in Nat
  BY LenProperties DEF TypeOK
<1>2. CASE n <= commit_index[j]
  <2>1. commit_index[j] <= commit_index'[j]
    BY CommitRises
  <2> QED
    BY <1>1, <1>2, <2>1 DEF Covered
<1>3. CASE ~(n <= commit_index[j])
  <2>1. /\ n <= Len(log[j])
        /\ \A k \in 1..Len(log[j]) : log[j][k].term = leader_term[j] => n < k
    BY <1>3 DEF Covered
  <2>2. CASE log'[j] = log[j]
    BY <2>1, <2>2 DEF Covered
  <2>3. ASSUME NEW e \in Entry, log'[j] = Append(log[j], e) PROVE Covered(j, n)'
    <3>1. /\ Len(log'[j]) = Len(log[j]) + 1
          /\ \A k \in 1..Len(log[j]) : log'[j][k] = log[j][k]
      BY <1>1, <2>3, AppendProperties
    <3>2. n <= Len(log'[j])
      BY <1>1, <2>1, <3>1
    <3>3. ASSUME NEW k \in 1..Len(log'[j]), log'[j][k].term = leader_term'[j] PROVE n < k
      <4>1. CASE k \in 1..Len(log[j])
        BY <2>1, <3>1, <3>3, <4>1
      <4>2. CASE k \notin 1..Len(log[j])
        BY <1>1, <2>1, <3>1, <4>2
      <4> QED
        BY <4>1, <4>2
    <3> QED
      BY <3>2, <3>3 DEF Covered
  <2>4. log'[j] = log[j] \/ \E e \in Entry : log'[j] = Append(log[j], e)
    BY LeaderLog
  <2> QED
    BY <2>2, <2>3, <2>4
<1> QED
  BY <1>2, <1>3

\* What Record keeps of the reads: every read in progress, with what was committed
\* when it was first seen.
LEMMA FloorsRecorded ==
  ASSUME Record, NEW j \in Server
  PROVE  /\ \A r \in read_rounds'[j] : \E f \in read_floor'[j] : f.id = r.id
         /\ \A f, g \in read_floor'[j] : f.id = g.id => f.floor = g.floor
         /\ \A f \in read_floor'[j] :
              /\ \E r \in read_rounds'[j] : r.id = f.id
              /\ \/ \E g \in read_floor[j] : g.id = f.id /\ g.floor = f.floor
                 \/ f.floor = Len(chosen) /\ \A g \in read_floor[j] : g.id # f.id
<1> DEFINE First(id) == IF \E f \in read_floor[j] : f.id = id
                          THEN (CHOOSE f \in read_floor[j] : f.id = id).floor
                          ELSE Len(chosen)
<1>1. read_floor'[j] = {[id |-> r.id, floor |-> First(r.id)] : r \in read_rounds'[j]}
  BY DEF Record
<1>2. ASSUME NEW id
      PROVE  \/ \E g \in read_floor[j] : g.id = id /\ g.floor = First(id)
             \/ First(id) = Len(chosen) /\ \A g \in read_floor[j] : g.id # id
  OBVIOUS
<1> HIDE DEF First
<1>3. ASSUME NEW r \in read_rounds'[j] PROVE \E f \in read_floor'[j] : f.id = r.id
  <2>1. [id |-> r.id, floor |-> First(r.id)] \in read_floor'[j]
    BY <1>1
  <2> QED
    BY <2>1
<1>4. ASSUME NEW f \in read_floor'[j]
      PROVE  \E r \in read_rounds'[j] : r.id = f.id /\ f.floor = First(f.id)
  BY <1>1
<1>5. \A f \in read_floor'[j] : f.floor = First(f.id)
  BY <1>4
<1>6. ASSUME NEW f \in read_floor'[j]
      PROVE  \/ \E g \in read_floor[j] : g.id = f.id /\ g.floor = f.floor
             \/ f.floor = Len(chosen) /\ \A g \in read_floor[j] : g.id # f.id
  BY <1>2, <1>5
<1> QED
  BY <1>3, <1>4, <1>5, <1>6

\* A step of the cluster keeps the floors of all reads met.
LEMMA FloorsStep ==
  ASSUME TypeOK, TypeOK', NodeInv, NodeInv', NEW i \in Server, StepOf(i), Next, Record,
         NEW L \in Ledgers, NEW W \in Writers, SafetyInv(L, W), HistInv(L, W), FloorsMet
  PROVE  FloorsMet'
<1> SUFFICES ASSUME NEW j \in Server
             PROVE  \A f \in read_floor'[j] :
                      /\ f.floor \in Nat
                      /\ Missed(j, f.id)' \/ Covered(j, f.floor)'
                      /\ \A r \in read_rounds'[j] : r.id = f.id /\ r.index # 0 =>
                           f.floor <= r.index \/ Missed(j, f.id)'
  BY FloorsRecorded DEF FloorsMet
<1> SUFFICES ASSUME NEW f \in read_floor'[j]
             PROVE  /\ f.floor \in Nat
                    /\ Missed(j, f.id)' \/ Covered(j, f.floor)'
                    /\ \A r \in read_rounds'[j] : r.id = f.id /\ r.index # 0 =>
                         f.floor <= r.index \/ Missed(j, f.id)'
  OBVIOUS
<1>1. PICK x \in read_rounds'[j] : x.id = f.id
  BY FloorsRecorded
<1>2. leader_term'[j] # 0 /\ leader_term'[j] = leader_term[j]
      /\ (\A r \in read_rounds'[j] : \/ \E q \in read_rounds[j] : q.id = r.id
                                     \/ r.id = next_read_id[j] /\ next_read_id[j] # 0)
  <2>1. leader_term'[j] # 0
    BY <1>1 DEF NodeInv, NodeOK, ReadAt
  <2>2. CASE j # i
    BY <2>1, <2>2 DEF StepOf, Frame
  <2>3. CASE j = i
    <3>1. ReadsStep(i)
      BY <1>1, <2>1, <2>3 DEF StepOf, SentStep
    <3> QED
      BY <2>1, <2>3, <3>1 DEF ReadsStep
  <2> QED
    BY <2>2, <2>3
<1>3. PICK id, n : id = f.id /\ n = f.floor
  OBVIOUS
<1>4. \/ \E g \in read_floor[j] : g.id = id /\ g.floor = n
      \/ n = Len(chosen) /\ \A g \in read_floor[j] : g.id # id
  BY <1>3, FloorsRecorded
<1>5. /\ n \in Nat
      /\ Missed(j, id) \/ Covered(j, n)
      /\ \A r \in read_rounds[j] : r.id = id /\ r.index # 0 => n <= r.index \/ Missed(j, id)
  <2>1. CASE \E g \in read_floor[j] : g.id = id /\ g.floor = n
    BY <2>1 DEF FloorsMet
  <2>2. CASE n = Len(chosen) /\ \A g \in read_floor[j] : g.id # id
    <3>1. \A q \in read_rounds[j] : q.id # id
      BY <2>2 DEF FloorsMet
    <3>2. id = next_read_id[j] /\ next_read_id[j] # 0
      BY <1>1, <1>2, <1>3, <3>1
    <3>3. Missed(j, id) \/ Covered(j, n)
      BY <1>2, <2>2, <3>2, AskedMeets
    <3>4. n \in Nat
      BY <2>2, LenProperties DEF HistInv
    <3> QED
      BY <3>1, <3>3, <3>4
  <2> QED
    BY <1>4, <2>1, <2>2
<1>6. Missed(j, id) => Missed(j, id)'
  BY <1>2, MissedStays
<1>7. Covered(j, n) => Covered(j, n)'
  BY <1>2, <1>5, CoveredStays
<1>8. ASSUME NEW r \in read_rounds'[j], r.id = id, r.index # 0
      PROVE  n <= r.index \/ Missed(j, id)'
  <2>1. CASE r \in read_rounds[j]
    BY <1>5, <1>6, <1>8, <2>1
  <2>2. CASE r.index = commit_index'[j] /\ has_entry(log'[j], r.index, leader_term'[j])
    <3>1. Covered(j, n)' => n <= r.index
      <4>1. r.index \in Nat
        BY DEF TypeOK
      <4> QED
        BY <1>5, <2>2, <4>1 DEF Covered, has_entry
    <3> QED
      BY <1>5, <1>6, <1>7, <3>1
  <2>3. RoundsMove(j)
    BY ReadsStepped DEF SafetyInv, QuorumInv
  <2> QED
    BY <1>2, <1>8, <2>1, <2>2, <2>3 DEF RoundsMove
<1> QED
  BY <1>3, <1>5, <1>6, <1>7, <1>8

\* A read that is handed over was confirmed, so its index covers its floor.
LEMMA HandedFresh ==
  ASSUME TypeOK, TypeOK', NodeInv, Next, FloorsMet, AcksSent,
         NEW j \in Server, NEW f \in read_floor[j], leader_term'[j] # 0,
         \A r \in read_rounds'[j] : r.id # f.id
  PROVE  Len(applied'[j]) >= f.floor
<1>1. PICK q \in read_rounds[j] : q.id = f.id
  BY DEF FloorsMet
<1>2. /\ q.index # 0 /\ q.index <= Len(applied'[j])
      /\ \E m \in msgs : /\ Success(m) /\ m.from \in Peers(j) /\ m.term = leader_term[j]
                         /\ m.replied_to.read_context = q.id
  BY <1>1, ReadsStepped DEF RoundsMove
<1>3. ~Missed(j, f.id)
  BY <1>1, <1>2 DEF Missed
<1>4. f.floor <= q.index /\ f.floor \in Nat
  BY <1>1, <1>2, <1>3 DEF FloorsMet
<1>5. q.index \in Nat /\ Len(applied'[j]) \in Nat
  BY LenProperties DEF TypeOK
<1> QED
  BY <1>2, <1>4, <1>5

\* In every reachable state the reads in progress are covered or cannot be
\* confirmed any more.
THEOREM FloorsAreMet == HSpec => []FloorsMet
<1>1. HInit => FloorsMet
  BY DEF HInit, Init, FloorsMet
<1>2. TypeOK /\ TypeOK' /\ ElectionInv /\ NodeInv /\ NodeInv' /\ Recorded /\ FloorsMet
        /\ [HNext]_hvars => FloorsMet'
  <2> SUFFICES ASSUME TypeOK, TypeOK', ElectionInv, NodeInv, NodeInv', Recorded, FloorsMet,
                      [HNext]_hvars
               PROVE  FloorsMet'
    OBVIOUS
  <2>1. CASE UNCHANGED hvars
    BY <2>1 DEF hvars, vars, metadata, node, leader, FloorsMet, Missed, Covered
  <2>2. CASE HNext
    <3>1. PICK i \in Server : StepOf(i)
      BY <2>2, NodeStep DEF HNext
    <3>2. PICK L \in Ledgers, W \in Writers : SafetyInv(L, W) /\ HistInv(L, W)
      BY DEF Recorded
    <3> QED
      BY <2>2, <3>1, <3>2, FloorsStep DEF HNext
  <2> QED
    BY <2>1, <2>2
<1> QED
  BY <1>1, <1>2, HistoryIsRaft, TypeCorrect, ElectionInvariant, NodeInvariant, HistoryIsRecorded, PTL
  DEF HSpec

\* A read that is handed to the caller sees everything that was committed anywhere
\* when it was asked, also by a leader of a later term that this one has not heard
\* of (read_barrier, start_waiting_reads, and the probes of on_append_reply).
THEOREM ReadsSeeCommitted == HSpec => ReadsAreFresh
<1>1. TypeOK /\ TypeOK' /\ NodeInv /\ Recorded /\ FloorsMet /\ [HNext]_hvars
        => [\A i \in Server : \A f \in read_floor[i] :
              leader_term'[i] # 0 /\ (\A r \in read_rounds'[i] : r.id # f.id)
                => Len(applied'[i]) >= f.floor]_hvars
  <2> SUFFICES ASSUME TypeOK, TypeOK', NodeInv, Recorded, FloorsMet, HNext,
                      NEW i \in Server, NEW f \in read_floor[i],
                      leader_term'[i] # 0, \A r \in read_rounds'[i] : r.id # f.id
               PROVE  Len(applied'[i]) >= f.floor
    OBVIOUS
  <2>1. AcksSent
    BY DEF Recorded, SafetyInv, QuorumInv
  <2> QED
    BY <2>1, HandedFresh DEF HNext
<1> QED
  BY <1>1, HistoryIsRaft, TypeCorrect, NodeInvariant, HistoryIsRecorded, FloorsAreMet, PTL
  DEF HSpec, ReadsAreFresh

-----------------------------------------------------------------------------
(* The servers.                                                            *)

\* The steps of the servers are steps of their nodes, or leave the nodes alone.
LEMMA ServerStep == [SNext]_svars => [HNext]_hvars
<1> SUFFICES ASSUME SNext PROVE HNext \/ UNCHANGED hvars
  BY DEF svars
<1>1. ASSUME NEW i \in Server, NEW c \in Command, write_known(i, c) \/ write_joins(i, c)
      PROVE  UNCHANGED hvars
  BY <1>1 DEF write_known, write_joins
<1>2. ASSUME NEW i \in Server, NEW c \in Command, write_proposed(i, c) \/ console_write(i, c)
      PROVE  HNext
  BY <1>2 DEF write_proposed, console_write, Settle, HNext, Next, LocalStep
<1>3. ASSUME NEW i \in Server, NEW key \in Key, client_read(i, key) PROVE HNext
  BY <1>3 DEF client_read, HNext, Next, LocalStep
<1>4. ASSUME NEW i \in Server, NEW c \in Command, write_proposal_fails(i, c) PROVE HNext
  BY <1>4 DEF write_proposal_fails, Settle, HNext, Next, Failure
<1>5. ASSUME NEW i \in Server, Timer(i), Settle(i) PROVE HNext
  BY <1>5 DEF Timer, Settle, HNext, Next, LocalStep
<1>6. ASSUME NEW i \in Server, EventFails(i), Settle(i) PROVE HNext
  BY <1>6 DEF EventFails, Settle, HNext, Next, Failure
<1>7. ASSUME NEW i \in Server, Restart(i), Settle(i) PROVE HNext
  BY <1>7 DEF Settle, HNext, Next
<1>8. ASSUME NEW m \in msgs, Receive(m.to, m), Settle(m.to) PROVE HNext
  BY <1>8 DEF Settle, HNext, Next
<1> QED
  BY <1>1, <1>2, <1>3, <1>4, <1>5, <1>6, <1>7, <1>8 DEF SNext, Client

\* So what holds of the cluster holds of the servers.
LEMMA ServersAreHistory == SSpec => HSpec
<1>1. SInit => HInit
  BY DEF SInit
<1> QED
  BY <1>1, ServerStep, PTL DEF SSpec, HSpec

-----------------------------------------------------------------------------
(* Whose step it is.                                                       *)

\* Something happens at node i.
Acts(i) ==
  \/ LocalStep(i) \/ Failure(i) \/ Restart(i)
  \/ \E m \in msgs : m.to = i /\ Receive(i, m)

\* What happens at a node is a step of that node, of one of the kinds.
LEMMA ActorStep ==
  ASSUME TypeOK, TypeOK', ElectionInv, NodeInv, NEW i \in Server, Acts(i)
  PROVE  StepOf(i)
<1>1. CASE LocalStep(i)
  BY <1>1, TimeoutNode, ExhaustedNode, HeartbeatNode, ProposeNode, ReadBarrierNode
  DEF LocalStep
<1>2. ASSUME NEW m \in msgs, m.to = i, Receive(i, m) PROVE StepOf(i)
  BY <1>2, RequestVoteNode, VoteReplyNode, BecomesLeaderNode, StaleNode, RejectedNode,
     AcceptedNode, ReplyStepsDownNode, FailedNode, RecordedNode, CommittedNode,
     ReadyReadNode DEF Receive
<1>3. CASE Failure(i)
  BY <1>3, OwnFailureNode, ReceiveFailureNode DEF Failure
<1> QED
  BY <1>1, <1>2, <1>3, RestartNode DEF Acts

\* A node that leads after a step was running before it and led the same term, or
\* led nothing and had no reads.
LEMMA LeaderGoesOn ==
  ASSUME NodeInv, NEW i \in Server, StepOf(i), leader_term'[i] # 0
  PROVE  /\ Live(i)
         /\ \/ leader_term'[i] = leader_term[i] /\ ReadsStep(i)
            \/ leader_term[i] = 0 /\ read_rounds[i] = {} /\ read_rounds'[i] = {}
<1>1. CASE ReadsStep(i)
  BY <1>1 DEF ReadsStep, NodeInv, NodeOK, LeaderAt
<1>2. CASE Standing(i) /\ election_term[i] = leader_term'[i] /\ read_rounds'[i] = {}
  <2>1. leader_term[i] = 0
    BY <1>2 DEF NodeInv, NodeOK, LeaderAt, Standing
  <2> QED
    BY <1>2, <2>1 DEF Standing, NodeInv, NodeOK, ReadAt
<1> QED
  BY <1>1, <1>2 DEF StepOf, SentStep

\* When no read is asked, the reads in progress are among those there were.
LEMMA NoneAsked ==
  ASSUME TypeOK, NodeInv, NEW i \in Server, StepOf(i), leader_term'[i] # 0,
         next_read_id'[i] = next_read_id[i]
  PROVE  \A r \in read_rounds'[i] : \E q \in read_rounds[i] : q.id = r.id
<1>1. next_read_id[i] \in 0..MaxReadId /\ MaxReadId \in Nat
  BY BoundAssumption DEF TypeOK
<1>2. next_read_id[i] # 0 => NextReadId(next_read_id[i]) # next_read_id[i]
  BY <1>1 DEF NextReadId
<1> QED
  BY <1>2, LeaderGoesOn DEF ReadsStep

-----------------------------------------------------------------------------
(* What waits for an answer.                                               *)

PendingWrite == [index : Nat, term : Nat, command : Command, connections : Nat]

PendingRead == [id : Nat, term : Nat, key : Key]

\* The write stands in the leader's log, not applied yet.
Filed(i, w) ==
  /\ w.index \in (Len(applied[i]) + 1)..Len(log[i])
  /\ log[i][w.index] = [term |-> w.term, command |-> w.command]
  /\ w.term = leader_term[i]

\* The reads of a running node and the rounds of its leader object go together.
Matched(i) ==
  /\ \A x \in pending_reads[i] : x.term = leader_term[i]
                                 /\ \E r \in read_rounds[i] : r.id = x.id
  /\ \A r \in read_rounds[i] : \E x \in pending_reads[i] : x.id = r.id

\* The inductive invariant of the servers.
ServerInv ==
  /\ pending_writes \in [Server -> SUBSET PendingWrite]
  /\ pending_reads \in [Server -> SUBSET PendingRead]
  /\ \A i \in Server : Live(i) =>
       (\A w \in pending_writes[i] : Filed(i, w)) /\ Matched(i)

\* It says that every waiting client is tracked.
LEMMA InvTracks == ServerInv => PendingIsTracked
<1> SUFFICES ASSUME ServerInv, NEW i \in Server, Live(i)
             PROVE  /\ \A w \in pending_writes[i] : Filed(i, w)
                    /\ {r.id : r \in pending_reads[i]} = {r.id : r \in read_rounds[i]}
  BY DEF PendingIsTracked, Filed
<1>1. (\A w \in pending_writes[i] : Filed(i, w)) /\ Matched(i)
  BY DEF ServerInv
<1>2. {r.id : r \in pending_reads[i]} \subseteq {r.id : r \in read_rounds[i]}
  BY <1>1 DEF Matched
<1>3. {r.id : r \in read_rounds[i]} \subseteq {r.id : r \in pending_reads[i]}
  BY <1>1 DEF Matched
<1> QED
  BY <1>1, <1>2, <1>3

\* A request outlives a step exactly if the node leads the term it was made in.
LEMMA CurrentLeads ==
  ASSUME NodeInv', NEW i \in Server, NEW p
  PROVE  Current(i, p) <=> leader_term'[i] # 0 /\ p.term = leader_term'[i]
<1>1. LeaderAt(i)' /\ RoleAt(i)'
  BY DEF NodeInv, NodeOK
<1> QED
  BY <1>1 DEF Current, LeaderAt, RoleAt, Live, Role

\* A write that was filed and is not answered is filed still.
LEMMA FiledStays ==
  ASSUME TypeOK, TypeOK', NEW i \in Server, StepOf(i), leader_term'[i] # 0,
         NEW w, Filed(i, w), w.term = leader_term'[i], w.index \notin AppliedNow(i)
  PROVE  Filed(i, w)'
<1>1. /\ log[i] \in Seq(Entry) /\ Len(log[i]) \in Nat
      /\ Len(applied[i]) \in Nat /\ Len(applied'[i]) \in Nat
  BY LenProperties DEF TypeOK
<1>2. /\ w.index \in (Len(applied[i]) + 1)..Len(log[i]) /\ w.term = leader_term[i]
      /\ log[i][w.index] = [term |-> w.term, command |-> w.command]
  BY DEF Filed
<1>3. leader_term'[i] = leader_term[i]
  BY <1>2
<1>4. w.index \in 1..Len(log[i]) /\ w.index >= Len(applied'[i]) + 1
  BY <1>1, <1>2 DEF AppliedNow
<1>5. Len(log'[i]) \in Nat /\ w.index <= Len(log'[i]) /\ log'[i][w.index] = log[i][w.index]
  <2>1. CASE log'[i] = log[i]
    BY <1>1, <1>4, <2>1
  <2>2. ASSUME NEW e \in Entry, log'[i] = Append(log[i], e)
        PROVE  /\ Len(log'[i]) \in Nat /\ w.index <= Len(log'[i])
               /\ log'[i][w.index] = log[i][w.index]
    <3>1. /\ Len(log'[i]) = Len(log[i]) + 1
          /\ \A k \in 1..Len(log[i]) : log'[i][k] = log[i][k]
      BY <1>1, <2>2, AppendProperties
    <3> QED
      BY <1>1, <1>4, <3>1
  <2> QED
    BY <1>3, <2>1, <2>2, LeaderLog
<1>6. w.index \in (Len(applied'[i]) + 1)..Len(log'[i])
  BY <1>1, <1>4, <1>5
<1> QED
  BY <1>2, <1>5, <1>6 DEF Filed

\* The requests a server hands to process, beside those that waited before, are
\* filed and matched after the step.
Admits(i, writes, reads) ==
  /\ writes \subseteq PendingWrite /\ reads \subseteq PendingRead
  /\ leader_term'[i] # 0 =>
       /\ \A w \in writes : w \in pending_writes[i] \/ Filed(i, w)'
       /\ pending_reads[i] \subseteq reads
       /\ \A x \in reads : \/ x \in pending_reads[i]
                           \/ x.term = leader_term'[i]
                              /\ \E r \in read_rounds'[i] : r.id = x.id
       /\ \A r \in read_rounds'[i] : \E x \in reads : x.id = r.id

\* Then process leaves every waiting client tracked.
LEMMA Settled ==
  ASSUME TypeOK, TypeOK', NodeInv, NodeInv', ServerInv, NEW i \in Server, StepOf(i),
         NEW writes, NEW reads, Admits(i, writes, reads), process(i, writes, reads)
  PROVE  ServerInv'
<1> DEFINE done == {w \in writes : Current(i, w) /\ w.index \in AppliedNow(i)}
           ready == {r \in reads : Current(i, r) /\ r.id \in ReadyNow(i)}
           keptW == {w \in writes : Current(i, w)} \ done
           keptR == {r \in reads : Current(i, r)} \ ready
<1>1. /\ pending_writes' = [pending_writes EXCEPT ![i] = keptW]
      /\ pending_reads' = [pending_reads EXCEPT ![i] = keptR]
  BY DEF process
<1>2. keptW \subseteq PendingWrite /\ keptR \subseteq PendingRead
  BY DEF Admits
<1>3. ASSUME NEW x PROVE x \in keptW <=> /\ x \in writes /\ Current(i, x)
                                         /\ x.index \notin AppliedNow(i)
  OBVIOUS
<1>4. ASSUME NEW x PROVE x \in keptR <=> /\ x \in reads /\ Current(i, x)
                                         /\ x.id \notin ReadyNow(i)
  OBVIOUS
<1> HIDE DEF done, ready, keptW, keptR
<1>5. /\ pending_writes' \in [Server -> SUBSET PendingWrite]
      /\ pending_reads' \in [Server -> SUBSET PendingRead]
      /\ pending_writes'[i] = keptW /\ pending_reads'[i] = keptR
      /\ \A j \in Server : j # i => /\ pending_writes'[j] = pending_writes[j]
                                    /\ pending_reads'[j] = pending_reads[j]
  BY <1>1, <1>2 DEF ServerInv
<1>6. ASSUME NEW j \in Server, Live(j)', j # i
      PROVE  (\A w \in pending_writes'[j] : Filed(j, w)') /\ Matched(j)'
  <2>1. Live(j) /\ log'[j] = log[j] /\ applied'[j] = applied[j]
        /\ leader_term'[j] = leader_term[j] /\ read_rounds'[j] = read_rounds[j]
    BY <1>6 DEF StepOf, Frame, Live
  <2>2. (\A w \in pending_writes[j] : Filed(j, w)) /\ Matched(j)
    BY <2>1 DEF ServerInv
  <2> QED
    BY <1>5, <1>6, <2>1, <2>2 DEF Filed, Matched
<1>7. CASE leader_term'[i] = 0
  <2>1. keptW = {} /\ keptR = {}
    BY <1>3, <1>4, <1>7, CurrentLeads
  <2>2. read_rounds'[i] = {}
    BY <1>7 DEF NodeInv, NodeOK, ReadAt
  <2>3. (\A w \in pending_writes'[i] : Filed(i, w)') /\ Matched(i)'
    BY <1>5, <2>1, <2>2 DEF Matched
  <2> QED
    BY <1>5, <1>6, <2>3 DEF ServerInv
<1>8. CASE leader_term'[i] # 0
  <2>1. /\ Live(i) /\ \A w \in pending_writes[i] : Filed(i, w)
        /\ Matched(i)
    BY <1>8, LeaderGoesOn DEF ServerInv
  <2>2. ASSUME NEW x PROVE Current(i, x) <=> x.term = leader_term'[i]
    BY <1>8, CurrentLeads
  <2>3. ASSUME NEW w \in keptW PROVE Filed(i, w)'
    <3>1. w \in writes /\ w.term = leader_term'[i] /\ w.index \notin AppliedNow(i)
      BY <1>3, <2>2
    <3> QED
      BY <1>8, <2>1, <3>1, FiledStays DEF Admits
  <2>4. ASSUME NEW id
        PROVE  id \in ReadyNow(i) <=> /\ \E r \in read_rounds[i] : r.id = id
                                      /\ ~\E r \in read_rounds'[i] : r.id = id
    BY <1>8 DEF ReadyNow
  <2>5. ASSUME NEW x \in keptR
        PROVE  x.term = leader_term'[i] /\ \E r \in read_rounds'[i] : r.id = x.id
    <3>1. x \in reads /\ x.term = leader_term'[i] /\ x.id \notin ReadyNow(i)
      BY <1>4, <2>2
    <3>2. CASE x \in pending_reads[i]
      BY <2>1, <2>4, <3>1, <3>2 DEF Matched
    <3> QED
      BY <1>8, <3>1, <3>2 DEF Admits
  <2>6. ASSUME NEW r \in read_rounds'[i] PROVE \E x \in keptR : x.id = r.id
    <3>1. PICK x \in reads : x.id = r.id
      BY <1>8 DEF Admits
    <3>2. x.id \notin ReadyNow(i)
      BY <2>4, <3>1
    <3>3. leader_term'[i] = leader_term[i]
      BY <1>8, LeaderGoesOn
    <3>4. x.term = leader_term'[i]
      BY <1>8, <2>1, <3>3 DEF Matched, Admits
    <3> QED
      BY <1>4, <2>2, <3>1, <3>2, <3>4
  <2>7. (\A w \in pending_writes'[i] : Filed(i, w)') /\ Matched(i)'
    BY <1>5, <2>3, <2>5, <2>6 DEF Matched
  <2> QED
    BY <1>5, <1>6, <2>7 DEF ServerInv
<1> QED
  BY <1>7, <1>8

\* An event that asks no read admits nobody.
LEMMA NobodyJoins ==
  ASSUME TypeOK, NodeInv, ServerInv, NEW i \in Server, StepOf(i),
         leader_term'[i] # 0 => next_read_id'[i] = next_read_id[i]
  PROVE  Admits(i, pending_writes[i], pending_reads[i])
<1>1. pending_writes[i] \subseteq PendingWrite /\ pending_reads[i] \subseteq PendingRead
  BY DEF ServerInv
<1>2. ASSUME leader_term'[i] # 0, NEW r \in read_rounds'[i]
      PROVE  \E x \in pending_reads[i] : x.id = r.id
  <2>1. PICK q \in read_rounds[i] : q.id = r.id
    BY <1>2, NoneAsked
  <2>2. Matched(i)
    BY <1>2, LeaderGoesOn DEF ServerInv
  <2> QED
    BY <2>1, <2>2 DEF Matched
<1> QED
  BY <1>1, <1>2 DEF Admits

\* The events that ask no read keep the read ids of a leader.
LEMMA IdsStay ==
  ASSUME TypeOK, NEW i \in Server,
         \/ Timer(i) \/ Failure(i) \/ Restart(i)
         \/ \E c \in Command : propose(i, c)
         \/ \E m \in msgs : Receive(i, m)
  PROVE  leader_term'[i] # 0 => next_read_id'[i] = next_read_id[i]
<1> DEFINE Same == next_read_id' = next_read_id
<1>1. CASE Timer(i)
  BY <1>1 DEF Timer, on_election_timeout, election_term_exhausted, on_heartbeat_timeout
<1>2. CASE Restart(i)
  BY <1>2 DEF Restart, drop_leadership, TypeOK
<1>3. ASSUME NEW c \in Command, propose(i, c) PROVE Same
  BY <1>3 DEF propose
<1>4. CASE Failure(i)
  <2>1. ASSUME NEW t, NEW v, NEW lg, WriteFails(i, t, v, lg) PROVE Same
    BY <2>1 DEF WriteFails
  <2>2. CASE election_write_fails(i)
    BY <2>1, <2>2 DEF election_write_fails
  <2>3. ASSUME NEW c \in Command, proposal_write_fails(i, c) PROVE Same
    BY <2>1, <2>3 DEF proposal_write_fails
  <2>4. ASSUME NEW m \in msgs, \/ term_write_fails(i, m) \/ vote_write_fails(i, m)
                               \/ append_write_fails(i, m) \/ noop_write_fails(i, m)
        PROVE  Same
    BY <2>1, <2>4 DEF term_write_fails, vote_write_fails, append_write_fails, noop_write_fails
  <2> QED
    BY <1>4, <2>2, <2>3, <2>4 DEF Failure
<1>5. ASSUME NEW m \in msgs, Receive(i, m) PROVE Same
  <2> USE DEF node
  <2>1. CASE \/ on_request_vote(i, m) \/ vote_reply_steps_down(i, m)
             \/ vote_reply_recorded(i, m) \/ vote_reply_becomes_leader(i, m)
    BY <2>1 DEF on_request_vote, vote_reply_steps_down, vote_reply_recorded,
                vote_reply_becomes_leader
  <2>2. CASE \/ append_entries_stale(i, m) \/ append_entries_rejected(i, m)
             \/ append_entries_accepted(i, m)
    BY <2>2 DEF append_entries_stale, append_entries_rejected, append_entries_accepted
  <2>3. CASE \/ append_reply_steps_down(i, m) \/ append_reply_failed(i, m)
             \/ append_reply_recorded(i, m) \/ append_reply_committed(i, m)
             \/ append_reply_ready_read(i, m)
    BY <2>3 DEF append_reply_steps_down, append_reply_failed, append_reply_recorded,
                append_reply_committed, append_reply_ready_read
  <2> QED
    BY <1>5, <2>1, <2>2, <2>3 DEF Receive
<1> QED
  BY <1>1, <1>2, <1>3, <1>4, <1>5

\* A proposal files the client's write under the index of the new entry.
LEMMA ProposalAdmits ==
  ASSUME TypeOK, TypeOK', NodeInv, ServerInv, NEW i \in Server, StepOf(i),
         NEW c \in Command, propose(i, c)
  PROVE  Admits(i, Emplaced(i, c), pending_reads[i])
<1>0. PICK n, new :
        /\ n = Len(log[i]) + 1
        /\ new = [index |-> n, term |-> current_term[i], command |-> c, connections |-> 1]
  OBVIOUS
<1>1. /\ log[i] \in Seq(Entry) /\ Len(log[i]) \in Nat /\ Len(applied[i]) \in Nat
      /\ commit_index[i] \in Nat /\ current_term[i] \in Nat
  BY LenProperties DEF TypeOK, Term
<1>2. Live(i) /\ leader_term[i] = current_term[i] /\ Len(applied[i]) <= Len(log[i])
  BY <1>1 DEF propose, Active, NodeInv, NodeOK, CommitAt, Pfx
<1>3. /\ new \in PendingWrite
      /\ new.index = n /\ new.term = current_term[i] /\ new.command = c
  BY <1>0, <1>1 DEF PendingWrite
<1>4. ASSUME leader_term'[i] # 0 PROVE Filed(i, new)'
  <2>1. /\ log'[i] = Append(log[i], [term |-> leader_term[i], command |-> c])
        /\ leader_term'[i] = leader_term[i] /\ applied'[i] = applied[i]
    BY <1>4 DEF propose, stop, drop_leadership, TypeOK
  <2>2. [term |-> leader_term[i], command |-> c] \in Entry
    BY <1>1, <1>4, <2>1 DEF Entry, Term, TypeOK
  <2>3. /\ Len(log'[i]) = n
        /\ log'[i][n] = [term |-> leader_term[i], command |-> c]
    BY <1>0, <1>1, <2>1, <2>2, AppendProperties
  <2>4. n \in (Len(applied'[i]) + 1)..Len(log'[i])
    BY <1>0, <1>1, <1>2, <2>1, <2>3
  <2> QED
    BY <1>2, <1>3, <2>1, <2>3, <2>4 DEF Filed
<1>5. Admits(i, pending_writes[i], pending_reads[i])
  BY NobodyJoins, IdsStay
<1>6. Emplaced(i, c) = pending_writes[i] \/ Emplaced(i, c) = pending_writes[i] \cup {new}
  BY <1>0 DEF Emplaced
<1> QED
  BY <1>3, <1>4, <1>5, <1>6 DEF Admits

\* A read is matched by the round that read_barrier starts for it.
LEMMA ReadAdmits ==
  ASSUME TypeOK, TypeOK', NodeInv, ServerInv, NEW i \in Server, StepOf(i),
         NEW key \in Key, read_barrier(i)
  PROVE  Admits(i, pending_writes[i],
                pending_reads[i] \cup
                  {[id |-> next_read_id[i], term |-> current_term[i], key |-> key]})
<1> DEFINE new == [id |-> next_read_id[i], term |-> current_term[i], key |-> key]
           first == [id |-> next_read_id[i], index |-> 0]
           asked == read_rounds[i] \cup {first}
<1>1. pending_writes[i] \subseteq PendingWrite /\ pending_reads[i] \subseteq PendingRead
  BY DEF ServerInv
<1>2. new \in PendingRead
  BY BoundAssumption DEF PendingRead, TypeOK, Term
<1>3. Live(i) /\ leader_term[i] = current_term[i] /\ Matched(i)
  BY DEF read_barrier, Active, ServerInv
<1>4. ASSUME leader_term'[i] # 0
      PROVE  /\ leader_term'[i] = leader_term[i]
             /\ read_rounds'[i] = asked \/ read_rounds'[i] = StartedRounds(asked, commit_index[i])
  BY <1>4 DEF read_barrier, stop, drop_leadership, TypeOK
<1>5. asked \subseteq [id : Nat, index : Nat]
  BY BoundAssumption DEF TypeOK
<1>6. ASSUME leader_term'[i] # 0
      PROVE  /\ \E r \in read_rounds'[i] : r.id = next_read_id[i]
             /\ \A r \in read_rounds'[i] :
                  r.id = next_read_id[i] \/ \E q \in read_rounds[i] : q.id = r.id
  <2>1. /\ \A r \in asked : r.id = next_read_id[i] \/ \E q \in read_rounds[i] : q.id = r.id
        /\ \E r \in asked : r.id = next_read_id[i]
    <3>1. first.id = next_read_id[i]
      OBVIOUS
    <3> HIDE DEF first
    <3> QED
      BY <3>1
  <2> HIDE DEF asked
  <2>2. \A q \in asked : [q EXCEPT !.index = commit_index[i]].id = q.id
    BY <1>5
  <2>3. /\ \A r \in StartedRounds(asked, commit_index[i]) : \E q \in asked : q.id = r.id
        /\ \A q \in asked : \E r \in StartedRounds(asked, commit_index[i]) : q.id = r.id
    BY <2>2 DEF StartedRounds
  <2> QED
    BY <1>4, <1>6, <2>1, <2>3
<1>7. new.id = next_read_id[i] /\ new.term = leader_term[i]
  BY <1>3
<1> HIDE DEF new, asked
<1>8. Admits(i, pending_writes[i], pending_reads[i] \cup {new})
  BY <1>1, <1>2, <1>3, <1>4, <1>6, <1>7 DEF Admits, Matched
<1> QED
  BY <1>8 DEF new

\* A client that joins a waiting write changes nothing of what is tracked.
LEMMA JoinTracks ==
  ASSUME ServerInv, NEW i \in Server, NEW c, write_joins(i, c)
  PROVE  ServerInv'
<1>1. UNCHANGED <<hvars, pending_reads>>
  BY DEF write_joins
<1>2. PICK w \in pending_writes[i] :
        \/ pending_writes' = pending_writes
        \/ pending_writes' = [pending_writes EXCEPT ![i] =
             (@ \ {w}) \cup {[w EXCEPT !.connections = @ + 1]}]
  BY DEF write_joins, Waiting
<1>3. CASE pending_writes' = pending_writes
  BY <1>1, <1>3 DEF ServerInv, Filed, Matched, Live, hvars, vars, node, leader
<1>4. CASE pending_writes' = [pending_writes EXCEPT ![i] =
             (@ \ {w}) \cup {[w EXCEPT !.connections = @ + 1]}]
  <2>1. w \in PendingWrite
    BY DEF ServerInv
  <2>2. PICK x \in PendingWrite : /\ x = [w EXCEPT !.connections = @ + 1]
                                  /\ x.index = w.index /\ x.term = w.term
                                  /\ x.command = w.command
    <3>1. w.connections + 1 \in Nat
      BY <2>1 DEF PendingWrite
    <3>2. PICK n \in Nat : n = w.connections + 1
      BY <3>1
    <3>3. [w EXCEPT !.connections = n] \in PendingWrite
      BY <2>1 DEF PendingWrite
    <3>4. /\ [w EXCEPT !.connections = n].index = w.index
          /\ [w EXCEPT !.connections = n].term = w.term
          /\ [w EXCEPT !.connections = n].command = w.command
      BY <2>1 DEF PendingWrite
    <3> QED
      BY <3>2, <3>3, <3>4
  <2>3. pending_writes' = [pending_writes EXCEPT ![i] = (@ \ {w}) \cup {x}]
    BY <1>4, <2>2
  <2>4. /\ pending_writes' \in [Server -> SUBSET PendingWrite]
        /\ \A j \in Server : \A y \in pending_writes'[j] :
             y \in pending_writes[j] \/ (j = i /\ y = x)
    BY <2>3 DEF ServerInv
  <2>5. Filed(i, w) => Filed(i, x)
    BY <2>2 DEF Filed
  <2>6. ASSUME NEW j \in Server, Live(j)
        PROVE  (\A y \in pending_writes'[j] : Filed(j, y)) /\ Matched(j)
    BY <2>4, <2>5, <2>6 DEF ServerInv
  <2>7. ASSUME NEW j \in Server PROVE /\ Live(j)' <=> Live(j)
                                      /\ Matched(j)' <=> Matched(j)
                                      /\ \A y : Filed(j, y)' <=> Filed(j, y)
    BY <1>1 DEF Filed, Matched, Live, hvars, vars, node, leader
  <2> QED
    BY <1>1, <2>4, <2>6, <2>7 DEF ServerInv
<1> QED
  BY <1>2, <1>3, <1>4

\* The steps of a server, and what they do to the requests that wait.
LEMMA ServerTracks ==
  ASSUME TypeOK, TypeOK', ElectionInv, NodeInv, NodeInv', ServerInv, SNext
  PROVE  ServerInv'
<1>1. ASSUME NEW i \in Server, Acts(i), Settle(i),
             leader_term'[i] # 0 => next_read_id'[i] = next_read_id[i]
      PROVE  ServerInv'
  BY <1>1, ActorStep, NobodyJoins, Settled DEF Settle
<1>2. ASSUME NEW i \in Server, NEW c \in Command, write_known(i, c) PROVE ServerInv'
  BY <1>2 DEF write_known, ServerInv, Filed, Matched, Live, hvars, vars, node, leader, pending
<1>3. ASSUME NEW i \in Server, NEW c \in Command, write_proposed(i, c) PROVE ServerInv'
  <2>1. propose(i, c) /\ process(i, Emplaced(i, c), pending_reads[i])
    BY <1>3 DEF write_proposed
  <2>2. StepOf(i)
    BY <2>1, ActorStep DEF Acts, LocalStep
  <2> QED
    BY <2>1, <2>2, ProposalAdmits, Settled
<1>4. ASSUME NEW i \in Server, NEW c \in Command, console_write(i, c) PROVE ServerInv'
  BY <1>1, <1>4, IdsStay DEF console_write, Acts, LocalStep
<1>5. ASSUME NEW i \in Server, NEW key \in Key, client_read(i, key) PROVE ServerInv'
  <2>1. read_barrier(i)
    BY <1>5 DEF client_read
  <2>2. StepOf(i)
    BY <2>1, ActorStep DEF Acts, LocalStep
  <2> QED
    BY <1>5, <2>1, <2>2, ReadAdmits, Settled DEF client_read
<1>6. ASSUME NEW i \in Server, NEW c \in Command, write_proposal_fails(i, c) PROVE ServerInv'
  BY <1>1, <1>6, IdsStay DEF write_proposal_fails, Acts, Failure
<1>7. ASSUME NEW i \in Server, Timer(i), Settle(i) PROVE ServerInv'
  BY <1>1, <1>7, IdsStay DEF Timer, Acts, LocalStep
<1>8. ASSUME NEW i \in Server, EventFails(i), Settle(i) PROVE ServerInv'
  <2>1. Failure(i)
    BY <1>8 DEF EventFails, Failure
  <2> QED
    BY <1>1, <1>8, <2>1, IdsStay DEF Acts
<1>9. ASSUME NEW i \in Server, Restart(i), Settle(i) PROVE ServerInv'
  BY <1>1, <1>9, IdsStay DEF Acts
<1>10. ASSUME NEW m \in msgs, Receive(m.to, m), Settle(m.to) PROVE ServerInv'
  <2>1. m.to \in Server
    BY MessageKinds DEF TypeOK
  <2> QED
    BY <1>1, <1>10, <2>1, IdsStay DEF Acts
<1> QED
  BY <1>2, <1>3, <1>4, <1>5, <1>6, <1>7, <1>8, <1>9, <1>10, JoinTracks DEF SNext, Client

\* In every reachable state the pending requests of a running server are those its
\* node still has to answer.
THEOREM ServersTrack == SSpec => []ServerInv
<1>1. SInit => ServerInv
  BY DEF SInit, HInit, Init, ServerInv, Matched
<1>2. TypeOK /\ TypeOK' /\ ElectionInv /\ NodeInv /\ NodeInv' /\ ServerInv /\ [SNext]_svars
        => ServerInv'
  <2> SUFFICES ASSUME TypeOK, TypeOK', ElectionInv, NodeInv, NodeInv', ServerInv, [SNext]_svars
               PROVE  ServerInv'
    OBVIOUS
  <2>1. CASE UNCHANGED svars
    BY <2>1 DEF svars, pending, ServerInv, Filed, Matched, Live, hvars, vars, node, leader
  <2> QED
    BY <2>1, ServerTracks
<1> QED
  BY <1>1, <1>2, ServersAreHistory, HistoryIsRaft, TypeCorrect, ElectionInvariant,
     NodeInvariant, PTL DEF SSpec

\* Every client that waits will be answered by the event it waits for: its write is
\* in the log of this leader at the index it is filed under, its read has a round.
\* emplace never meets an index that is taken, and no answer goes to another client.
THEOREM ClientsAreTracked == SSpec => []PendingIsTracked
BY InvTracks, ServersTrack, PTL

-----------------------------------------------------------------------------
(* Reads.                                                                  *)

\* The state machine of a running node has been fed a prefix of the history.
FedHistory ==
  \A i \in Server : Live(i) =>
    /\ Len(applied[i]) <= Len(chosen)
    /\ SubSeq(chosen, 1, Len(applied[i])) = applied[i]

\* It has: what a node has committed was chosen, and so was the history.
LEMMA HistoryFeeds == TypeOK /\ NodeInv /\ Recorded => FedHistory
<1> SUFFICES ASSUME TypeOK, NodeInv, Recorded, NEW i \in Server, Live(i)
             PROVE  /\ Len(applied[i]) <= Len(chosen)
                    /\ SubSeq(chosen, 1, Len(applied[i])) = applied[i]
  BY DEF FedHistory
<1>1. PICK L \in Ledgers, W \in Writers : SafetyInv(L, W) /\ HistInv(L, W)
  BY DEF Recorded
<1>2. PICK ap \in Seq(Entry), lg \in Seq(Entry), n \in Nat :
        ap = applied[i] /\ lg = log[i] /\ n = commit_index[i]
  BY DEF TypeOK
<1>3. Len(ap) = n /\ Pfx(ap, lg, n)
  BY <1>2 DEF NodeInv, NodeOK, CommitAt
<1>4. chosen \in Seq(Entry) /\ Len(chosen) \in Nat /\ n <= Len(chosen)
  BY <1>1, <1>2, LenProperties DEF HistInv
<1>5. Backed(L, W, lg, n, current_term[i])
  BY <1>1, <1>2 DEF SafetyInv, CommitInv, NodesBacked
<1>6. Pfx(chosen, lg, n)
  BY <1>1, <1>4, <1>5, BackedAgree DEF HistInv, SafetyInv, QuorumInv
<1>7. Pfx(lg, ap, n) /\ n <= n
  BY <1>3, PfxSym
<1>8. Pfx(chosen, ap, n)
  BY <1>4, <1>6, <1>7, PfxVia
<1>9. SubSeq(chosen, 1, n) = SubSeq(ap, 1, n)
  BY <1>4, <1>8, PfxSubSeq
<1>10. SubSeq(ap, 1, n) = ap
  BY <1>3
<1> QED
  BY <1>2, <1>3, <1>4, <1>9, <1>10

\* A step only extends the history.
LEMMA HistoryExtends ==
  ASSUME TypeOK, TypeOK', ElectionInv, NodeInv, Recorded, [HNext]_hvars
  PROVE  /\ chosen \in Seq(Entry) /\ chosen' \in Seq(Entry)
         /\ Len(chosen) \in Nat /\ Len(chosen') \in Nat /\ Len(chosen) <= Len(chosen')
         /\ Pfx(chosen', chosen, Len(chosen))
         /\ \A k \in Nat : k <= Len(chosen) => SubSeq(chosen', 1, k) = SubSeq(chosen, 1, k)
<1>1. PICK L \in Ledgers, W \in Writers : SafetyInv(L, W) /\ HistInv(L, W)
  BY DEF Recorded
<1>2. chosen \in Seq(Entry) /\ Len(chosen) \in Nat
  BY <1>1, LenProperties DEF HistInv
<1>3. CASE chosen' = chosen
  BY <1>2, <1>3, PfxSelf
<1>4. CASE chosen' # chosen
  <2>1. HNext
    BY <1>4 DEF hvars
  <2>2. PICK i \in Server : StepOf(i)
    BY <2>1, NodeStep DEF HNext
  <2>3. /\ Commits(i) /\ commit_index'[i] > Len(chosen)
        /\ chosen' = SubSeq(log[i], 1, commit_index'[i])
    BY <1>1, <1>4, <2>1, <2>2, RecordStep DEF HNext
  <2>4. chosen' \in Seq(Entry) /\ Len(chosen') = commit_index'[i] /\ Pfx(chosen', chosen, Len(chosen))
    BY <1>1, <2>2, <2>3, CommitExtends
  <2>5. Len(chosen') \in Nat
    BY <2>4, LenProperties
  <2>6. PICK longer \in Seq(Entry) : longer = chosen'
    BY <2>4
  <2>7. ASSUME NEW k \in Nat, k <= Len(chosen)
        PROVE  SubSeq(longer, 1, k) = SubSeq(chosen, 1, k)
    <3>1. Pfx(longer, chosen, k)
      BY <1>2, <2>4, <2>6, <2>7, PfxShorter
    <3> QED
      BY <1>2, <3>1, PfxSubSeq
  <2> QED
    BY <1>2, <2>3, <2>4, <2>5, <2>6, <2>7
<1> QED
  BY <1>3, <1>4

\* The answer r shows its key as it was at some moment since it was asked.
Linear(r) ==
  /\ r.floor \in Nat
  /\ \E k \in r.floor..Len(chosen) : r.value = get(Replay(SubSeq(chosen, 1, k)), r.key)

\* It stays so when the history grows.
LEMMA LinearStays ==
  ASSUME TypeOK, TypeOK', ElectionInv, NodeInv, Recorded, [HNext]_hvars, NEW r, Linear(r)
  PROVE  Linear(r)'
<1>1. PICK k \in r.floor..Len(chosen) : r.value = get(Replay(SubSeq(chosen, 1, k)), r.key)
  BY DEF Linear
<1>2. /\ Len(chosen) \in Nat /\ Len(chosen') \in Nat /\ Len(chosen) <= Len(chosen')
      /\ r.floor \in Nat /\ k \in Nat /\ k <= Len(chosen) /\ k \in r.floor..Len(chosen')
  BY <1>1, HistoryExtends DEF Linear
<1>3. SubSeq(chosen', 1, k) = SubSeq(chosen, 1, k)
  BY <1>2, HistoryExtends
<1>4. r.value = get(Replay(SubSeq(chosen', 1, k)), r.key)
  BY <1>1, <1>3
<1> QED
  BY <1>2, <1>4 DEF Linear

\* The server answers a read from the state its node is in when the read is handed
\* over, which is not older than the read.
LEMMA AnswersLinear ==
  ASSUME TypeOK, TypeOK', ElectionInv, NodeInv, NodeInv', Recorded, FloorsMet, FedHistory',
         ServerInv, HNext, NEW i \in Server, StepOf(i), NEW reads, NEW x \in reads,
         Current(i, x), x.id \in ReadyNow(i),
         NEW reply, reply = ReadReply(i, Replay(applied'[i]), x)
  PROVE  Linear(reply)'
<1>1. leader_term'[i] # 0
  BY CurrentLeads
<1>2. PICK q \in read_rounds[i] : q.id = x.id
  BY <1>1 DEF ReadyNow
<1>3. \A r \in read_rounds'[i] : r.id # x.id
  BY <1>1 DEF ReadyNow
<1>4. PICK f \in read_floor[i] : /\ f.id = x.id
                                 /\ f = CHOOSE g \in read_floor[i] : g.id = x.id
  BY <1>2 DEF FloorsMet
<1>5. AcksSent
  BY DEF Recorded, SafetyInv, QuorumInv
<1>6. f.floor \in Nat /\ Len(applied'[i]) >= f.floor
  BY <1>1, <1>3, <1>4, <1>5, HandedFresh DEF FloorsMet, HNext
<1>7. Live(i)'
  BY <1>1 DEF NodeInv, NodeOK, LeaderAt
<1>8. PICK n \in Nat : n = Len(applied'[i])
  BY LenProperties DEF TypeOK
<1>9. PICK v : /\ v = get(Replay(applied'[i]), x.key)
               /\ reply = [key |-> x.key, value |-> v, floor |-> f.floor]
  BY <1>4 DEF ReadReply
<1>10. n <= Len(chosen') /\ SubSeq(chosen', 1, n) = applied'[i]
  BY <1>7, <1>8 DEF FedHistory
<1>11. Len(chosen') \in Nat
  BY HistoryExtends
<1>12. /\ reply.floor = f.floor /\ reply.key = x.key
       /\ reply.value = get(Replay(SubSeq(chosen', 1, n)), x.key)
  <2>1. reply.floor = f.floor /\ reply.key = x.key /\ reply.value = v
    BY <1>9
  <2> QED
    BY <1>9, <1>10, <2>1
<1> QED
  BY <1>6, <1>8, <1>10, <1>11, <1>12 DEF Linear

\* So every step of a server answers reads linearizably.
LEMMA ServerReads ==
  ASSUME TypeOK, TypeOK', ElectionInv, NodeInv, NodeInv', Recorded, FloorsMet, FedHistory',
         ServerInv, \A r \in read_replies : Linear(r), [SNext]_svars
  PROVE  \A r \in read_replies' : Linear(r)'
<1>1. [HNext]_hvars
  BY ServerStep
<1>2. \A r \in read_replies : Linear(r)'
  BY <1>1, LinearStays
<1>3. ASSUME NEW i \in Server, Acts(i), Record, NEW writes, NEW reads, process(i, writes, reads)
      PROVE  \A r \in read_replies' : Linear(r)'
  <2>1. StepOf(i)
    BY <1>3, ActorStep
  <2>2. HNext
    BY <1>3 DEF Acts, Next, HNext
  <2>3. ASSUME NEW r \in read_replies', r \notin read_replies
        PROVE  \E x \in reads : /\ Current(i, x) /\ x.id \in ReadyNow(i)
                                /\ r = ReadReply(i, Replay(applied'[i]), x)
    BY <1>3, <2>3 DEF process
  <2>4. ASSUME NEW r \in read_replies', r \notin read_replies PROVE Linear(r)'
    BY <2>1, <2>2, <2>3, <2>4, AnswersLinear
  <2> QED
    BY <1>2, <2>4
<1>4. ASSUME NEW i \in Server, Acts(i), Settle(i) PROVE \A r \in read_replies' : Linear(r)'
  BY <1>3, <1>4 DEF Settle
<1>5. CASE read_replies' = read_replies
  BY <1>2, <1>5
<1>6. ASSUME NEW i \in Server, Client(i) PROVE \A r \in read_replies' : Linear(r)'
  <2>1. ASSUME NEW c \in Command, write_known(i, c) \/ write_joins(i, c)
        PROVE  read_replies' = read_replies
    BY <2>1 DEF write_known, write_joins
  <2>2. ASSUME NEW c \in Command, write_proposed(i, c)
        PROVE  \A r \in read_replies' : Linear(r)'
    BY <1>3, <2>2 DEF write_proposed, Acts, LocalStep
  <2>3. ASSUME NEW c \in Command, console_write(i, c)
        PROVE  \A r \in read_replies' : Linear(r)'
    BY <1>4, <2>3 DEF console_write, Acts, LocalStep
  <2>4. ASSUME NEW key \in Key, client_read(i, key)
        PROVE  \A r \in read_replies' : Linear(r)'
    BY <1>3, <2>4 DEF client_read, Acts, LocalStep
  <2> QED
    BY <1>5, <1>6, <2>1, <2>2, <2>3, <2>4 DEF Client
<1>7. ASSUME NEW i \in Server, NEW c \in Command, write_proposal_fails(i, c)
      PROVE  \A r \in read_replies' : Linear(r)'
  BY <1>4, <1>7 DEF write_proposal_fails, Acts, Failure
<1>8. ASSUME NEW i \in Server, Timer(i) \/ EventFails(i) \/ Restart(i), Settle(i)
      PROVE  \A r \in read_replies' : Linear(r)'
  <2>1. Acts(i)
    BY <1>8 DEF Timer, EventFails, Acts, LocalStep, Failure
  <2> QED
    BY <1>4, <1>8, <2>1
<1>9. ASSUME NEW m \in msgs, Receive(m.to, m), Settle(m.to)
      PROVE  \A r \in read_replies' : Linear(r)'
  <2>1. m.to \in Server
    BY MessageKinds DEF TypeOK
  <2> QED
    BY <1>4, <1>9, <2>1 DEF Acts
<1>10. CASE UNCHANGED svars
  BY <1>5, <1>10 DEF svars, replies
<1> QED
  BY <1>6, <1>7, <1>8, <1>9, <1>10 DEF SNext

\* A read returns the value its key had at some moment of the committed history
\* between its call and its answer, whichever leader answers it (handle_client_read,
\* read_barrier and process).
THEOREM ReadsAreLinearizable == SSpec => []ReadsLinearizable
<1> DEFINE ReadInv == \A r \in read_replies : Linear(r)
<1>1. SInit => ReadInv
  BY DEF SInit
<1>2. TypeOK /\ TypeOK' /\ ElectionInv /\ NodeInv /\ NodeInv' /\ Recorded /\ FloorsMet
        /\ FedHistory' /\ ServerInv /\ ReadInv /\ [SNext]_svars => ReadInv'
  BY ServerReads
<1>3. ReadInv => ReadsLinearizable
  BY DEF Linear, ReadsLinearizable
<1> HIDE DEF ReadInv
<1> QED
  BY <1>1, <1>2, <1>3, HistoryFeeds, ServersAreHistory, HistoryIsRaft, TypeCorrect,
     ElectionInvariant, NodeInvariant, HistoryIsRecorded, FloorsAreMet, ServersTrack, PTL
  DEF SSpec

-----------------------------------------------------------------------------
(* Writes.                                                                 *)

\* Answer r names the entry of the history ch that made its write take effect.
Effected(ch, r) ==
  /\ r.index \in 1..Len(ch)
  /\ ch[r.index] = [term |-> r.term, command |-> r.command]
  /\ \A k \in 1..(r.index - 1) : ch[k].command.request_id # r.command.request_id

\* It does for good.
LEMMA EffectedStays ==
  ASSUME NEW ch \in Seq(Entry), NEW longer \in Seq(Entry), Pfx(longer, ch, Len(ch)),
         NEW r, Effected(ch, r)
  PROVE  Effected(longer, r)
<1>1. /\ Len(ch) \in Nat /\ Len(longer) \in Nat /\ Len(ch) <= Len(longer)
      /\ \A k \in 1..Len(ch) : longer[k] = ch[k]
  BY LenProperties DEF Pfx
<1>2. /\ r.index \in 1..Len(ch) /\ ch[r.index] = [term |-> r.term, command |-> r.command]
      /\ \A k \in 1..(r.index - 1) : ch[k].command.request_id # r.command.request_id
  BY DEF Effected
<1>3. r.index \in 1..Len(longer) /\ \A k \in 1..(r.index - 1) : k \in 1..Len(ch)
  BY <1>1, <1>2
<1> QED
  BY <1>1, <1>2, <1>3 DEF Effected

\* A state machine that was fed a prefix of the history answers from the history.
LEMMA AnswerTookEffect ==
  ASSUME NEW ch \in Seq(Entry), NEW ap \in Seq(Entry), Len(ap) <= Len(ch),
         SubSeq(ch, 1, Len(ap)) = ap,
         NEW c, SameRequest(Replay(ap), c), NEW r, r = Committed(Replay(ap), c)
  PROVE  Effected(ch, r)
<1>1. Len(ap) \in Nat /\ Len(ch) \in Nat /\ \A k \in 1..Len(ap) : ap[k] \in Entry
  BY LenProperties, ElementOfSeq
<1>2. Pfx(ap, ch, Len(ap))
  BY <1>1, SubSeqPfx
<1>3. ASSUME NEW k \in 1..Len(ap) PROVE ValidCommand(ap[k].command)
  <2>1. ap[k].command \in Command \/ ap[k].command = NoOpCommand
    BY <1>1, ValidAssumption DEF Entry
  <2> QED
    BY <2>1, ValidAssumption DEF ValidCommand, NoOpCommand
<1>4. PICK st : st = Replay(ap)
  OBVIOUS
<1>5. Remembers(st, ap, Len(ap))
  BY <1>1, <1>3, <1>4, ReplayRemembers
<1>6. PICK id, p : id = c.request_id /\ p = request_result(st, id)
  OBVIOUS
<1>7. p # Missing /\ p.command = c /\ r = [command |-> c, index |-> p.index, term |-> p.term]
  BY <1>4, <1>6 DEF SameRequest, Committed
<1>8. id \in DOMAIN st.applied_requests /\ p = st.applied_requests[id]
  BY <1>6, <1>7 DEF request_result
<1>9. FirstOf(ap, Len(ap), id, p)
  BY <1>5, <1>8 DEF Remembers
<1>10. r.command = c /\ r.index = p.index /\ r.term = p.term
  BY <1>7
<1>11. /\ r.index \in 1..Len(ap) /\ ap[r.index].command = c /\ ap[r.index].term = r.term
       /\ \A k \in 1..(r.index - 1) : ap[k].command.request_id # c.request_id
  BY <1>6, <1>7, <1>9, <1>10 DEF FirstOf
<1>12. ap[r.index] = [term |-> r.term, command |-> c]
  <2>1. ap[r.index] \in Entry
    BY <1>1, <1>11
  <2> QED
    BY <1>11, <2>1 DEF Entry
<1>13. Effected(ap, r)
  BY <1>10, <1>11, <1>12 DEF Effected
<1>14. Pfx(ch, ap, Len(ap))
  BY <1>2, PfxSym
<1> QED
  BY <1>13, <1>14, EffectedStays

\* Every step of a server says Committed only of writes that took effect.
LEMMA ServerCommits ==
  ASSUME TypeOK, TypeOK', ElectionInv, NodeInv, NodeInv', Recorded, FedHistory, FedHistory',
         \A r \in committed_replies : Effected(chosen, r), [SNext]_svars
  PROVE  \A r \in committed_replies' : Effected(chosen', r)
<1>1. chosen \in Seq(Entry) /\ chosen' \in Seq(Entry) /\ Pfx(chosen', chosen, Len(chosen))
  BY ServerStep, HistoryExtends
<1>2. \A r \in committed_replies : Effected(chosen', r)
  BY <1>1, EffectedStays
<1>3. ASSUME NEW i \in Server, NEW writes, NEW reads, process(i, writes, reads)
      PROVE  \A r \in committed_replies' : Effected(chosen', r)
  <2>1. ASSUME NEW r \in committed_replies', r \notin committed_replies
        PROVE  \E w \in writes : /\ Current(i, w)
                                 /\ SameRequest(Replay(applied'[i]), w.command)
                                 /\ r = Committed(Replay(applied'[i]), w.command)
    BY <1>3, <2>1 DEF process
  <2>2. ASSUME NEW w \in writes, Current(i, w), NEW r,
               SameRequest(Replay(applied'[i]), w.command),
               r = Committed(Replay(applied'[i]), w.command)
        PROVE  Effected(chosen', r)
    <3>1. Live(i)'
      BY <2>2 DEF Current, Live
    <3>2. Len(applied'[i]) <= Len(chosen') /\ SubSeq(chosen', 1, Len(applied'[i])) = applied'[i]
      BY <3>1 DEF FedHistory
    <3>3. PICK ap \in Seq(Entry) : ap = applied'[i]
      BY DEF TypeOK
    <3>4. PICK ch \in Seq(Entry) : ch = chosen'
      BY <1>1
    <3> QED
      BY <2>2, <3>2, <3>3, <3>4, AnswerTookEffect
  <2> QED
    BY <1>2, <2>1, <2>2
<1>4. ASSUME NEW i \in Server, Settle(i)
      PROVE  \A r \in committed_replies' : Effected(chosen', r)
  BY <1>3, <1>4 DEF Settle
<1>5. CASE committed_replies' = committed_replies
  BY <1>2, <1>5
<1>6. ASSUME NEW i \in Server, NEW c \in Command, write_known(i, c)
      PROVE  \A r \in committed_replies' : Effected(chosen', r)
  <2>1. CASE ~SameRequest(Replay(applied[i]), c)
    BY <1>5, <1>6, <2>1 DEF write_known
  <2>2. CASE SameRequest(Replay(applied[i]), c)
    <3>1. PICK r : /\ r = Committed(Replay(applied[i]), c)
                   /\ committed_replies' = committed_replies \cup {r}
      BY <1>6, <2>2 DEF write_known
    <3>2. Len(applied[i]) <= Len(chosen) /\ SubSeq(chosen, 1, Len(applied[i])) = applied[i]
      BY <1>6 DEF write_known, ToLeader, FedHistory
    <3>3. applied[i] \in Seq(Entry)
      BY DEF TypeOK
    <3>4. Effected(chosen, r)
      BY <1>1, <2>2, <3>1, <3>2, <3>3, AnswerTookEffect
    <3> QED
      BY <1>1, <1>2, <3>1, <3>4, EffectedStays
  <2> QED
    BY <2>1, <2>2
<1>7. ASSUME NEW i \in Server, Client(i)
      PROVE  \A r \in committed_replies' : Effected(chosen', r)
  <2>1. ASSUME NEW c \in Command, write_joins(i, c) PROVE committed_replies' = committed_replies
    BY <2>1 DEF write_joins
  <2>2. ASSUME NEW c \in Command, write_proposed(i, c) \/ console_write(i, c)
        PROVE  \A r \in committed_replies' : Effected(chosen', r)
    BY <1>3, <1>4, <2>2 DEF write_proposed, console_write
  <2>3. ASSUME NEW key \in Key, client_read(i, key)
        PROVE  \A r \in committed_replies' : Effected(chosen', r)
    BY <1>3, <2>3 DEF client_read
  <2> QED
    BY <1>5, <1>6, <1>7, <2>1, <2>2, <2>3 DEF Client
<1>8. ASSUME NEW i \in Server, NEW c \in Command, write_proposal_fails(i, c)
      PROVE  \A r \in committed_replies' : Effected(chosen', r)
  BY <1>4, <1>8 DEF write_proposal_fails
<1>9. ASSUME NEW m \in msgs, Receive(m.to, m), Settle(m.to)
      PROVE  \A r \in committed_replies' : Effected(chosen', r)
  <2>1. m.to \in Server
    BY MessageKinds DEF TypeOK
  <2> QED
    BY <1>4, <1>9, <2>1
<1>10. CASE UNCHANGED svars
  BY <1>5, <1>10 DEF svars, replies
<1> QED
  BY <1>4, <1>7, <1>8, <1>9, <1>10 DEF SNext

\* A client told Committed holds the term and index of the entry that made its write
\* take effect, for good: the history has the command there and its request id
\* nowhere before, however often the request was proposed, at whichever leaders, and
\* through any restarts in between (process and handle_client_write).
THEOREM CommittedIsEffective == SSpec => []CommittedTookEffect
<1> DEFINE WriteInv == \A r \in committed_replies : Effected(chosen, r)
<1>1. SInit => WriteInv
  BY DEF SInit
<1>2. TypeOK /\ TypeOK' /\ ElectionInv /\ NodeInv /\ NodeInv' /\ Recorded /\ FedHistory
        /\ FedHistory' /\ WriteInv /\ [SNext]_svars => WriteInv'
  BY ServerCommits
<1>3. Recorded /\ WriteInv => CommittedTookEffect
  <2> SUFFICES ASSUME Recorded, NEW r \in committed_replies, Effected(chosen, r)
               PROVE  /\ r.index <= Len(chosen)
                      /\ chosen[r.index] = [term |-> r.term, command |-> r.command]
                      /\ \A k \in 1..(r.index - 1) :
                           chosen[k].command.request_id # r.command.request_id
    BY DEF CommittedTookEffect
  <2>1. Len(chosen) \in Nat
    BY LenProperties DEF Recorded, HistInv
  <2> QED
    BY <2>1 DEF Effected
<1> HIDE DEF WriteInv
<1> QED
  BY <1>1, <1>2, <1>3, HistoryFeeds, ServersAreHistory, HistoryIsRaft, TypeCorrect,
     ElectionInvariant, NodeInvariant, HistoryIsRecorded, PTL
  DEF SSpec
=============================================================================
