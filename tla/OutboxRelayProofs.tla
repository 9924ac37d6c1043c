-------------------------- MODULE OutboxRelayProofs --------------------------
(***************************************************************************)
(* What holds of the outbox relay for any number of rows and replicas.     *)
(***************************************************************************)
EXTENDS OutboxRelay, FiniteSetTheorems, TLAPS

(* What an answered publish stands for: the row is one the relay holds. *)
AnswerOfBatch ==
    \A p \in Relays : pc[p] = "answered" => /\ current[p] \in batch[p]
                                            /\ answer[p] \in Answers

(* An ack in hand, an open duplicate window and a published row all mean    *)
(* that the stream holds the event.                                         *)
AckMeansStored ==
    /\ \A p \in Relays : pc[p] = "answered" /\ answer[p] = "ack" => copies[current[p]] >= 1
    /\ \A r \in window : copies[r] >= 1
    /\ PublishedIsInStream

(* As long as no lease lapsed under its owner, a row in a batch carries a   *)
(* live claim of that relay.                                                *)
BatchIsClaimed ==
    lapses = 0 => \A p \in Relays : \A r \in batch[p] :
        owner[r] = p /\ status[r] = "PROCESSING" /\ lease[r] = "held"

(* A relay has rows only between a claim and its last decision. *)
RestHasNoBatch ==
    \A p \in Relays : pc[p] \notin {"publishing", "answered"} => batch[p] = {}

(* The relays whose claim of a row has not been turned into a publish yet. *)
Unspent(r) == {p \in Relays : r \in batch[p] /\ ~(pc[p] = "answered" /\ current[p] = r)}

(* Each claim is counted before it is spent, and spent once at most. *)
ClaimsPayForCopies ==
    \A r \in Rows : copies[r] + Cardinality(Unspent(r)) <= attempts[r]

IInv == /\ TypeOK /\ AnswerOfBatch /\ AckMeansStored /\ BatchIsClaimed
        /\ RestHasNoBatch /\ ClaimsPayForCopies

-----------------------------------------------------------------------------
(* Every variable keeps its type in every run of the relays. *)
LEMMA TypeInit == Init => TypeOK
  BY RelayConstants DEF Init, TypeOK, OutboxStatus, Answers

LEMMA TypeStep == TypeOK /\ AnswerOfBatch /\ [Next]_vars => TypeOK'
  <1> SUFFICES ASSUME TypeOK, AnswerOfBatch, [Next]_vars PROVE TypeOK'
    OBVIOUS
  <1> USE RelayConstants DEF TypeOK, OutboxStatus, Answers
  <1>1. ASSUME NEW p \in Relays, RecoverStale(p) PROVE TypeOK'
    BY <1>1 DEF RecoverStale, Stale, broker
  <1>2. ASSUME NEW p \in Relays, ClaimBatch(p) PROVE TypeOK'
    <2>1. PICK S \in SUBSET Rows :
            /\ status' = [r \in Rows |-> IF r \in S THEN "PROCESSING" ELSE status[r]]
            /\ owner' = [r \in Rows |-> IF r \in S THEN p ELSE owner[r]]
            /\ lease' = [r \in Rows |-> IF r \in S THEN "held" ELSE lease[r]]
            /\ attempts' = CountAttempt(S)
            /\ batch' = [batch EXCEPT ![p] = S]
      BY <1>2 DEF ClaimBatch
    <2>2. attempts' \in [Rows -> Nat]
      BY <2>1 DEF CountAttempt
    <2>3. snapshot' \in [Relays -> [Rows -> Nat]]
      BY <1>2, <2>2 DEF ClaimBatch
    <2> QED
      BY <1>2, <2>1, <2>2, <2>3 DEF ClaimBatch, broker
  <1>3. ASSUME NEW p \in Relays, ClaimNothing(p) PROVE TypeOK'
    BY <1>3 DEF ClaimNothing, rowVars, broker
  <1>4. ASSUME NEW p \in Relays, Publish(p) PROVE TypeOK'
    <2>1. PICK r \in batch[p], o \in Outcomes :
          /\ current' = [current EXCEPT ![p] = r]
          /\ answer' = [answer EXCEPT ![p] = o.answer]
          /\ IF o.stored
             THEN /\ window' = window \cup {r}
                  /\ copies' = [copies EXCEPT
                        ![r] = IF r \in window THEN @ ELSE @ + 1]
             ELSE UNCHANGED broker
      BY <1>4 DEF Publish
    <2>2. o.answer \in Answers /\ r \in Rows
      BY DEF Outcomes
    <2>3. copies' \in [Rows -> Nat] /\ window' \in SUBSET Rows
      BY <2>1, <2>2 DEF broker
    <2> QED
      BY <1>4, <2>1, <2>2, <2>3 DEF Publish, rowVars
  <1>5. ASSUME NEW p \in Relays, ApplyDecision(p) PROVE TypeOK'
    <2>1. current[p] \in Rows
      BY <1>5 DEF ApplyDecision, AnswerOfBatch
    <2>2. Decision(answer[p], snapshot[p][current[p]]) \in {"PENDING", "PUBLISHED", "QUARANTINED"}
      BY DEF Decision
    <2> QED
      BY <1>5, <2>1, <2>2 DEF ApplyDecision, broker
  <1>6. ASSUME NEW p \in Relays, Crash(p) PROVE TypeOK'
    BY <1>6 DEF Crash, rowVars, broker
  <1>7. ASSUME NEW p \in Relays, Restart(p) PROVE TypeOK'
    BY <1>7 DEF Restart, rowVars, broker
  <1>8. ASSUME NEW r \in Rows, InsertOutbox(r) PROVE TypeOK'
    BY <1>8 DEF InsertOutbox, rowVars, relayVars, broker
  <1>9. ASSUME NEW r \in Rows, BackoffElapses(r) PROVE TypeOK'
    BY <1>9 DEF BackoffElapses, rowVars, relayVars, broker
  <1>10. ASSUME NEW r \in Rows, LeaseLapsesUnderOwner(r) PROVE TypeOK'
    BY <1>10 DEF LeaseLapsesUnderOwner, rowVars, relayVars, broker
  <1>11. ASSUME NEW r \in Rows, LeaseLapsesAbandoned(r) PROVE TypeOK'
    BY <1>11 DEF LeaseLapsesAbandoned, rowVars, relayVars, broker
  <1>12. ASSUME NEW r \in Rows, WindowCloses(r) PROVE TypeOK'
    BY <1>12 DEF WindowCloses, rowVars, relayVars, broker
  <1>13. CASE UNCHANGED vars
    BY <1>13 DEF vars, rowVars, relayVars, broker
  <1> QED
    BY <1>1, <1>2, <1>3, <1>4, <1>5, <1>6, <1>7, <1>8, <1>9, <1>10,
       <1>11, <1>12, <1>13 DEF Next, RelayStep

-----------------------------------------------------------------------------
(* The answered row stays in its batch until the decision is written. *)
LEMMA AnswerStep == TypeOK /\ AnswerOfBatch /\ [Next]_vars => AnswerOfBatch'
  <1> SUFFICES ASSUME TypeOK, AnswerOfBatch, [Next]_vars,
                      NEW q \in Relays, pc'[q] = "answered"
               PROVE  current'[q] \in batch'[q] /\ answer'[q] \in Answers
    BY DEF AnswerOfBatch
  <1> USE DEF TypeOK, AnswerOfBatch
  <1>1. ASSUME NEW p \in Relays, RecoverStale(p) PROVE pc[q] = "answered" /\ UNCHANGED <<current, answer, batch>>
    BY <1>1 DEF RecoverStale
  <1>2. ASSUME NEW p \in Relays, ClaimBatch(p)
        PROVE  pc[q] = "answered" /\ UNCHANGED <<current, answer>> /\ batch'[q] = batch[q]
    BY <1>2 DEF ClaimBatch
  <1>3. ASSUME NEW p \in Relays, ClaimNothing(p) \/ Restart(p)
        PROVE  pc[q] = "answered" /\ UNCHANGED <<current, answer, batch>>
    BY <1>3 DEF ClaimNothing, Restart
  <1>4. ASSUME NEW p \in Relays, Publish(p)
        PROVE  current'[q] \in batch'[q] /\ answer'[q] \in Answers
    BY <1>4 DEF Publish, Outcomes
  <1>5. ASSUME NEW p \in Relays, ApplyDecision(p) \/ Crash(p)
        PROVE  /\ pc[q] = "answered" /\ current'[q] = current[q]
               /\ answer'[q] = answer[q] /\ batch'[q] = batch[q]
    BY <1>5 DEF ApplyDecision, Crash
  <1>6. ASSUME NEW r \in Rows,
               \/ InsertOutbox(r) \/ BackoffElapses(r) \/ LeaseLapsesUnderOwner(r)
               \/ LeaseLapsesAbandoned(r) \/ WindowCloses(r)
        PROVE  UNCHANGED <<pc, current, answer, batch>>
    BY <1>6 DEF InsertOutbox, BackoffElapses, LeaseLapsesUnderOwner,
                LeaseLapsesAbandoned, WindowCloses, relayVars
  <1>7. CASE UNCHANGED vars
    BY <1>7 DEF vars, relayVars
  <1> QED
    BY <1>1, <1>2, <1>3, <1>4, <1>5, <1>6, <1>7 DEF Next, RelayStep

(* A publish adds copies, nothing ever removes one, and only an ack makes   *)
(* apply_publish_decision write "published".                                *)
LEMMA StoredStep ==
    TypeOK /\ AnswerOfBatch /\ AckMeansStored /\ [Next]_vars => AckMeansStored'
  <1> SUFFICES ASSUME TypeOK, AnswerOfBatch, AckMeansStored, [Next]_vars
               PROVE  AckMeansStored'
    OBVIOUS
  <1> USE DEF TypeOK, AckMeansStored, PublishedIsInStream
  <1>1. ASSUME NEW p \in Relays, RecoverStale(p) PROVE AckMeansStored'
    BY <1>1 DEF RecoverStale, broker
  <1>2. ASSUME NEW p \in Relays, ClaimBatch(p) PROVE AckMeansStored'
    BY <1>2 DEF ClaimBatch, broker
  <1>3. ASSUME NEW p \in Relays, ClaimNothing(p) \/ Restart(p) \/ Crash(p)
        PROVE  AckMeansStored'
    BY <1>3 DEF ClaimNothing, Restart, Crash, rowVars, broker
  <1>4. ASSUME NEW p \in Relays, Publish(p) PROVE AckMeansStored'
    <2>1. PICK r \in batch[p], o \in Outcomes :
          /\ current' = [current EXCEPT ![p] = r]
          /\ answer' = [answer EXCEPT ![p] = o.answer]
          /\ IF o.stored
             THEN /\ window' = window \cup {r}
                  /\ copies' = [copies EXCEPT
                        ![r] = IF r \in window THEN @ ELSE @ + 1]
             ELSE UNCHANGED broker
      BY <1>4 DEF Publish
    <2>2. r \in Rows /\ (o.answer = "ack" => o.stored)
      BY DEF Outcomes
    <2>3. \A s \in Rows : copies[s] >= 1 => copies'[s] >= 1
      BY <2>1, <2>2 DEF broker
    <2>4. o.stored => copies'[r] >= 1
      BY <2>1, <2>2
    <2>5. \A s \in window' : copies'[s] >= 1
      BY <2>1, <2>2, <2>3, <2>4 DEF broker
    <2>6. \A q \in Relays : pc'[q] = "answered" /\ answer'[q] = "ack"
                             => copies'[current'[q]] >= 1
      <3> SUFFICES ASSUME NEW q \in Relays, pc'[q] = "answered", answer'[q] = "ack"
                   PROVE  copies'[current'[q]] >= 1
        OBVIOUS
      <3>1. CASE q = p
        BY <3>1, <2>1, <2>2, <2>4
      <3>2. CASE q # p
        <4>1. pc[q] = "answered" /\ answer[q] = "ack" /\ current'[q] = current[q]
          BY <3>2, <1>4, <2>1 DEF Publish
        <4>2. current[q] \in Rows
          BY <4>1 DEF AnswerOfBatch
        <4> QED
          BY <4>1, <4>2, <2>3
      <3> QED
        BY <3>1, <3>2
    <2> QED
      BY <1>4, <2>3, <2>5, <2>6 DEF Publish, rowVars
  <1>5. ASSUME NEW p \in Relays, ApplyDecision(p) PROVE AckMeansStored'
    <2> DEFINE r == current[p]
    <2>1. r \in Rows /\ UNCHANGED <<copies, window>>
      BY <1>5 DEF ApplyDecision, AnswerOfBatch, broker
    <2>2. Decision(answer[p], snapshot[p][r]) = "PUBLISHED" => copies[r] >= 1
      BY <1>5 DEF ApplyDecision, Decision
    <2>3. PublishedIsInStream'
      BY <1>5, <2>1, <2>2 DEF ApplyDecision
    <2>4. \A q \in Relays : pc'[q] = "answered" =>
             pc[q] = "answered" /\ answer'[q] = answer[q] /\ current'[q] = current[q]
      BY <1>5 DEF ApplyDecision
    <2> QED
      BY <2>1, <2>3, <2>4
  <1>6. ASSUME NEW r \in Rows, InsertOutbox(r) \/ WindowCloses(r)
        PROVE  AckMeansStored'
    BY <1>6 DEF InsertOutbox, WindowCloses, rowVars, relayVars, broker
  <1>7. ASSUME NEW r \in Rows, BackoffElapses(r) \/ LeaseLapsesUnderOwner(r)
                                 \/ LeaseLapsesAbandoned(r)
        PROVE  AckMeansStored'
    BY <1>7 DEF BackoffElapses, LeaseLapsesUnderOwner, LeaseLapsesAbandoned,
                relayVars, broker
  <1>8. CASE UNCHANGED vars
    BY <1>8 DEF vars, rowVars, relayVars, broker
  <1> QED
    BY <1>1, <1>2, <1>3, <1>4, <1>5, <1>6, <1>7, <1>8 DEF Next, RelayStep

(* While no lease lapses under its owner, only the owner's decision ends a  *)
(* claim, and only unclaimed rows are claimed.                              *)
LEMMA ClaimStep ==
    TypeOK /\ AnswerOfBatch /\ BatchIsClaimed /\ [Next]_vars => BatchIsClaimed'
  <1> SUFFICES ASSUME TypeOK, AnswerOfBatch, BatchIsClaimed, [Next]_vars, lapses' = 0
               PROVE  \A q \in Relays : \A s \in batch'[q] :
                        owner'[s] = q /\ status'[s] = "PROCESSING" /\ lease'[s] = "held"
    BY DEF BatchIsClaimed
  <1> DEFINE Claimed(q, s) == owner[s] = q /\ status[s] = "PROCESSING" /\ lease[s] = "held"
             Goal == \A q \in Relays : \A s \in batch'[q] :
                        owner'[s] = q /\ status'[s] = "PROCESSING" /\ lease'[s] = "held"
  <1> USE DEF TypeOK
  <1>0. \A q \in Relays : \A s \in batch[q] : s \in Rows /\ (lapses = 0 => Claimed(q, s))
    BY DEF BatchIsClaimed
  <1>1. ASSUME NEW p \in Relays, RecoverStale(p) PROVE Goal
    BY <1>0, <1>1 DEF RecoverStale, Stale
  <1>2. ASSUME NEW p \in Relays, ClaimBatch(p) PROVE Goal
    BY <1>0, <1>2 DEF ClaimBatch, IsBatch, Claimable
  <1>3. ASSUME NEW p \in Relays, ClaimNothing(p) \/ Restart(p) \/ Publish(p) PROVE Goal
    BY <1>0, <1>3 DEF ClaimNothing, Restart, Publish, rowVars
  <1>4. ASSUME NEW p \in Relays, Crash(p) PROVE Goal
    BY <1>0, <1>4 DEF Crash, rowVars
  <1>5. ASSUME NEW p \in Relays, ApplyDecision(p) PROVE Goal
    <2> DEFINE r == current[p]
    <2>1. r \in batch[p] /\ lapses = 0
      BY <1>5 DEF ApplyDecision, AnswerOfBatch
    <2>2. \A q \in Relays : \A s \in batch'[q] : s \in batch[q] /\ s # r
      BY <1>0, <1>5, <2>1 DEF ApplyDecision
    <2> QED
      BY <1>0, <1>5, <2>1, <2>2 DEF ApplyDecision
  <1>6. ASSUME NEW r \in Rows, InsertOutbox(r) PROVE Goal
    BY <1>0, <1>6 DEF InsertOutbox, relayVars
  <1>7. ASSUME NEW r \in Rows, BackoffElapses(r) \/ WindowCloses(r) PROVE Goal
    BY <1>0, <1>7 DEF BackoffElapses, WindowCloses, rowVars, relayVars
  <1>8. ASSUME NEW r \in Rows, LeaseLapsesUnderOwner(r) PROVE Goal
    BY <1>8 DEF LeaseLapsesUnderOwner
  <1>9. ASSUME NEW r \in Rows, LeaseLapsesAbandoned(r) PROVE Goal
    BY <1>0, <1>9 DEF LeaseLapsesAbandoned, Working, relayVars
  <1>10. CASE UNCHANGED vars
    BY <1>0, <1>10 DEF vars, rowVars, relayVars
  <1> QED
    BY <1>1, <1>2, <1>3, <1>4, <1>5, <1>6, <1>7, <1>8, <1>9, <1>10 DEF Next, RelayStep

-----------------------------------------------------------------------------
(* A relay without work in hand keeps no rows. *)
LEMMA RestStep == TypeOK /\ RestHasNoBatch /\ [Next]_vars => RestHasNoBatch'
  <1> SUFFICES ASSUME TypeOK, RestHasNoBatch, [Next]_vars PROVE RestHasNoBatch'
    OBVIOUS
  <1> USE DEF TypeOK, RestHasNoBatch
  <1>1. ASSUME NEW p \in Relays, RelayStep(p) PROVE RestHasNoBatch'
    <2>1. CASE RecoverStale(p)
      BY <2>1 DEF RecoverStale
    <2>2. CASE ClaimBatch(p)
      BY <2>2 DEF ClaimBatch
    <2>3. CASE ClaimNothing(p)
      BY <2>3 DEF ClaimNothing
    <2>4. CASE Publish(p)
      BY <2>4 DEF Publish
    <2>5. CASE ApplyDecision(p)
      BY <2>5 DEF ApplyDecision
    <2> QED
      BY <1>1, <2>1, <2>2, <2>3, <2>4, <2>5 DEF RelayStep
  <1>2. ASSUME NEW p \in Relays, Crash(p) \/ Restart(p) PROVE RestHasNoBatch'
    BY <1>2 DEF Crash, Restart
  <1>3. ASSUME NEW r \in Rows,
               \/ InsertOutbox(r) \/ BackoffElapses(r) \/ LeaseLapsesUnderOwner(r)
               \/ LeaseLapsesAbandoned(r) \/ WindowCloses(r)
        PROVE  RestHasNoBatch'
    BY <1>3 DEF InsertOutbox, BackoffElapses, LeaseLapsesUnderOwner,
                LeaseLapsesAbandoned, WindowCloses, relayVars
  <1>4. CASE UNCHANGED vars
    BY <1>4 DEF vars, relayVars
  <1> QED
    BY <1>1, <1>2, <1>3, <1>4 DEF Next

LEMMA UnspentFinite == ASSUME NEW r PROVE IsFiniteSet(Unspent(r)) /\ Cardinality(Unspent(r)) \in Nat
  BY RelayConstants, FS_Subset, FS_CardinalityType DEF Unspent

(* A claim adds one attempt and one unspent claim to each of its rows; a    *)
(* publish spends the claim; a decision and a crash only forget claims.     *)
LEMMA PayStep ==
    /\ TypeOK /\ AnswerOfBatch /\ RestHasNoBatch /\ ClaimsPayForCopies
    /\ [Next]_vars
    => ClaimsPayForCopies'
  <1> SUFFICES ASSUME TypeOK, AnswerOfBatch, RestHasNoBatch, ClaimsPayForCopies,
                      [Next]_vars, NEW s \in Rows
               PROVE  copies'[s] + Cardinality(Unspent(s)') <= attempts'[s]
    BY DEF ClaimsPayForCopies
  <1> DEFINE Before == Unspent(s)
             After  == Unspent(s)'
             Goal   == copies'[s] + Cardinality(After) <= attempts'[s]
  <1>0. /\ copies[s] \in Nat /\ attempts[s] \in Nat
        /\ copies[s] + Cardinality(Before) <= attempts[s]
        /\ IsFiniteSet(Before) /\ Cardinality(Before) \in Nat
    BY UnspentFinite DEF TypeOK, ClaimsPayForCopies
  <1>1. ASSUME copies'[s] = copies[s], attempts'[s] = attempts[s], After \subseteq Before
        PROVE  Goal
    <2>1. Cardinality(After) \in Nat /\ Cardinality(After) <= Cardinality(Before)
      BY <1>0, <1>1, FS_Subset, FS_CardinalityType
    <2> QED
      BY <1>0, <1>1, <2>1
  <1>2. ASSUME NEW p \in Relays, ClaimBatch(p) PROVE Goal
    <2>1. PICK S \in SUBSET Rows :
            /\ attempts' = CountAttempt(S)
            /\ batch' = [batch EXCEPT ![p] = S]
      BY <1>2 DEF ClaimBatch
    <2>2. /\ batch[p] = {} /\ pc[p] = "recovered" /\ pc'[p] = "publishing"
          /\ copies' = copies /\ current' = current /\ batch'[p] = S
          /\ \A q \in Relays : q # p => pc'[q] = pc[q] /\ batch'[q] = batch[q]
      BY <1>2, <2>1 DEF ClaimBatch, RestHasNoBatch, TypeOK, broker
    <2>3. CASE s \in S
      <3>1. After = Before \cup {p} /\ p \notin Before
        BY <2>2, <2>3 DEF Unspent
      <3>2. Cardinality(After) = Cardinality(Before) + 1
        BY <3>1, <1>0, FS_AddElement
      <3>3. attempts'[s] = attempts[s] + 1
        BY <2>1, <2>3 DEF CountAttempt
      <3> QED
        BY <1>0, <2>2, <3>2, <3>3
    <2>4. CASE s \notin S
      <3>1. After \subseteq Before
        BY <2>2, <2>4 DEF Unspent
      <3>2. attempts'[s] = attempts[s]
        BY <2>1, <2>4 DEF CountAttempt
      <3> QED
        BY <1>1, <2>2, <3>1, <3>2
    <2> QED
      BY <2>3, <2>4
  <1>3. ASSUME NEW p \in Relays, Publish(p) PROVE Goal
    <2>1. PICK r \in batch[p], o \in Outcomes :
          /\ current' = [current EXCEPT ![p] = r]
          /\ IF o.stored
             THEN copies' = [copies EXCEPT ![r] = IF r \in window THEN @ ELSE @ + 1]
             ELSE UNCHANGED broker
      BY <1>3 DEF Publish
    <2>2. /\ r \in Rows /\ pc[p] = "publishing" /\ pc'[p] = "answered"
          /\ current'[p] = r /\ batch' = batch /\ attempts' = attempts
          /\ \A q \in Relays : q # p => pc'[q] = pc[q] /\ current'[q] = current[q]
      BY <1>3, <2>1 DEF Publish, TypeOK, rowVars
    <2>3. CASE s = r
      <3>1. After = Before \ {p} /\ p \in Before
        BY <2>1, <2>2, <2>3 DEF Unspent
      <3>2. Cardinality(After) = Cardinality(Before) - 1
        BY <3>1, <1>0, FS_RemoveElement
      <3>3. copies'[s] \in {copies[s], copies[s] + 1}
        BY <2>1, <2>2, <2>3 DEF TypeOK, broker
      <3> QED
        BY <1>0, <2>2, <3>2, <3>3
    <2>4. CASE s # r
      <3>1. After \subseteq Before
        BY <2>2, <2>4 DEF Unspent
      <3>2. copies'[s] = copies[s]
        BY <2>1, <2>2, <2>4 DEF TypeOK, broker
      <3> QED
        BY <1>1, <2>2, <3>1, <3>2
    <2> QED
      BY <2>3, <2>4
  <1>4. ASSUME NEW p \in Relays, ApplyDecision(p) PROVE Goal
    <2> DEFINE r == current[p]
    <2>1. /\ batch' = [batch EXCEPT ![p] = @ \ {r}]
          /\ pc[p] = "answered" /\ pc'[p] \in {"idle", "publishing"}
          /\ copies' = copies /\ attempts' = attempts
          /\ \A q \in Relays : q # p => pc'[q] = pc[q] /\ current'[q] = current[q]
      BY <1>4 DEF ApplyDecision, TypeOK, broker
    <2>2. batch'[p] = batch[p] \ {r} /\ \A q \in Relays : q # p => batch'[q] = batch[q]
      BY <2>1 DEF TypeOK
    <2>3. After \subseteq Before
      BY <2>1, <2>2 DEF Unspent
    <2> QED
      BY <1>1, <2>1, <2>3
  <1>5. ASSUME NEW p \in Relays, RecoverStale(p) \/ ClaimNothing(p) \/ Crash(p) \/ Restart(p)
        PROVE  Goal
    <2>1. copies' = copies /\ attempts' = attempts
      BY <1>5 DEF RecoverStale, ClaimNothing, Crash, Restart, rowVars, broker
    <2>2. After \subseteq Before
      BY <1>5 DEF RecoverStale, ClaimNothing, Crash, Restart, Unspent, TypeOK
    <2> QED
      BY <1>1, <2>1, <2>2
  <1>6. ASSUME NEW r \in Rows,
               \/ InsertOutbox(r) \/ BackoffElapses(r) \/ LeaseLapsesUnderOwner(r)
               \/ LeaseLapsesAbandoned(r) \/ WindowCloses(r)
        PROVE  Goal
    <2>1. UNCHANGED <<copies, attempts, pc, batch, current>>
      BY <1>6 DEF InsertOutbox, BackoffElapses, LeaseLapsesUnderOwner,
                  LeaseLapsesAbandoned, WindowCloses, rowVars, relayVars, broker
    <2> QED
      BY <1>1, <2>1 DEF Unspent
  <1>7. CASE UNCHANGED vars
    <2>1. UNCHANGED <<copies, attempts, pc, batch, current>>
      BY <1>7 DEF vars, rowVars, relayVars, broker
    <2> QED
      BY <1>1, <2>1 DEF Unspent
  <1> QED
    BY <1>2, <1>3, <1>4, <1>5, <1>6, <1>7 DEF Next, RelayStep

LEMMA PayInit == Init => RestHasNoBatch /\ ClaimsPayForCopies
  <1> SUFFICES ASSUME Init, NEW r \in Rows PROVE copies[r] + Cardinality(Unspent(r)) <= attempts[r]
    BY DEF Init, RestHasNoBatch, ClaimsPayForCopies
  <1>1. Unspent(r) = {}
    BY DEF Init, Unspent
  <1> QED
    BY <1>1, FS_EmptySet DEF Init

-----------------------------------------------------------------------------
(* The inductive invariant holds throughout. *)
THEOREM RelayInvariant == Spec => []IInv
  <1>1. Init => IInv
    BY TypeInit, PayInit DEF Init, IInv, AnswerOfBatch, AckMeansStored, PublishedIsInStream,
                    BatchIsClaimed
  <1>2. IInv /\ [Next]_vars => IInv'
    BY TypeStep, AnswerStep, StoredStep, ClaimStep, RestStep, PayStep DEF IInv
  <1> QED
    BY <1>1, <1>2, PTL DEF Spec

(* Type correctness of the relay for any rows, replicas and budgets. *)
THEOREM RelayTypeCorrect == Spec => []TypeOK
  BY RelayInvariant, PTL DEF IInv

(* The relay never marks published what the broker did not store, whatever  *)
(* crashes, lost acks and late decisions happen.                            *)
THEOREM PublishedStored == Spec => []PublishedIsInStream
  BY RelayInvariant, PTL DEF IInv, AckMeansStored

(* attempt_count bounds the duplicates of an event in the stream, whatever  *)
(* crashes, lost acks and recovered claims happen.                          *)
THEOREM CopiesAreCounted == Spec => []CopiesWithinAttempts
  <1>1. IInv => CopiesWithinAttempts
    <2> SUFFICES ASSUME IInv, NEW r \in Rows PROVE copies[r] <= attempts[r]
      BY DEF CopiesWithinAttempts
    <2> QED
      BY UnspentFinite DEF IInv, TypeOK, ClaimsPayForCopies
  <1> QED
    BY <1>1, RelayInvariant, PTL

(* Claims are exclusive as long as no lease lapses under its owner. *)
THEOREM ClaimsExclusive == Spec => []ExclusiveUnlessLapsed
  <1>1. IInv => ExclusiveUnlessLapsed
    BY DEF IInv, TypeOK, BatchIsClaimed, ExclusiveUnlessLapsed
  <1> QED
    BY <1>1, RelayInvariant, PTL

(* ... and then published and quarantined are final. *)
THEOREM TerminalIsFinal == Spec => TerminalUnlessLapsed
  <1> DEFINE Keeps == lapses' = 0 => \A r \in Rows :
                         status[r] \in Terminal => status'[r] = status[r]
  <1>1. IInv /\ [Next]_vars => Keeps
    <2> SUFFICES ASSUME IInv, [Next]_vars, lapses' = 0, NEW r \in Rows,
                        status[r] \in {"PUBLISHED", "QUARANTINED"}
                 PROVE  status'[r] = status[r]
      BY DEF Terminal
    <2> USE DEF IInv, TypeOK
    <2>1. ASSUME NEW p \in Relays, ApplyDecision(p) PROVE status'[r] = status[r]
      <3>1. current[p] \in batch[p] /\ lapses = 0
        BY <2>1 DEF ApplyDecision, AnswerOfBatch
      <3>2. current[p] \in Rows /\ status[current[p]] = "PROCESSING"
        BY <3>1 DEF BatchIsClaimed
      <3> QED
        BY <2>1, <3>2 DEF ApplyDecision
    <2>2. ASSUME NEW p \in Relays,
                 RecoverStale(p) \/ ClaimBatch(p) \/ ClaimNothing(p) \/ Publish(p)
                   \/ Crash(p) \/ Restart(p)
          PROVE  status'[r] = status[r]
      BY <2>2 DEF RecoverStale, Stale, ClaimBatch, IsBatch, Claimable, ClaimNothing,
                  Publish, Crash, Restart, rowVars
    <2>3. ASSUME NEW s \in Rows,
                 InsertOutbox(s) \/ BackoffElapses(s) \/ LeaseLapsesUnderOwner(s)
                   \/ LeaseLapsesAbandoned(s) \/ WindowCloses(s)
          PROVE  status'[r] = status[r]
      BY <2>3 DEF InsertOutbox, BackoffElapses, LeaseLapsesUnderOwner,
                  LeaseLapsesAbandoned, WindowCloses, rowVars
    <2>4. CASE UNCHANGED vars
      BY <2>4 DEF vars, rowVars
    <2> QED
      BY <2>1, <2>2, <2>3, <2>4 DEF Next, RelayStep
  <1>2. IInv /\ [Next]_vars => [Keeps]_vars
    BY <1>1
  <1> QED
    BY <1>2, RelayInvariant, PTL DEF Spec, TerminalUnlessLapsed

=============================================================================
