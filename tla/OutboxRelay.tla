----------------------------- MODULE OutboxRelay -----------------------------
(***************************************************************************)
(* The transactional-outbox relay of the pickup service (and, line for     *)
(* line, of the legacy event bridge): several relay replicas poll one      *)
(* integration_outbox table, claim due rows under a lease, publish them to *)
(* JetStream outside any transaction and write the decision back.          *)
(*                                                                         *)
(* Abstractions.  One event per outbox row, so a row names its event.      *)
(* Time is what the code compares it for: a lease is "held" or "lapsed"    *)
(* (processing_until against now), a row is due or not (next_attempt_at    *)
(* against now).  Lapses of a lease whose owner is still working on the    *)
(* row (batch_size x publish timeout exceeds lease_seconds) and crashes    *)
(* are bounded by MaxLapses and MaxCrashes.                                *)
(***************************************************************************)
EXTENDS Naturals, FiniteSets

CONSTANTS
    Rows,         \* rows of integration_outbox
    Relays,       \* relay replicas (owner_id)
    NoRelay,      \* processing_owner IS NULL
    NoRow,        \* a relay is not publishing any row
    MaxAttempts,  \* max_attempts of every row
    BatchSize,    \* batch_size of every relay
    MaxCrashes,   \* bound: how many relay crashes are considered
    MaxLapses     \* bound: how many leases lapse under a live, slow owner

ASSUME RelayConstants ==
    /\ IsFiniteSet(Relays)
    /\ NoRelay \notin Relays
    /\ NoRow \notin Rows
    /\ MaxAttempts \in Nat
    /\ BatchSize \in Nat \ {0}
    /\ MaxCrashes \in Nat
    /\ MaxLapses \in Nat

VARIABLES
    status,       \* status column; "ABSENT" before the row is inserted
    owner,        \* processing_owner
    lease,        \* processing_until, compared with the clock
    attempts,     \* attempt_count
    due,          \* next_attempt_at <= now
    publishedAt,  \* published_at IS NOT NULL
    pc,           \* where each relay is in publish_pending
    batch,        \* claimed rows a relay has still to publish
    snapshot,     \* attempt_count as each relay read it when it claimed
    current,      \* the row whose publish was answered last
    answer,       \* what the publisher adapter returned for it
    copies,       \* messages of the event stored in the JetStream stream
    window,       \* events inside the broker's Nats-Msg-Id duplicate window
    crashes, lapses

rowVars   == <<status, owner, lease, attempts, due, publishedAt>>
relayVars == <<pc, batch, snapshot, current, answer>>
broker    == <<copies, window>>
vars      == <<rowVars, relayVars, broker, crashes, lapses>>

-----------------------------------------------------------------------------
OutboxStatus == {"PENDING", "PROCESSING", "PUBLISHED", "QUARANTINED"}
Terminal     == {"PUBLISHED", "QUARANTINED"}
Answers      == {"ack", "transient", "permanent"}

TypeOK ==
    /\ status \in [Rows -> OutboxStatus \cup {"ABSENT"}]
    /\ owner \in [Rows -> Relays \cup {NoRelay}]
    /\ lease \in [Rows -> {"none", "held", "lapsed"}]
    /\ attempts \in [Rows -> Nat]
    /\ due \in [Rows -> BOOLEAN]
    /\ publishedAt \in [Rows -> BOOLEAN]
    /\ pc \in [Relays -> {"idle", "recovered", "publishing", "answered", "down"}]
    /\ batch \in [Relays -> SUBSET Rows]
    /\ snapshot \in [Relays -> [Rows -> Nat]]
    /\ current \in [Relays -> Rows \cup {NoRow}]
    /\ answer \in [Relays -> Answers \cup {"none"}]
    /\ copies \in [Rows -> Nat]
    /\ window \in SUBSET Rows
    /\ crashes \in 0..MaxCrashes
    /\ lapses \in 0..MaxLapses

Init ==
    /\ status = [r \in Rows |-> "ABSENT"]
    /\ owner = [r \in Rows |-> NoRelay]
    /\ lease = [r \in Rows |-> "none"]
    /\ attempts = [r \in Rows |-> 0]
    /\ due = [r \in Rows |-> FALSE]
    /\ publishedAt = [r \in Rows |-> FALSE]
    /\ pc = [p \in Relays |-> "idle"]
    /\ batch = [p \in Relays |-> {}]
    /\ snapshot = [p \in Relays |-> [r \in Rows |-> 0]]
    /\ current = [p \in Relays |-> NoRow]
    /\ answer = [p \in Relays |-> "none"]
    /\ copies = [r \in Rows |-> 0]
    /\ window = {}
    /\ crashes = 0
    /\ lapses = 0

-----------------------------------------------------------------------------
(* The domain transaction that inserts the row commits. *)
InsertOutbox(r) ==
    /\ status[r] = "ABSENT"
    /\ status' = [status EXCEPT ![r] = "PENDING"]
    /\ due' = [due EXCEPT ![r] = TRUE]
    /\ UNCHANGED <<owner, lease, attempts, publishedAt, relayVars, broker,
                   crashes, lapses>>

(* Mutated forms of Stale: claims recovered whatever their lease says, and  *)
(* only claims whose lease column is NULL recovered.                        *)
MutStaleAnyLease == {r \in Rows : status[r] = "PROCESSING"}
MutStaleNullLease == {r \in Rows : status[r] = "PROCESSING" /\ lease[r] = "none"}

(* recover_stale_processing: one UPDATE over every expired claim. *)
Stale == {r \in Rows : status[r] = "PROCESSING" /\ lease[r] = "lapsed"}

RecoverStale(p) ==
    /\ pc[p] = "idle"
    /\ pc' = [pc EXCEPT ![p] = "recovered"]
    /\ status' = [r \in Rows |-> IF r \in Stale THEN "PENDING" ELSE status[r]]
    /\ owner' = [r \in Rows |-> IF r \in Stale THEN NoRelay ELSE owner[r]]
    /\ lease' = [r \in Rows |-> IF r \in Stale THEN "none" ELSE lease[r]]
    /\ due' = [r \in Rows |-> r \in Stale \/ due[r]]
    /\ UNCHANGED <<attempts, publishedAt, batch, snapshot, current, answer,
                   broker, crashes, lapses>>

(* Mutated form of Claimable: any due row that nobody is processing. *)
MutClaimableByDue == {r \in Rows : status[r] \notin {"ABSENT", "PROCESSING"} /\ due[r]}

(* Mutated form of CountAttempt: a claim does not count as an attempt. *)
MutCountNothing(S) == attempts

CountAttempt(S) == [r \in Rows |-> IF r \in S THEN attempts[r] + 1 ELSE attempts[r]]

(* claim_batch: FOR UPDATE SKIP LOCKED makes the claim one atomic step.  The *)
(* rows are taken in the order of next_attempt_at, which the model leaves    *)
(* open: any batch of the right size may be claimed.                         *)
Claimable == {r \in Rows : status[r] = "PENDING" /\ due[r]}

IsBatch(S) ==
    /\ S \subseteq Claimable
    /\ S # {}
    /\ \/ Cardinality(S) = BatchSize
       \/ Cardinality(S) < BatchSize /\ S = Claimable

ClaimBatch(p) ==
    /\ pc[p] = "recovered"
    /\ \E S \in SUBSET Rows :
          /\ IsBatch(S)
          /\ status' = [r \in Rows |-> IF r \in S THEN "PROCESSING" ELSE status[r]]
          /\ owner' = [r \in Rows |-> IF r \in S THEN p ELSE owner[r]]
          /\ lease' = [r \in Rows |-> IF r \in S THEN "held" ELSE lease[r]]
          /\ attempts' = CountAttempt(S)
          /\ batch' = [batch EXCEPT ![p] = S]
    /\ snapshot' = [snapshot EXCEPT ![p] = attempts']
    /\ pc' = [pc EXCEPT ![p] = "publishing"]
    /\ UNCHANGED <<due, publishedAt, current, answer, broker, crashes, lapses>>

(* No row is due: publish_pending returns an idle outcome. *)
ClaimNothing(p) ==
    /\ pc[p] = "recovered"
    /\ Claimable = {}
    /\ pc' = [pc EXCEPT ![p] = "idle"]
    /\ UNCHANGED <<rowVars, batch, snapshot, current, answer, broker, crashes,
                   lapses>>

(* What one publish call may do: store the event or not, and what the       *)
(* adapter reports.  A stored event whose ack is lost is reported as        *)
(* transient; one stored in an unexpected stream as permanent.              *)
Outcomes == [stored : BOOLEAN, answer : Answers] 
                \ {[stored |-> FALSE, answer |-> "ack"]}

Publish(p) ==
    /\ pc[p] = "publishing"
    /\ \E r \in batch[p], o \in Outcomes :
          /\ current' = [current EXCEPT ![p] = r]
          /\ answer' = [answer EXCEPT ![p] = o.answer]
          /\ IF o.stored
             THEN /\ window' = window \cup {r}
                  /\ copies' = [copies EXCEPT
                        ![r] = IF r \in window THEN @ ELSE @ + 1]
             ELSE UNCHANGED broker
    /\ pc' = [pc EXCEPT ![p] = "answered"]
    /\ UNCHANGED <<rowVars, batch, snapshot, crashes, lapses>>

(* should_quarantine and decide_outbox_publish_result, on the claimed       *)
(* snapshot of the row and not on the row as it is now.                     *)
ShouldQuarantine(a, n) == a = "permanent" \/ (MaxAttempts > 0 /\ n >= MaxAttempts)

(* Mutated form of Decision: a lost ack taken for a published event. *)
MutDecisionOptimistic(a, n) == IF a = "permanent" THEN "QUARANTINED" ELSE "PUBLISHED"

Decision(a, n) ==
    IF a = "ack" THEN "PUBLISHED"
    ELSE IF ShouldQuarantine(a, n) THEN "QUARANTINED" ELSE "PENDING"

(* apply_publish_decision: the row is read by id and overwritten; neither   *)
(* its status nor its owner nor its lease is looked at.                     *)
ApplyDecision(p) ==
    /\ pc[p] = "answered"
    /\ LET r == current[p]
           d == Decision(answer[p], snapshot[p][r])
       IN  /\ status' = [status EXCEPT ![r] = d]
           /\ owner' = [owner EXCEPT ![r] = NoRelay]
           /\ lease' = [lease EXCEPT ![r] = "none"]
           /\ due' = [due EXCEPT ![r] = d # "PENDING"]
           /\ publishedAt' = [publishedAt EXCEPT ![r] = @ \/ d = "PUBLISHED"]
           /\ batch' = [batch EXCEPT ![p] = @ \ {r}]
           /\ pc' = [pc EXCEPT ![p] = IF batch[p] \ {r} = {} THEN "idle"
                                      ELSE "publishing"]
    /\ current' = [current EXCEPT ![p] = NoRow]
    /\ answer' = [answer EXCEPT ![p] = "none"]
    /\ UNCHANGED <<attempts, snapshot, broker, crashes, lapses>>

-----------------------------------------------------------------------------
(* The environment: time, failures. *)

(* next_attempt_at of a retried row passes. *)
BackoffElapses(r) ==
    /\ status[r] = "PENDING"
    /\ ~due[r]
    /\ due' = [due EXCEPT ![r] = TRUE]
    /\ UNCHANGED <<status, owner, lease, attempts, publishedAt, relayVars,
                   broker, crashes, lapses>>

Working(r) == \E p \in Relays : owner[r] = p /\ r \in batch[p]

(* processing_until passes although the owner has not written its decision. *)
LeaseLapsesUnderOwner(r) ==
    /\ lease[r] = "held"
    /\ Working(r)
    /\ lapses < MaxLapses
    /\ lapses' = lapses + 1
    /\ lease' = [lease EXCEPT ![r] = "lapsed"]
    /\ UNCHANGED <<status, owner, attempts, due, publishedAt, relayVars,
                   broker, crashes>>

(* processing_until passes after the owner crashed. *)
LeaseLapsesAbandoned(r) ==
    /\ lease[r] = "held"
    /\ ~Working(r)
    /\ lease' = [lease EXCEPT ![r] = "lapsed"]
    /\ UNCHANGED <<status, owner, attempts, due, publishedAt, relayVars,
                   broker, crashes, lapses>>

(* The broker forgets the Nats-Msg-Id of an event. *)
WindowCloses(r) ==
    /\ r \in window
    /\ window' = window \ {r}
    /\ UNCHANGED <<rowVars, relayVars, copies, crashes, lapses>>

(* A relay process dies, or an exception leaves run_until_stopped. *)
Crash(p) ==
    /\ pc[p] # "down"
    /\ crashes < MaxCrashes
    /\ crashes' = crashes + 1
    /\ pc' = [pc EXCEPT ![p] = "down"]
    /\ batch' = [batch EXCEPT ![p] = {}]
    /\ current' = [current EXCEPT ![p] = NoRow]
    /\ answer' = [answer EXCEPT ![p] = "none"]
    /\ UNCHANGED <<rowVars, snapshot, broker, lapses>>

(* The container runtime starts the relay again. *)
Restart(p) ==
    /\ pc[p] = "down"
    /\ pc' = [pc EXCEPT ![p] = "idle"]
    /\ UNCHANGED <<rowVars, batch, snapshot, current, answer, broker, crashes,
                   lapses>>

RelayStep(p) == \/ RecoverStale(p)
                \/ ClaimBatch(p)
                \/ ClaimNothing(p)
                \/ Publish(p)
                \/ ApplyDecision(p)

Next ==
    \/ \E p \in Relays : RelayStep(p) \/ Crash(p) \/ Restart(p)
    \/ \E r \in Rows : \/ InsertOutbox(r)
                       \/ BackoffElapses(r)
                       \/ LeaseLapsesUnderOwner(r)
                       \/ LeaseLapsesAbandoned(r)
                       \/ WindowCloses(r)

Spec == Init /\ [][Next]_vars

(* Relays keep looping (run_until_stopped), are restarted after a crash, and *)
(* time passes.  Nothing is assumed of the broker, of crashes, of slow       *)
(* batches or of the duplicate window.                                       *)
Fairness ==
    /\ \A p \in Relays : WF_vars(RelayStep(p)) /\ WF_vars(Restart(p))
    /\ \A r \in Rows : WF_vars(BackoffElapses(r)) /\ WF_vars(LeaseLapsesAbandoned(r))

FairSpec == Spec /\ Fairness

-----------------------------------------------------------------------------
(* Properties *)

(* A row marked published has really been stored by the broker: no crash,  *)
(* lost ack, stale lease or late decision of apply_publish_decision makes   *)
(* the relay forget an event it has not delivered.                          *)
PublishedIsInStream ==
    \A r \in Rows : (status[r] = "PUBLISHED" \/ publishedAt[r]) => copies[r] >= 1

(* Every copy the stream holds was paid for by a claim: attempt_count is    *)
(* incremented before the broker call, so operators can trust it as a bound *)
(* on duplicates even across crashes and after the duplicate window closed. *)
CopiesWithinAttempts == \A r \in Rows : copies[r] <= attempts[r]

(* As long as no lease lapsed under a working owner, two replicas never     *)
(* hold the same row (the claim of claim_batch is exclusive even with       *)
(* crashed replicas whose rows are recovered).                              *)
ExclusiveUnlessLapsed ==
    lapses = 0 => \A p, q \in Relays : p # q => batch[p] \cap batch[q] = {}

(* ... and then a published or quarantined row is never taken back.         *)
TerminalUnlessLapsed ==
    [][lapses' = 0 => \A r \in Rows :
          status[r] \in Terminal => status'[r] = status[r]]_vars

(* Every committed event is eventually published or quarantined for good.   *)
EventuallySettled ==
    \A r \in Rows : (status[r] # "ABSENT") ~> [](status[r] \in Terminal)

=============================================================================
