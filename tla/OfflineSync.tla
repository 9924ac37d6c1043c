------------------------------ MODULE OfflineSync ------------------------------
(***************************************************************************)
(* Work captured without a network.  A device downloads one task under an  *)
(* authorization, numbers its captures, and sends them in batches.  What   *)
(* is in order and in scope is applied through the services that serve     *)
(* online requests; everything else is preserved, as an event and a case   *)
(* for operations.                                                         *)
(*                                                                         *)
(* A sync locks the authorization, so the syncs of one authorization run   *)
(* one after another and each is one step.  Its writes of the task are     *)
(* buffered and carried out at the commit, under the version the task had  *)
(* before the last of them.                                                *)
(*                                                                         *)
(* Abstractions.  One authorization of one task.  A submission with a flaw *)
(* fails a check that depends on nothing but itself and the authorization: *)
(* REJECTED for a wrong fingerprint or an operation outside the token,     *)
(* CASE for a wrong resource or capture time.  Two submissions have one    *)
(* fingerprint when they are equal.                                        *)
(***************************************************************************)
EXTENDS Naturals, FiniteSets, SequencesExt

CONSTANTS
    Streams,      \* capture streams of the device
    Operations,   \* operation ids
    Sequences,    \* positions in a stream, 1 .. n
    Batches,      \* sequences of submissions the device may send together
    MaxRevision,  \* bound on the revision of the assignment
    None

VARIABLES
    authorization, \* LIVE, REVOKED, or OVER after the sync deadline
    task,          \* the row of the task
    last,          \* last_contiguous_sequence of each stream
    event,         \* per stream and sequence: the preserved capture, or None
    case,          \* per stream and sequence: the latest case about it
    answer         \* what the device was told last

vars == <<authorization, task, last, event, case, answer>>

-----------------------------------------------------------------------------
\* The field operations, by the rank of the status they lead to.
Rank == [ARRIVE |-> 1, SCAN |-> 2, CAPTURE_PROOF |-> 3]

Flaws == {None, "REJECTED", "CASE"}

Submission == [id: Operations, sequence: Sequences, operation: DOMAIN Rank, flaw: Flaws]

\* REFUSED stands for every outcome code but these two.
EventRow == [capture: Submission,
             status: {"APPLIED", "RECONCILIATION_REQUIRED", "REJECTED"},
             code: {"APPLIED", "SEQUENCE_GAP", "REFUSED"}]

TaskRow == [rank: 0 .. 3, closed: BOOLEAN, revision: 1 .. MaxRevision]

Init ==
    /\ authorization = "LIVE"
    /\ task = [rank |-> 0, closed |-> FALSE, revision |-> 1]
    /\ last = [s \in Streams |-> 0]
    /\ event = [s \in Streams |-> [n \in Sequences |-> None]]
    /\ case = [s \in Streams |-> [n \in Sequences |-> None]]
    /\ answer = None

-----------------------------------------------------------------------------
(* One submission, on the state a sync works on *)

Work == [task |-> task, writes |-> 0, last |-> last, event |-> event, case |-> case]

\* find_by_operation_id: an operation id is unique for the driver.
Known(w, id) ==
    {at \in Streams \X Sequences :
        w.event[at[1]][at[2]] # None /\ w.event[at[1]][at[2]].capture.id = id}

\* A conflict is attached to the open case of the event, or opens one.
Conflict(w, at) == [w EXCEPT !.case[at[1]][at[2]] = "OPEN"]

\* _validate, and what it finds wrong: the order is checked first.
Issue(w, s, sub) ==
    IF sub.sequence # w.last[s] + 1 THEN "SEQUENCE_GAP"
    ELSE IF sub.flaw # None         THEN sub.flaw
    ELSE IF w.task.revision # 1     THEN "CASE"
    ELSE None

Preserve(w, s, sub, status, code) ==
    [w EXCEPT !.event[s][sub.sequence] = [capture |-> sub, status |-> status, code |-> code],
              !.case[s][sub.sequence] = IF status = "RECONCILIATION_REQUIRED" THEN "OPEN" ELSE @]

\* A capture with an issue still fills its place, unless it came early.
PreserveIssue(w, s, sub, issue) ==
    LET status == IF issue = "REJECTED" THEN "REJECTED" ELSE "RECONCILIATION_REQUIRED"
        kept   == Preserve(w, s, sub, status,
                           IF issue = "SEQUENCE_GAP" THEN "SEQUENCE_GAP" ELSE "REFUSED")
    IN  IF sub.sequence = w.last[s] + 1 THEN [kept EXCEPT !.last[s] = sub.sequence] ELSE kept

(* Mutated form of Replay: only what was applied fills its place. *)
MutReplay(w, s, sub) ==
    IF w.task.closed \/ Rank[sub.operation] > w.task.rank + 1
    THEN Preserve(w, s, sub, "RECONCILIATION_REQUIRED", "REFUSED")
    ELSE [Preserve(w, s, sub, "APPLIED", "APPLIED") EXCEPT
             !.last[s] = sub.sequence,
             !.task.rank = IF Rank[sub.operation] > @ THEN @ + 1 ELSE @,
             !.writes = IF Rank[sub.operation] > w.task.rank THEN @ + 1 ELSE @]

\* Dispatched in a savepoint: the next status is a write, a status already
\* reached is a replay, and whatever else the service refuses is preserved.
Replay(w, s, sub) ==
    LET to   == Rank[sub.operation]
        done == [w EXCEPT !.last[s] = sub.sequence]
    IN  CASE w.task.closed \/ to > w.task.rank + 1 ->
                Preserve(done, s, sub, "RECONCILIATION_REQUIRED", "REFUSED")
          [] ~w.task.closed /\ to = w.task.rank + 1 ->
                [Preserve(done, s, sub, "APPLIED", "APPLIED") EXCEPT
                    !.task.rank = to, !.writes = @ + 1]
          [] OTHER -> Preserve(done, s, sub, "APPLIED", "APPLIED")

\* An early capture is taken up again when its turn has come and nobody has
\* resolved its case.
Resumable(w, s, at) ==
    /\ at[1] = s /\ w.event[s][at[2]].code = "SEQUENCE_GAP"
    /\ at[2] = w.last[s] + 1
    /\ w.case[s][at[2]] = "OPEN"

\* Applied, it resolves its case; else the case has a new reason.
Resume(w, s, sub) ==
    LET next == Replay(w, s, sub)
    IN  IF next.event[s][sub.sequence].status = "APPLIED"
        THEN [next EXCEPT !.case[s][sub.sequence] = "RESOLVED"]
        ELSE next

\* The same capture again: taken up, or answered with what is stored.
Resend(w, s, sub, at) ==
    IF Resumable(w, s, at) /\ Issue(w, s, sub) = None THEN Resume(w, s, sub) ELSE w

HandleKnown(w, s, sub) ==
    LET at == CHOOSE at \in Known(w, sub.id) : TRUE
    IN  IF w.event[at[1]][at[2]].capture # sub THEN Conflict(w, at) ELSE Resend(w, s, sub, at)

(* Mutated form of HandleNew: a place that is taken is not looked up. *)
MutHandleNew(w, s, sub) ==
    IF Issue(w, s, sub) # None THEN PreserveIssue(w, s, sub, Issue(w, s, sub))
    ELSE Replay(w, s, sub)

HandleNew(w, s, sub) ==
    CASE w.event[s][sub.sequence] # None -> Conflict(w, <<s, sub.sequence>>)
      [] w.event[s][sub.sequence] = None /\ Issue(w, s, sub) # None ->
            PreserveIssue(w, s, sub, Issue(w, s, sub))
      [] OTHER -> Replay(w, s, sub)

ProcessSubmission(w, s, sub) ==
    IF Known(w, sub.id) # {} THEN HandleKnown(w, s, sub) ELSE HandleNew(w, s, sub)

-----------------------------------------------------------------------------
(* Requests *)

Processed(s, batch) ==
    FoldLeft(LAMBDA w, sub : ProcessSubmission(w, s, sub), Work, batch)

\* The buffered task is written under the version before the last write, which
\* is the version in the database only if it was written once.
CommitsTask(w) == w.writes <= 1

Sync(s, batch) ==
    LET w == Processed(s, batch)
    IN  /\ authorization = "LIVE"
        /\ IF CommitsTask(w)
           THEN /\ task' = w.task /\ last' = w.last
                /\ event' = w.event /\ case' = w.case
                /\ answer' = "OUTCOMES"
           ELSE /\ answer' = "STALE_VERSION"
                /\ UNCHANGED <<task, last, event, case>>
        /\ UNCHANGED authorization

ResolveCase(s, n) ==
    /\ case[s][n] = "OPEN"
    /\ case' = [case EXCEPT ![s][n] = "RESOLVED"]
    /\ UNCHANGED <<authorization, task, last, event, answer>>

RevokeAuthorization ==
    /\ authorization = "LIVE"
    /\ authorization' = "REVOKED"
    /\ UNCHANGED <<task, last, event, case, answer>>

DeadlinePasses ==
    /\ authorization = "LIVE"
    /\ authorization' = "OVER"
    /\ UNCHANGED <<task, last, event, case, answer>>

\* The task moves on online: by this driver, by a reassignment, by being closed.
AdvanceOnline ==
    /\ task.rank < 3 /\ ~task.closed
    /\ task' = [task EXCEPT !.rank = @ + 1]
    /\ UNCHANGED <<authorization, last, event, case, answer>>

Reassign ==
    /\ task.revision < MaxRevision /\ ~task.closed
    /\ task' = [task EXCEPT !.revision = @ + 1]
    /\ UNCHANGED <<authorization, last, event, case, answer>>

CloseTask ==
    /\ ~task.closed
    /\ task' = [task EXCEPT !.closed = TRUE]
    /\ UNCHANGED <<authorization, last, event, case, answer>>

-----------------------------------------------------------------------------
Next ==
    \/ \E s \in Streams, batch \in Batches : Sync(s, batch)
    \/ \E s \in Streams, n \in Sequences : ResolveCase(s, n)
    \/ RevokeAuthorization \/ DeadlinePasses
    \/ AdvanceOnline \/ Reassign \/ CloseTask

Spec == Init /\ [][Next]_vars

-----------------------------------------------------------------------------
(* Properties *)

\* Every variable keeps the shape of its table.
TypeOK ==
    /\ authorization \in {"LIVE", "REVOKED", "OVER"}
    /\ task \in TaskRow
    /\ last \in [Streams -> Sequences \cup {0}]
    /\ event \in [Streams -> [Sequences -> EventRow \cup {None}]]
    /\ case \in [Streams -> [Sequences -> {"OPEN", "RESOLVED", None}]]
    /\ answer \in {"OUTCOMES", "STALE_VERSION", None}

Captured(s, n) == event[s][n] # None

\* A stream is what its position says: every place up to it is filled with a
\* capture that had its turn, every capture behind it came early, each
\* operation has one event, what is left to reconcile has a case, and no
\* capture was applied before the work of an earlier one was reached.
StreamsKeepTheirOrder ==
    /\ \A s \in Streams, n \in Sequences :
          /\ n <= last[s] => Captured(s, n)
          /\ Captured(s, n) =>
                /\ event[s][n].code = "SEQUENCE_GAP" <=> n > last[s]
                /\ event[s][n].status = "RECONCILIATION_REQUIRED" => case[s][n] # None
                /\ event[s][n].status = "APPLIED" => Rank[event[s][n].capture.operation] <= task.rank
    /\ \A id \in Operations :
          Cardinality({at \in Streams \X Sequences :
                          Captured(at[1], at[2]) /\ event[at[1]][at[2]].capture.id = id}) <= 1

\* What the server made of a capture is final, whatever is sent again or
\* conflicts with it later: only a capture that came early can still change,
\* when its turn comes.  No event is lost, no stream goes back, and no case
\* disappears.
OutcomesAreFinal ==
    [][\A s \in Streams, n \in Sequences :
          /\ last'[s] >= last[s]
          /\ Captured(s, n) =>
                \/ event'[s][n] = event[s][n]
                \/ /\ event[s][n].code = "SEQUENCE_GAP" /\ last[s] < n /\ n <= last'[s]
                   /\ event'[s][n].capture = event[s][n].capture
          /\ case[s][n] # None => case'[s][n] # None]_vars

\* "an entire offline batch replays under the one revision": a batch is
\* answered, not refused for a version nobody else has changed.
BatchesAreAnswered == answer # "STALE_VERSION"
=============================================================================
