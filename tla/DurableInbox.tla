----------------------------- MODULE DurableInbox -----------------------------
(***************************************************************************)
(* The transactional inbox that seven services share, here in front of the *)
(* finance ledger: the record of an event and what its handler did commit  *)
(* together.  A handler that raises is caught, so what it staged before is *)
(* committed with the record of its failure; a redelivery runs it again.   *)
(*                                                                         *)
(* Abstractions.  One event at one consumer: others never meet it.  A      *)
(* handler stages two effects that no key of their own protects.  No run   *)
(* leaves a record in PROCESSING: it is settled in the transaction that    *)
(* wrote it, so leases and quarantine are never met.  No service binds the *)
(* inbox to the broker yet; deliveries repeat until one is acknowledged.   *)
(***************************************************************************)
EXTENDS Naturals

CONSTANTS
    Workers,    \* deliveries in flight
    None,
    MaxRuns     \* bound on the handler's runs that commit

VARIABLES
    record,     \* the inbox row, or None
    first,      \* committed effects of the handler's first half
    second,     \* and of its second
    delivery,   \* of each worker: the row it found and its answer, or None
    acked,
    failures    \* history: runs whose failure was committed

vars == <<record, first, second, delivery, acked, failures>>

-----------------------------------------------------------------------------
InboxRow == [status: {"PROCESSED", "FAILED"}, attempts: 1 .. 2 * MaxRuns]

Init ==
    /\ record = None
    /\ first = 0 /\ second = 0
    /\ delivery = [w \in Workers |-> None]
    /\ acked = FALSE
    /\ failures = 0

Answer(w, action) == delivery' = [delivery EXCEPT ![w].answer = action]

Handling(w) == delivery[w] # None /\ delivery[w].answer = None

\* find
Deliver(w) ==
    /\ delivery[w] = None /\ ~acked
    /\ delivery' = [delivery EXCEPT ![w] = [found |-> record, answer |-> None]]
    /\ UNCHANGED <<record, first, second, acked, failures>>

\* decide_inbox_duplicate_delivery, for the rows that are ever committed.
RerunHandler(found) == found.status = "FAILED"

AnswerDuplicate(w) ==
    /\ Handling(w) /\ delivery[w].found # None /\ ~RerunHandler(delivery[w].found)
    /\ Answer(w, "ACK")
    /\ UNCHANGED <<record, first, second, acked, failures>>

(* Mutated form of CanWrite: no key makes the event unique. *)
MutCanWrite(w) == TRUE

\* uq_finance_inbox_consumer_event; an update names no version.
CanWrite(w) == delivery[w].found = None => record = None

Settled(w, status) ==
    LET found == delivery[w].found
    IN  [status |-> status, attempts |-> IF found = None THEN 1 ELSE found.attempts + 1]

Run(w, status) ==
    /\ Handling(w) /\ first < MaxRuns
    /\ delivery[w].found # None => RerunHandler(delivery[w].found)
    /\ CanWrite(w)
    /\ record' = Settled(w, status)

RunSucceeds(w) ==
    /\ Run(w, "PROCESSED")
    /\ first' = first + 1 /\ second' = second + 1
    /\ Answer(w, "ACK")
    /\ UNCHANGED <<acked, failures>>

\* The handler raises before its first effect, or between the two.
RunFails(w, torn) ==
    /\ Run(w, "FAILED") /\ failures < MaxRuns
    /\ first' = IF torn THEN first + 1 ELSE first
    /\ failures' = failures + 1
    /\ Answer(w, "NAK")
    /\ UNCHANGED <<second, acked>>

\* Refused by the unique key, or the process died: nothing was committed.
RollBack(w) ==
    /\ Handling(w)
    /\ delivery' = [delivery EXCEPT ![w] = None]
    /\ UNCHANGED <<record, first, second, acked, failures>>

\* The answer reaches the broker, or is lost.
Respond(w, lost) ==
    /\ delivery[w] # None /\ delivery[w].answer # None
    /\ acked' = (acked \/ (delivery[w].answer = "ACK" /\ ~lost))
    /\ delivery' = [delivery EXCEPT ![w] = None]
    /\ UNCHANGED <<record, first, second, failures>>

Next ==
    \E w \in Workers :
        \/ Deliver(w) \/ AnswerDuplicate(w) \/ RunSucceeds(w) \/ RollBack(w)
        \/ \E torn \in BOOLEAN : RunFails(w, torn)
        \/ \E lost \in BOOLEAN : Respond(w, lost)

Spec == Init /\ [][Next]_vars

-----------------------------------------------------------------------------
(* Properties *)

\* Every variable keeps the shape of its table.
TypeOK ==
    /\ record \in InboxRow \cup {None}
    /\ first \in 0 .. MaxRuns /\ second \in 0 .. MaxRuns
    /\ \A w \in Workers : delivery[w] # None =>
          /\ delivery[w].found \in InboxRow \cup {None}
          /\ delivery[w].answer \in {None, "ACK", "NAK"}
    /\ acked \in BOOLEAN
    /\ failures \in 0 .. MaxRuns

\* However often an event is delivered, and at once, it takes effect only with
\* its record; only an event that failed before can take effect twice or be
\* left half done; and none is acknowledged that did not take effect.
EffectsTellTheRecord ==
    /\ record = None => first = 0 /\ second = 0
    /\ failures = 0 => first = second /\ second <= 1
    /\ second <= first /\ first <= second + failures
    /\ record # None /\ (record.status = "PROCESSED" \/ acked) => second >= 1
=============================================================================
