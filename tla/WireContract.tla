---------------------------- MODULE WireContract -----------------------------
(***************************************************************************)
(* What a producer puts on the wire and what its consumer makes of it.     *)
(* Pickup builds a fact of an acceptance or of a receipt at a hub and      *)
(* enqueues it only if it holds against its schema; the legacy bridge maps *)
(* a row as it finds it.  The relay publishes what was enqueued: pickup's  *)
(* checks each row again, against the schema of an acceptance, whatever it *)
(* is, and quarantines what fails; the bridge's checks nothing.  A         *)
(* consumer parses the envelope by its own policy and checks the message   *)
(* field by field before it touches a row.  The sides are written apart    *)
(* and meet only in the registry.                                          *)
(*                                                                         *)
(* Abstractions.  One message.  Texts that both sides require are one      *)
(* text; so are identifiers that are unique by construction.  No route     *)
(* passes a trace on, so that only producers of a later release do.        *)
(***************************************************************************)
EXTENDS Naturals

CONSTANT None

VARIABLES
    request, \* what pickup was asked to record, or the row the bridge landed
    row,     \* the outbox row, the refusal of its producer to write one, or None yet
    letter,  \* the message, the refusal of the relay to send it, or None yet
    read     \* by whom it was read and what it read, or None

vars == <<request, row, letter, read>>

-----------------------------------------------------------------------------
(* Requests and rows *)

Reasons == {"MISSING_FROM_DRIVER", "DAMAGED_AT_HANDOVER", "WRONG_HUB_RECEIVED", "OTHER"}

ReleasingReasons == Reasons \ {"MISSING_FROM_DRIVER"}

Acceptances == [type: {"accepted"}, exception: BOOLEAN, media: BOOLEAN, blankScan: BOOLEAN]

Receipts == [type: {"handover"}, planned: BOOLEAN, reason: Reasons \cup {None},
             media: BOOLEAN, byDriver: BOOLEAN]

\* text: of the fields that must be there; stamp: how the row gives its time.
Rows == [type: {"timeline", "audit"}, system: {"legacy", "other"},
         text: {"full", "blank", "missing"}, stamp: {"Z", "offset", "naive"},
         actorType: BOOLEAN, actorId: BOOLEAN, metadata: {"none", "clean", "secret", "large"}]

Init ==
    /\ request \in Acceptances \cup Receipts \cup Rows
    /\ row = None /\ letter = None /\ read = None

-----------------------------------------------------------------------------
(* Producers *)

\* EventEnvelope as this release writes it.
Envelope(body) ==
    [type |-> request.type, body |-> body, version |-> 1, unknown |-> FALSE, trace |-> None]

Refusal == [type |-> None]

Enqueued == row \notin {None, Refusal}

Enqueue(body, holds) ==
    /\ row = None
    /\ row' = IF holds THEN Envelope(body) ELSE Refusal
    /\ UNCHANGED <<request, letter, read>>

AcceptedBody == [exception |-> request.exception, media |-> request.media,
                 scan |-> ~request.blankScan]

\* build_accepted_fact_envelope
BuildAccepted ==
    /\ request.type = "accepted"
    /\ Enqueue(AcceptedBody, AcceptedBody.scan /\ (request.exception => request.media))

(* Mutated form of ResolveDiscrepancy: only what the clerk declares. *)
MutResolveDiscrepancy ==
    IF request.reason \in ReleasingReasons THEN request.reason ELSE None

\* Received at another hub than planned is a discrepancy, declared or not.
ResolveDiscrepancy ==
    IF request.reason \in ReleasingReasons THEN request.reason
    ELSE IF request.planned THEN None ELSE "WRONG_HUB_RECEIVED"

HandoverBody == [reason |-> ResolveDiscrepancy, media |-> request.media,
                 byDriver |-> request.byDriver]

(* Mutated form of BuildHandover: a disputed parcel needs no photo. *)
MutBuildHandover ==
    /\ request.type = "handover"
    /\ Enqueue(HandoverBody, request.reason # "MISSING_FROM_DRIVER" /\ ~request.byDriver)

\* _enqueue_handover_fact
BuildHandover ==
    /\ request.type = "handover"
    /\ Enqueue(HandoverBody, /\ request.reason # "MISSING_FROM_DRIVER" /\ ~request.byDriver
                             /\ HandoverBody.reason # None => request.media)

RowBody == [system |-> request.system, text |-> request.text, stamp |-> request.stamp,
            actorType |-> request.actorType, actorId |-> request.actorId,
            metadata |-> request.metadata]

\* A field that is missing, or a time without a zone, cannot be mapped; nothing
\* else is looked at.
MapRow ==
    /\ request.type \in {"timeline", "audit"}
    /\ Enqueue(RowBody, /\ request.text # "missing" /\ request.stamp # "naive"
                        /\ request.type = "audit" => request.actorType)

-----------------------------------------------------------------------------
(* Relays *)

Sent == letter \notin {None, Refusal}

\* JetStreamPublisherAdapter.publish: pickup's validates every row as an
\* acceptance, and one that fails (ENVELOPE_INVALID) is quarantined.
RelayTakes ==
    row.type \in {"accepted", "handover"} =>
        /\ row.type = "accepted"
        /\ row.body.scan /\ (row.body.exception => row.body.media)

Publish ==
    /\ Enqueued /\ letter = None
    /\ letter' = IF RelayTakes THEN row ELSE Refusal
    /\ UNCHANGED <<request, row, read>>

\* The same message as a later release writes it: with fields this one does not
\* know, with a trace, or in another envelope.
WriteLater(version, unknown, trace) ==
    /\ Sent /\ read = None
    /\ letter.version = 1 /\ ~letter.unknown /\ letter.trace = None
    /\ letter' = [letter EXCEPT !.version = version, !.unknown = unknown, !.trace = trace]
    /\ UNCHANGED <<request, row, read>>

-----------------------------------------------------------------------------
(* Consumers *)

Consumers == {"accepted", "handover", "timeline", "audit"}

\* CONSUMER_SERDE_POLICY: a trace that is not one is dropped.
NormalizeTrace(trace) == IF trace = "invalid" THEN None ELSE trace

\* validate_pickup_accepted_delivery
AcceptedIsValid(body) == body.scan /\ (body.exception => body.media)

\* validate_pickup_handover_delivery
HandoverIsValid(body) ==
    /\ ~body.byDriver
    /\ body.reason # None => body.reason \in ReleasingReasons /\ body.media

\* What the two observation consumers require alike.
ObservationIsValid(body) ==
    /\ body.system = "legacy" /\ body.text = "full" /\ body.stamp = "Z"
    /\ body.metadata \in {"none", "clean"}

\* validate_a1_delivery
TimelineIsValid(body) == ObservationIsValid(body) /\ (body.actorId => body.actorType)

\* validate_a2_delivery
AuditIsValid(body) == ObservationIsValid(body) /\ body.actorType

IsValid(consumer, body) ==
    CASE consumer = "accepted" -> AcceptedIsValid(body)
      [] consumer = "handover" -> HandoverIsValid(body)
      [] consumer = "timeline" -> TimelineIsValid(body)
      [] consumer = "audit"    -> AuditIsValid(body)

\* Whichever consumer the message reaches; the subject is looked at first.
Consume(consumer) ==
    /\ Sent /\ read = None
    /\ LET taken == /\ letter.version = 1
                    /\ letter.type = consumer
                    /\ IsValid(consumer, letter.body)
       IN  read' = [by |-> consumer, taken |-> taken,
                    body |-> IF taken THEN letter.body ELSE None,
                    trace |-> IF taken THEN NormalizeTrace(letter.trace) ELSE None]
    /\ UNCHANGED <<request, row, letter>>

-----------------------------------------------------------------------------
Next ==
    \/ BuildAccepted \/ BuildHandover \/ MapRow
    \/ Publish
    \/ \E version \in {1, 2}, unknown \in BOOLEAN, trace \in {None, "valid", "invalid"} :
          WriteLater(version, unknown, trace)
    \/ \E consumer \in Consumers : Consume(consumer)

Spec == Init /\ [][Next]_vars

-----------------------------------------------------------------------------
(* Properties *)

\* Every variable keeps its shape.
TypeOK ==
    /\ request \in Acceptances \cup Receipts \cup Rows
    /\ Enqueued => row.type = request.type /\ row.version = 1 /\ ~row.unknown /\ row.trace = None
    /\ Sent =>
          /\ letter.type = request.type /\ letter.version \in 1 .. 2 /\ letter.unknown \in BOOLEAN
          /\ letter.trace \in {None, "valid", "invalid"}
    /\ read # None => read.by \in Consumers /\ read.taken \in BOOLEAN

\* What a row must be for its observation to be taken; the bridge, which does
\* not look, puts the others on the wire to be refused there.
IsClean(landed) ==
    /\ landed.system = "legacy" /\ landed.text = "full" /\ landed.stamp = "Z"
    /\ landed.metadata \notin {"secret", "large"} /\ (landed.actorId => landed.actorType)

\* What a producer refuses to enqueue the consumer would have refused, and what
\* pickup enqueues the consumer would take: with a photo if anything was wrong
\* with the parcel, never as a clean receipt when the hub was another one, and
\* never of a parcel the driver did not have.
ProducersAgree ==
    /\ row = Refusal =>
          CASE request.type = "accepted" -> ~AcceptedIsValid(AcceptedBody)
            [] request.type = "handover" -> \/ ~HandoverIsValid(HandoverBody)
                                            \/ request.reason = "MISSING_FROM_DRIVER"
            [] OTHER -> ~IsValid(request.type, RowBody)
    /\ Enqueued /\ request \notin Rows => IsValid(request.type, row.body)
    /\ Enqueued /\ request \in Acceptances => (request.exception => row.body.media)
    /\ Enqueued /\ request \in Receipts =>
          /\ request.reason # "MISSING_FROM_DRIVER" /\ ~request.byDriver
          /\ row.body.reason = None => request.planned /\ request.reason = None
          /\ row.body.reason # None => row.body.media

\* Of what was enqueued the relay refuses only receipts; what is sent is taken as
\* it was enqueued, and refused only for another envelope, by a consumer it is
\* not meant for, or for what the row of an observation is.
ReadersAgree ==
    /\ letter = Refusal => request \in Receipts
    /\ read # None =>
          IF read.taken
          THEN /\ read.by = request.type /\ read.body = row.body /\ read.trace # "invalid"
               /\ request \in Rows => IsClean(request)
          ELSE \/ read.by # request.type \/ letter.version > 1
               \/ request \in Rows /\ ~IsClean(request)

ContractsMeet == ProducersAgree /\ ReadersAgree

\* A fact of pickup's that was enqueued is not quarantined by the relay that is
\* there to publish it, as a test of the relay's says of every registered fact.
EnqueuedIsPublished == letter # Refusal
=============================================================================
