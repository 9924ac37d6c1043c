----------------------------- MODULE DeliveryStop -----------------------------
(***************************************************************************)
(* The last mile: a driver scans parcels onto a manifest, which takes      *)
(* custody, and each visit to a door ends delivered, refused or failed.    *)
(* The rows of stops carry a version; payments, photos, issue reports and  *)
(* ratings are rows of their own that no version orders against the stop.  *)
(*                                                                         *)
(* Abstractions.  A transaction writes a stop only under the version it    *)
(* read, and what else it reads only ever grows (photos, the one payment), *)
(* so each is one step.  Who asks is left out: a request of another driver *)
(* writes nothing, and a stop never changes drivers.  Hence one manifest,  *)
(* which nothing closes.  Time is left out: a wait that has started, and a *)
(* hold, may be over at any moment.                                        *)
(***************************************************************************)
EXTENDS Naturals, FiniteSets

CONSTANTS
    Parcels,     \* tracking codes
    Stops,       \* stops, numbered in the order they are made
    Terms,       \* what merchants decided about their parcels
    MaxGuesses,  \* DeliveryCodePolicy.max_attempts
    None,
    MaxVersion   \* bound on the version of each stop

VARIABLES
    opened,      \* the driver's manifest has been opened
    stop,        \* the row of each stop, or None
    checked,     \* outcomes in the verification rows of each stop
    photos,      \* stages photographed at each stop
    payment,     \* the method in the payment row of each stop, or None
    failed,      \* what operations decided on each failed attempt, or None
    facts,       \* the outbox: facts about stops
    wished,      \* parcels with a preference of their receiver
    rated,       \* parcels whose courier is rated
    reported     \* parcels with an issue reported

doorstep == <<opened, stop, checked, photos, failed, facts>>
receiver == <<wished, rated, reported>>
vars     == <<doorstep, payment, receiver>>

-----------------------------------------------------------------------------
Closed == {"DELIVERED", "REFUSED", "FAILED"}
Stages == {"BEFORE_OPENING", "AFTER_INSPECTION"}
Inspections == {"SEALED_ACCEPTED", "OPEN_BOX_KEPT", "OPEN_BOX_REFUSED"}
Decisions == {"RETRY", "HOLD_AT_HUB", "RETURN_TO_MERCHANT"}
PaymentMethods == {"PREPAID", "CASH", "POS_CARD"}

ParcelTerms == [seal: BOOLEAN, openBox: BOOLEAN, photos: BOOLEAN,
                cod: BOOLEAN, code: BOOLEAN, named: BOOLEAN]

StopRow == [parcel: Parcels, terms: ParcelTerms,
            status: {"IN_CUSTODY", "EN_ROUTE", "ARRIVED", "WAITING", "AUTHORIZED"} \cup Closed,
            waited: BOOLEAN, verified: BOOLEAN, seal: {"INTACT", "BROKEN", None},
            inspection: Inspections \cup {None}, guesses: 0 .. MaxGuesses,
            version: Nat]

\* STOP_TRANSITIONS
MayBecome(from, to) ==
    to \in (CASE from = "IN_CUSTODY" -> {"EN_ROUTE", "FAILED"}
              [] from = "EN_ROUTE"   -> {"ARRIVED", "FAILED"}
              [] from = "ARRIVED"    -> {"WAITING", "AUTHORIZED", "FAILED", "REFUSED"}
              [] from = "WAITING"    -> {"AUTHORIZED", "FAILED", "REFUSED"}
              [] from = "AUTHORIZED" -> Closed
              [] OTHER               -> {})

Made(s) == stop[s] # None
StopsOf(p) == {s \in Stops : Made(s) /\ stop[s].parcel = p}
LiveStop(p) == {s \in StopsOf(p) : stop[s].status \notin Closed}

Init ==
    /\ opened = FALSE
    /\ stop = [s \in Stops |-> None]
    /\ checked = [s \in Stops |-> {}]
    /\ photos = [s \in Stops |-> {}]
    /\ payment = [s \in Stops |-> None]
    /\ failed = [s \in Stops |-> None]
    /\ facts = {}
    /\ wished = {}
    /\ rated = {}
    /\ reported = {}

\* The stop is written with its next version, as many versions on as it is saved.
Save(s, row, saves) ==
    /\ stop[s].version + saves <= MaxVersion[s]
    /\ stop' = [stop EXCEPT ![s] = [row EXCEPT !.version = @ + saves]]

Announce(s, kind, version) == [stop |-> s, kind |-> kind, version |-> version]

-----------------------------------------------------------------------------
(* The round *)

OpenManifest ==
    /\ ~opened
    /\ opened' = TRUE
    /\ UNCHANGED <<stop, checked, photos, failed, facts, payment, receiver>>

\* The query before the insert; the partial unique index says the same.
NotYetCarried(p) == LiveStop(p) = {}

ScanOntoManifest(s, p, terms) ==
    /\ opened
    /\ 1 <= MaxVersion[s]
    /\ ~Made(s) /\ \A r \in Stops : r < s => Made(r)
    /\ NotYetCarried(p)
    /\ stop' = [stop EXCEPT ![s] =
          [parcel |-> p, terms |-> terms, status |-> "IN_CUSTODY", waited |-> FALSE,
           verified |-> FALSE, seal |-> None, inspection |-> None, guesses |-> 0,
           version |-> 1]]
    /\ UNCHANGED <<opened, checked, photos, failed, facts, payment, receiver>>

AnnounceDeparture(s) ==
    /\ Made(s) /\ MayBecome(stop[s].status, "EN_ROUTE")
    /\ Save(s, [stop[s] EXCEPT !.status = "EN_ROUTE"], 1)
    /\ facts' = facts \cup {Announce(s, "departed", stop[s].version + 1)}
    /\ UNCHANGED <<opened, checked, photos, failed, payment, receiver>>

RecordArrival(s) ==
    /\ Made(s) /\ MayBecome(stop[s].status, "ARRIVED")
    /\ Save(s, [stop[s] EXCEPT !.status = "ARRIVED"], 1)
    /\ UNCHANGED <<opened, checked, photos, failed, facts, payment, receiver>>

StartWait(s) ==
    /\ Made(s) /\ MayBecome(stop[s].status, "WAITING")
    /\ Save(s, [stop[s] EXCEPT !.status = "WAITING", !.waited = TRUE], 1)
    /\ UNCHANGED <<opened, checked, photos, failed, facts, payment, receiver>>

-----------------------------------------------------------------------------
(* At the door *)

AtTheDoor(s) == Made(s) /\ stop[s].status \in {"ARRIVED", "WAITING"}

Authorized(row) == [row EXCEPT !.status = "AUTHORIZED", !.verified = TRUE]

(* Mutated form of MayGuess: the attempts are not counted against the policy. *)
MutMayGuess(s) == stop[s].terms.code

\* DeliveryCodePolicy.max_attempts
MayGuess(s) == stop[s].terms.code /\ stop[s].guesses < MaxGuesses

\* A wrong code is committed too: it uses up one of the attempts.
VerifyWithCode(s, correct) ==
    LET tried == [stop[s] EXCEPT !.guesses = @ + 1]
    IN  /\ AtTheDoor(s)
        /\ MayGuess(s)
        /\ Save(s, IF correct THEN Authorized(tried) ELSE tried, 1)
        /\ checked' = [checked EXCEPT ![s] =
              @ \cup {IF correct THEN "VERIFIED" ELSE "CODE_MISMATCH"}]
        /\ UNCHANGED <<opened, photos, failed, facts, payment, receiver>>

\* A wrong identity leaves a row and no trace on the stop.
VerifyWithId(s, matches) ==
    /\ AtTheDoor(s)
    /\ stop[s].terms.named
    /\ IF matches THEN Save(s, Authorized(stop[s]), 1) ELSE UNCHANGED stop
    /\ checked' = [checked EXCEPT ![s] = @ \cup {IF matches THEN "VERIFIED" ELSE "ID_MISMATCH"}]
    /\ UNCHANGED <<opened, photos, failed, facts, payment, receiver>>

\* At any status, closed ones included; a broken seal is committed and refused.
CheckParcelSeal(s, intact) ==
    /\ Made(s)
    /\ Save(s, [stop[s] EXCEPT !.seal = IF intact THEN "INTACT" ELSE "BROKEN"], 1)
    /\ UNCHANGED <<opened, checked, photos, failed, facts, payment, receiver>>

\* At any status; one photo of each stage.
AttachPhoto(s, stage) ==
    /\ Made(s) /\ stop[s].terms.photos
    /\ stage \notin photos[s]
    /\ photos' = [photos EXCEPT ![s] = @ \cup {stage}]
    /\ UNCHANGED <<opened, stop, checked, failed, facts, payment, receiver>>

SealIsChecked(s) == stop[s].terms.seal => stop[s].seal # None

MayInspect(s, outcome) ==
    /\ outcome # "SEALED_ACCEPTED" =>
          /\ stop[s].terms.openBox
          /\ stop[s].terms.photos => "BEFORE_OPENING" \in photos[s]
    /\ SealIsChecked(s)

RecordInspection(s, outcome) ==
    /\ Made(s) /\ stop[s].status = "AUTHORIZED"
    /\ MayInspect(s, outcome)
    /\ Save(s, [stop[s] EXCEPT !.inspection = outcome], 1)
    /\ UNCHANGED <<opened, checked, photos, failed, facts, payment, receiver>>

-----------------------------------------------------------------------------
(* Payment: no status is looked at, and the stop's version stays. *)

Unpaid(s) == Made(s) /\ payment[s] = None

ConfirmPrepaid(s) ==
    /\ Unpaid(s) /\ ~stop[s].terms.cod
    /\ payment' = [payment EXCEPT ![s] = "PREPAID"]
    /\ UNCHANGED <<doorstep, receiver>>

\* A declined card writes nothing, so cash can still be collected.
Collect(s, method) ==
    /\ Unpaid(s) /\ stop[s].terms.cod
    /\ payment' = [payment EXCEPT ![s] = method]
    /\ UNCHANGED <<doorstep, receiver>>

CollectCash(s) == Collect(s, "CASH")

\* With a reference or a receipt of the terminal.
RecordCardApproval(s) == Collect(s, "POS_CARD")

-----------------------------------------------------------------------------
(* How a visit ends *)

(* Mutated form of PaymentSatisfies: a parcel may be paid for later. *)
MutPaymentSatisfies(s) == TRUE

PaymentSatisfies(s) == stop[s].terms.cod => payment[s] \in {"CASH", "POS_CARD"}

\* A broken seal, or a box refused after opening, is not looked at here.
ReadyForPayment(s) ==
    /\ stop[s].status = "AUTHORIZED"
    /\ SealIsChecked(s)
    /\ stop[s].inspection # None
    /\ stop[s].inspection = "OPEN_BOX_KEPT" /\ stop[s].terms.photos =>
          "AFTER_INSPECTION" \in photos[s]

(* Mutated form of FactsOfHandover: both facts carry one version. *)
MutFactsOfHandover(s, collected) ==
    {Announce(s, "delivered", stop[s].version + 1)}
    \cup IF collected THEN {Announce(s, "cod_collected", stop[s].version + 1)} ELSE {}

\* A collection is a second fact, with a version of its own.
FactsOfHandover(s, collected) ==
    {Announce(s, "delivered", stop[s].version + 1)}
    \cup IF collected THEN {Announce(s, "cod_collected", stop[s].version + 2)} ELSE {}

CompleteDelivery(s) ==
    LET collected == payment[s] \notin {None, "PREPAID"}
    IN  /\ Made(s) /\ stop[s].verified
        /\ ReadyForPayment(s)
        /\ PaymentSatisfies(s)
        /\ MayBecome(stop[s].status, "DELIVERED")
        /\ Save(s, [stop[s] EXCEPT !.status = "DELIVERED"], IF collected THEN 2 ELSE 1)
        /\ facts' = facts \cup FactsOfHandover(s, collected)
        /\ UNCHANGED <<opened, checked, photos, failed, payment, receiver>>

CloseWithoutHandover(s, status) ==
    /\ Made(s) /\ MayBecome(stop[s].status, status)
    /\ Save(s, [stop[s] EXCEPT !.status = status], 1)
    /\ failed' = [failed EXCEPT ![s] = "UNDECIDED"]
    /\ facts' = facts \cup {Announce(s, "attempt_failed", stop[s].version + 1)}
    /\ UNCHANGED <<opened, checked, photos, payment, receiver>>

RecordRefusal(s) == CloseWithoutHandover(s, "REFUSED")

\* Once a wait was started, whatever came of it.
RecordAbsence(s) == Made(s) /\ stop[s].waited /\ CloseWithoutHandover(s, "FAILED")

RecordVerificationFailure(s) == CloseWithoutHandover(s, "FAILED")

-----------------------------------------------------------------------------
(* Operations *)

(* Mutated form of Undecided: a decision can be taken again. *)
MutUndecided == {s \in Stops : failed[s] # None}

Undecided == {s \in Stops : failed[s] = "UNDECIDED"}

DecideNextAttempt(s, decision) ==
    /\ s \in Undecided
    /\ failed' = [failed EXCEPT ![s] = decision]
    /\ UNCHANGED <<opened, stop, checked, photos, facts, payment, receiver>>

\* The sweep: of the attempts nobody decided, those whose three days are over.
ReturnPastTheirHold(over) ==
    /\ over # {} /\ over \subseteq Undecided
    /\ failed' = [s \in Stops |-> IF s \in over THEN "RETURN_TO_MERCHANT" ELSE failed[s]]
    /\ UNCHANGED <<opened, stop, checked, photos, facts, payment, receiver>>

-----------------------------------------------------------------------------
(* The receiver *)

\* Only while the parcel is on its way; a later wish changes the same row.
SetHandoverPreference(p) ==
    /\ LiveStop(p) # {}
    /\ wished' = wished \cup {p}
    /\ UNCHANGED <<doorstep, payment, rated, reported>>

\* Of several visits with a parcel, the last one is the one a receiver means.
LastStop(p) == CHOOSE s \in StopsOf(p) : \A r \in StopsOf(p) : r <= s

\* One rating of a parcel, after its handover.
RateCourier(p) ==
    /\ p \notin rated
    /\ StopsOf(p) # {} /\ stop[LastStop(p)].status = "DELIVERED"
    /\ rated' = rated \cup {p}
    /\ UNCHANGED <<doorstep, payment, wished, reported>>

\* By the receiver, or by the driver from the stop; it changes no stop.
ReportIssue(p) ==
    /\ StopsOf(p) # {}
    /\ reported' = reported \cup {p}
    /\ UNCHANGED <<doorstep, payment, wished, rated>>

-----------------------------------------------------------------------------
Next ==
    \/ OpenManifest
    \/ \E p \in Parcels :
          \/ SetHandoverPreference(p) \/ RateCourier(p) \/ ReportIssue(p)
          \/ \E s \in Stops, terms \in Terms : ScanOntoManifest(s, p, terms)
    \/ \E s \in Stops :
          \/ AnnounceDeparture(s) \/ RecordArrival(s) \/ StartWait(s)
          \/ \E right \in BOOLEAN :
                VerifyWithCode(s, right) \/ VerifyWithId(s, right) \/ CheckParcelSeal(s, right)
          \/ \E stage \in Stages : AttachPhoto(s, stage)
          \/ \E outcome \in Inspections : RecordInspection(s, outcome)
          \/ ConfirmPrepaid(s) \/ CollectCash(s) \/ RecordCardApproval(s)
          \/ CompleteDelivery(s)
          \/ RecordRefusal(s) \/ RecordAbsence(s) \/ RecordVerificationFailure(s)
          \/ \E decision \in Decisions : DecideNextAttempt(s, decision)
    \/ \E over \in SUBSET Stops : ReturnPastTheirHold(over)

Spec == Init /\ [][Next]_vars

-----------------------------------------------------------------------------
(* Properties *)

\* Every variable keeps the shape of its table.
TypeOK ==
    /\ opened \in BOOLEAN
    /\ stop \in [Stops -> StopRow \cup {None}]
    /\ checked \in [Stops -> SUBSET {"VERIFIED", "CODE_MISMATCH", "ID_MISMATCH"}]
    /\ photos \in [Stops -> SUBSET Stages]
    /\ payment \in [Stops -> PaymentMethods \cup {None}]
    /\ failed \in [Stops -> Decisions \cup {"UNDECIDED", None}]
    /\ facts \subseteq [stop: Stops, version: Nat,
                        kind: {"departed", "delivered", "cod_collected", "attempt_failed"}]
    /\ wished \subseteq Parcels /\ rated \subseteq Parcels /\ reported \subseteq Parcels

\* A parcel leaves the driver only to somebody who was verified, with the seal
\* and the box looked at as the merchant asked, photographed on both sides of
\* an opening, and, if money was due, paid for: although photos and payments
\* arrive at any status and no version ties them to the stop.
HandedOverInOrder ==
    \A s \in Stops : Made(s) /\ stop[s].status = "DELIVERED" =>
        /\ "VERIFIED" \in checked[s]
        /\ stop[s].inspection # None /\ SealIsChecked(s)
        /\ stop[s].terms.cod <=> payment[s] \in {"CASH", "POS_CARD"}
        /\ stop[s].terms.photos =>
              CASE stop[s].inspection = "OPEN_BOX_KEPT"    -> photos[s] = Stages
                [] stop[s].inspection = "OPEN_BOX_REFUSED" -> "BEFORE_OPENING" \in photos[s]
                [] OTHER -> TRUE

\* Other services learn of a visit what happened, once: a delivery or a failed
\* attempt, never both; a collection only with the delivery it paid for, so
\* money taken at a door that was then refused is announced to nobody.  Facts
\* of one stop never share a version, which orders them for their consumers,
\* and a parcel is on one round at a time.
FactsTellTheVisit ==
    /\ \A s \in Stops :
          LET told(kind) == \E f \in facts : f.stop = s /\ f.kind = kind
              is(S)      == Made(s) /\ stop[s].status \in S
          IN  /\ told("delivered") <=> is({"DELIVERED"})
              /\ told("attempt_failed") <=> is({"REFUSED", "FAILED"})
              /\ told("attempt_failed") <=> failed[s] # None
              /\ told("cod_collected") <=> is({"DELIVERED"}) /\ stop[s].terms.cod
              /\ is({"ARRIVED", "WAITING", "AUTHORIZED", "DELIVERED"}) => told("departed")
    /\ \A f, g \in facts : f.stop = g.stop /\ f.version = g.version => f = g
    /\ \A p \in Parcels : Cardinality(LiveStop(p)) <= 1

\* What is settled at a door stays settled: how the visit ended, who was let
\* take the parcel, the payment, the facts, and what operations decided, also
\* where the sweep of overdue holds meets an operator.  Only the seal of a
\* closed stop can still be written.
SettledAtTheDoor ==
    [][/\ facts \subseteq facts'
       /\ \A s \in Stops :
             /\ Made(s) /\ stop[s].status \in Closed =>
                   stop'[s] = [stop[s] EXCEPT !.seal = stop'[s].seal, !.version = stop'[s].version]
             /\ payment[s] # None => payment'[s] = payment[s]
             /\ failed[s] \in Decisions => failed'[s] = failed[s]]_vars

\* "a broken seal stops it": a parcel whose seal was last found broken is not
\* handed over.  The code looks only at whether the seal was checked.
BrokenSealStopsTheHandover ==
    [][\A s \in Stops : CompleteDelivery(s) => stop[s].seal # "BROKEN"]_vars
=============================================================================
