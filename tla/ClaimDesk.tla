------------------------------ MODULE ClaimDesk ------------------------------
(***************************************************************************)
(* Compensation claims and the incidents drivers report.  A claim is filed *)
(* for a parcel, reviewed, decided or withdrawn; operations investigate    *)
(* and resolve an incident, and may link it to a claim.  Each request      *)
(* reads a row and writes it only under the version it read; a message is  *)
(* added to the claim's thread on what was read, without a version.        *)
(*                                                                         *)
(* Abstractions.  Who asks was checked before.  References are the claims  *)
(* and incidents themselves.  Amounts, reasons, evidence and texts are     *)
(* left out, and so are the boundaries of liability, which are checked     *)
(* when a claim is filed and never change after.                           *)
(***************************************************************************)
EXTENDS Naturals, FiniteSets

CONSTANTS
    Parcels,
    Claims,     \* numbered in the order they are filed
    Incidents,  \* numbered in the order they are reported
    Requests,   \* requests in flight
    None,
    MaxVersion  \* bound on the versions of a claim

VARIABLES
    claim,      \* the row of each claim, or None
    thread,     \* claims that have messages
    incident,   \* the row of each incident, or None
    request     \* of each request: the row it read, or None

vars == <<claim, thread, incident, request>>

-----------------------------------------------------------------------------
ClaimRow ==
    [parcel: Parcels, custodyReviewed: BOOLEAN, version: 1 .. MaxVersion,
     status: {"SUBMITTED", "UNDER_REVIEW", "APPROVED", "REJECTED", "WITHDRAWN"}]

IncidentRow ==
    [parcel: Parcels \cup {None}, linked: Claims \cup {None}, version: 1 .. 3,
     status: {"SUBMITTED", "UNDER_INVESTIGATION", "RESOLVED"}]

\* CLAIM_TRANSITIONS
OnwardOf(status) ==
    CASE status = "SUBMITTED"    -> {"UNDER_REVIEW", "WITHDRAWN"}
      [] status = "UNDER_REVIEW" -> {"APPROVED", "REJECTED", "WITHDRAWN"}
      [] OTHER                   -> {}

\* INCIDENT_TRANSITIONS
IncidentOnwardOf(status) ==
    CASE status = "SUBMITTED"           -> {"UNDER_INVESTIGATION", "RESOLVED"}
      [] status = "UNDER_INVESTIGATION" -> {"RESOLVED"}
      [] OTHER                          -> {}

IsOpen(row)    == row.status \in {"SUBMITTED", "UNDER_REVIEW"}
IsDecided(row) == row.status \in {"APPROVED", "REJECTED"}

Filed(c)    == claim[c] # None
Reported(i) == incident[i] # None

(* Mutated form of OpenFor: a claim under review is no longer open. *)
MutOpenFor(p) == {c \in Claims : Filed(c) /\ claim[c].parcel = p /\ claim[c].status = "SUBMITTED"}

\* uq_claims_claim_open_per_parcel
OpenFor(p) == {c \in Claims : Filed(c) /\ claim[c].parcel = p /\ IsOpen(claim[c])}

Init ==
    /\ claim = [c \in Claims |-> None]
    /\ thread = {}
    /\ incident = [i \in Incidents |-> None]
    /\ request = [r \in Requests |-> None]

-----------------------------------------------------------------------------
(* Requests *)

ReadClaim(r, c) ==
    /\ request[r] = None /\ Filed(c)
    /\ request' = [request EXCEPT ![r] = [claim |-> c, row |-> claim[c]]]
    /\ UNCHANGED <<claim, thread, incident>>

ReadIncident(r, i) ==
    /\ request[r] = None /\ Reported(i)
    /\ request' = [request EXCEPT ![r] = [incident |-> i, row |-> incident[i]]]
    /\ UNCHANGED <<claim, thread, incident>>

\* A request that is refused, or finds the row changed, leaves nothing behind.
Leave(r) ==
    /\ request[r] # None
    /\ request' = [request EXCEPT ![r] = None]
    /\ UNCHANGED <<claim, thread, incident>>

Has(r, name) == request[r] # None /\ name \in DOMAIN request[r]

(* Mutated form of Save: the update does not name the version it read. *)
MutSave(r, c, row) ==
    /\ row.version < MaxVersion
    /\ claim' = [claim EXCEPT ![c] = [row EXCEPT !.version = @ + 1]]
    /\ request' = [request EXCEPT ![r] = None]
    /\ UNCHANGED <<thread, incident>>

\* The row as it was read, with what the request changed in it.
Save(r, c, row) ==
    /\ claim[c].version = row.version /\ row.version < MaxVersion
    /\ claim' = [claim EXCEPT ![c] = [row EXCEPT !.version = @ + 1]]
    /\ request' = [request EXCEPT ![r] = None]
    /\ UNCHANGED <<thread, incident>>

-----------------------------------------------------------------------------
(* Claims *)

\* The query for an open claim finds one or the unique index does.
FileClaim(c, p) ==
    /\ ~Filed(c) /\ \A d \in Claims : d < c => Filed(d)
    /\ OpenFor(p) = {}
    /\ claim' = [claim EXCEPT ![c] =
          [parcel |-> p, custodyReviewed |-> FALSE, version |-> 1, status |-> "SUBMITTED"]]
    /\ UNCHANGED <<thread, incident, request>>

\* What was said of the custody records before is forgotten.
StartReview(r, reviewed) ==
    /\ Has(r, "claim") /\ "UNDER_REVIEW" \in OnwardOf(request[r].row.status)
    /\ Save(r, request[r].claim, [request[r].row EXCEPT
          !.status = "UNDER_REVIEW", !.custodyReviewed = reviewed])

\* On any claim that is not decided, a withdrawn one included.
RecordCustodyReview(r) ==
    /\ Has(r, "claim") /\ ~IsDecided(request[r].row)
    /\ Save(r, request[r].claim, [request[r].row EXCEPT !.custodyReviewed = TRUE])

Decide(r, to) ==
    /\ Has(r, "claim") /\ to \in OnwardOf(request[r].row.status)
    /\ request[r].row.custodyReviewed
    /\ Save(r, request[r].claim, [request[r].row EXCEPT !.status = to])

Approve(r) == Decide(r, "APPROVED")
Reject(r)  == Decide(r, "REJECTED")

Withdraw(r) ==
    /\ Has(r, "claim") /\ "WITHDRAWN" \in OnwardOf(request[r].row.status)
    /\ Save(r, request[r].claim, [request[r].row EXCEPT !.status = "WITHDRAWN"])

\* On a claim that was open when it was read.
PostMessage(r) ==
    /\ Has(r, "claim") /\ IsOpen(request[r].row)
    /\ thread' = thread \cup {request[r].claim}
    /\ request' = [request EXCEPT ![r] = None]
    /\ UNCHANGED <<claim, incident>>

-----------------------------------------------------------------------------
(* Incidents *)

\* About a parcel, or about the driver's vehicle.
ReportIncident(i, p) ==
    /\ ~Reported(i) /\ \A j \in Incidents : j < i => Reported(j)
    /\ incident' = [incident EXCEPT ![i] =
          [parcel |-> p, linked |-> None, version |-> 1, status |-> "SUBMITTED"]]
    /\ UNCHANGED <<claim, thread, request>>

\* The claim it is linked to is taken as it comes.
Advance(r, to, link) ==
    /\ Has(r, "incident")
    /\ LET i == request[r].incident  row == request[r].row
       IN  /\ to \in IncidentOnwardOf(row.status)
           /\ incident[i].version = row.version
           /\ incident' = [incident EXCEPT ![i] =
                 [row EXCEPT !.status = to, !.linked = link, !.version = @ + 1]]
    /\ request' = [request EXCEPT ![r] = None]
    /\ UNCHANGED <<claim, thread>>

StartInvestigation(r) == Advance(r, "UNDER_INVESTIGATION", None)
Resolve(r, link)      == Advance(r, "RESOLVED", link)

-----------------------------------------------------------------------------
Next ==
    \/ \E c \in Claims, p \in Parcels : FileClaim(c, p)
    \/ \E i \in Incidents, p \in Parcels \cup {None} : ReportIncident(i, p)
    \/ \E r \in Requests :
          \/ \E c \in Claims : ReadClaim(r, c)
          \/ \E i \in Incidents : ReadIncident(r, i)
          \/ \E reviewed \in BOOLEAN : StartReview(r, reviewed)
          \/ \E link \in Claims \cup {None} : Resolve(r, link)
          \/ RecordCustodyReview(r) \/ Approve(r) \/ Reject(r) \/ Withdraw(r)
          \/ PostMessage(r) \/ StartInvestigation(r) \/ Leave(r)

Spec == Init /\ [][Next]_vars

-----------------------------------------------------------------------------
(* Properties *)

\* Every variable keeps the shape of its table.
TypeOK ==
    /\ claim \in [Claims -> ClaimRow \cup {None}]
    /\ thread \subseteq Claims
    /\ incident \in [Incidents -> IncidentRow \cup {None}]
    /\ \A r \in Requests : request[r] # None =>
          IF Has(r, "claim") THEN request[r] \in [claim: Claims, row: ClaimRow]
                             ELSE request[r] \in [incident: Incidents, row: IncidentRow]

\* One claim of a parcel is open at a time, however many are filed after one
\* another, and money is decided only by who had the custody records read.
OneClaimAtATime ==
    /\ \A p \in Parcels : Cardinality({c \in Claims :
          Filed(c) /\ claim[c].parcel = p /\ IsOpen(claim[c])}) <= 1
    /\ \A c \in Claims : Filed(c) /\ IsDecided(claim[c]) => claim[c].custodyReviewed

\* A reviewer, a decider and the claimant may act on one claim at once: what
\* is decided, withdrawn or resolved stays so, nobody steps over a review,
\* and a review that was read is unsaid only by starting the review.
DecisionsStay ==
    /\ \A c \in Claims : Filed(c) =>
          /\ claim'[c].status \in {claim[c].status} \cup OnwardOf(claim[c].status)
          /\ claim[c].custodyReviewed /\ ~claim'[c].custodyReviewed =>
                claim[c].status = "SUBMITTED" /\ claim'[c].status = "UNDER_REVIEW"
          /\ IsDecided(claim[c]) => claim'[c] = claim[c]
    /\ \A i \in Incidents : Reported(i) =>
          incident'[i].status \in {incident[i].status} \cup IncidentOnwardOf(incident[i].status)

DecisionsStand == [][DecisionsStay]_vars
=============================================================================
