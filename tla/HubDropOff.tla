------------------------------ MODULE HubDropOff ------------------------------
(***************************************************************************)
(* A customer brings a parcel to a hub.  Staff take the details, weigh it, *)
(* stick a label on it, and accept it, which starts custody; a drop-off    *)
(* nobody brings in lapses.  A row is written only under the version it    *)
(* was read with, so each request, and each sweep, is one step.            *)
(*                                                                         *)
(* Abstractions.  One hub: a drop-off never changes hubs, and a code is    *)
(* looked up in all of them.  The deadline is a flag that time raises.     *)
(* Details, weights and operators are left out.                            *)
(***************************************************************************)
EXTENDS Naturals, FiniteSets

CONSTANTS
    DropOffs,   \* drop-offs, numbered in the order they are made
    Codes,      \* tracking codes
    Labels,
    None

VARIABLES
    dropOff,    \* the row of each drop-off, or None
    overdue,    \* drop-offs past their expiry date
    accepted    \* the outbox: drop-offs announced as accepted

vars == <<dropOff, overdue, accepted>>

-----------------------------------------------------------------------------
Row == [code: Codes, label: Labels \cup {None},
        status: {"EXPECTED", "DETAILS_CAPTURED", "LABELLED",
                 "ACCEPTED", "EXPIRED", "CANCELLED"}]

\* DROP_OFF_TRANSITIONS; the statuses that lead on are the open ones.
OnwardOf(status) ==
    CASE status = "EXPECTED"         -> {"DETAILS_CAPTURED", "EXPIRED", "CANCELLED"}
      [] status = "DETAILS_CAPTURED" -> {"LABELLED", "EXPIRED", "CANCELLED"}
      [] status = "LABELLED"         -> {"ACCEPTED", "CANCELLED"}
      [] OTHER                       -> {}

Made(d)   == dropOff[d] # None
IsOpen(d) == Made(d) /\ OnwardOf(dropOff[d].status) # {}
IsNext(d) == ~Made(d) /\ \A e \in DropOffs : e < d => Made(e)

\* Only an unlabelled drop-off can lapse: a labelled one is on the counter.
IsExpired(d) == d \in overdue /\ dropOff[d].status \in {"EXPECTED", "DETAILS_CAPTURED"}

(* Mutated form of LiveFor: a labelled drop-off is no longer live. *)
MutLiveFor(code) ==
    {d \in DropOffs : IsOpen(d) /\ dropOff[d].status # "LABELLED" /\ dropOff[d].code = code}

\* uq_hub_drop_off_live_tracking_code
LiveFor(code) == {d \in DropOffs : IsOpen(d) /\ dropOff[d].code = code}

\* uq_hub_drop_off_label_code
LabelTaken(label) ==
    \E d \in DropOffs : Made(d) /\ dropOff[d].label = label /\ dropOff[d].status # "CANCELLED"

Init ==
    /\ dropOff = [d \in DropOffs |-> None]
    /\ overdue = {}
    /\ accepted = {}

Become(d, row) == dropOff' = [dropOff EXCEPT ![d] = row]

-----------------------------------------------------------------------------
\* The customer announced it in the app.  Only the index looks for another.
ExpectDropOff(d, code) ==
    /\ IsNext(d) /\ LiveFor(code) = {}
    /\ Become(d, [code |-> code, label |-> None, status |-> "EXPECTED"])
    /\ UNCHANGED <<overdue, accepted>>

\* At the counter, for a customer who announced nothing.
CaptureWalkIn(d, code) ==
    /\ IsNext(d) /\ LiveFor(code) = {}
    /\ Become(d, [code |-> code, label |-> None, status |-> "DETAILS_CAPTURED"])
    /\ UNCHANGED <<overdue, accepted>>

CaptureDetails(d) ==
    /\ Made(d) /\ ~IsExpired(d)
    /\ "DETAILS_CAPTURED" \in OnwardOf(dropOff[d].status)
    /\ Become(d, [dropOff[d] EXCEPT !.status = "DETAILS_CAPTURED"])
    /\ UNCHANGED <<overdue, accepted>>

ApplyLabel(d, label) ==
    /\ Made(d) /\ ~IsExpired(d)
    /\ "LABELLED" \in OnwardOf(dropOff[d].status)
    /\ ~LabelTaken(label)
    /\ Become(d, [dropOff[d] EXCEPT !.status = "LABELLED", !.label = label])
    /\ UNCHANGED <<overdue, accepted>>

Accept(d) ==
    /\ Made(d) /\ dropOff[d].label # None
    /\ "ACCEPTED" \in OnwardOf(dropOff[d].status)
    /\ Become(d, [dropOff[d] EXCEPT !.status = "ACCEPTED"])
    /\ accepted' = accepted \cup {d}
    /\ UNCHANGED overdue

\* One sweep lapses all that are overdue.
Lapsed == {d \in DropOffs : Made(d) /\ IsExpired(d)}

ExpireUnclaimed ==
    /\ Lapsed # {}
    /\ dropOff' = [d \in DropOffs |->
          IF d \in Lapsed THEN [dropOff[d] EXCEPT !.status = "EXPIRED"] ELSE dropOff[d]]
    /\ UNCHANGED <<overdue, accepted>>

Cancel(d) ==
    /\ Made(d) /\ "CANCELLED" \in OnwardOf(dropOff[d].status)
    /\ Become(d, [dropOff[d] EXCEPT !.status = "CANCELLED"])
    /\ UNCHANGED <<overdue, accepted>>

DeadlinePasses(d) ==
    /\ Made(d) /\ d \notin overdue
    /\ overdue' = overdue \cup {d}
    /\ UNCHANGED <<dropOff, accepted>>

-----------------------------------------------------------------------------
Next ==
    \/ \E d \in DropOffs :
          \/ \E code \in Codes : ExpectDropOff(d, code) \/ CaptureWalkIn(d, code)
          \/ \E label \in Labels : ApplyLabel(d, label)
          \/ CaptureDetails(d) \/ Accept(d) \/ Cancel(d) \/ DeadlinePasses(d)
    \/ ExpireUnclaimed

Spec == Init /\ [][Next]_vars

-----------------------------------------------------------------------------
(* Properties *)

\* Every variable keeps the shape of its table.
TypeOK ==
    /\ dropOff \in [DropOffs -> Row \cup {None}]
    /\ overdue \subseteq DropOffs
    /\ accepted \subseteq DropOffs

\* What stands on a counter is found again: at most one drop-off of a code is
\* open, no two parcels bear one label while it counts, custody is announced
\* for exactly the accepted drop-offs, each of which staff had labelled, and
\* nothing that was labelled has lapsed, whenever the sweep ran.
CounterIsInOrder ==
    /\ \A code \in Codes : Cardinality({d \in DropOffs : IsOpen(d) /\ dropOff[d].code = code}) <= 1
    /\ \A d, e \in DropOffs : Made(d) /\ Made(e) /\ d # e /\ dropOff[d].label # None
          /\ dropOff[d].label = dropOff[e].label =>
                "CANCELLED" \in {dropOff[d].status, dropOff[e].status}
    /\ \A d \in DropOffs : Made(d) =>
          /\ dropOff[d].status = "ACCEPTED" <=> d \in accepted
          /\ dropOff[d].status = "ACCEPTED" => dropOff[d].label # None
          /\ dropOff[d].status = "EXPIRED" => dropOff[d].label = None
=============================================================================
