--------------------------- MODULE MerchantSettlement ---------------------------
(***************************************************************************)
(* What a merchant is owed, and asks to be paid.  The balance is the sum   *)
(* of the journal's postings on the merchant's payable: collections raise  *)
(* it, refusal charges and refunds lower it.  A request for a payout reads *)
(* the balance in one transaction and inserts the payout in the next; all  *)
(* else is one transaction, and a payout or an account is written only     *)
(* under the version it was read with.                                     *)
(*                                                                         *)
(* Abstractions.  One merchant.  A parcel brings the amount of its goods,  *)
(* and fees are one amount; postings to the other side of an entry are     *)
(* left out.  How and where a payout is paid is left out: paying one is    *)
(* always refused, since its procedure is not decided.                     *)
(***************************************************************************)
EXTENDS Integers, Functions

CONSTANTS
    Parcels,
    GoodsAmount,    \* of each parcel, credited to the merchant
    RefusalFee,     \* delivery fee and return-trip fee together
    Payouts,        \* payouts, numbered in the order they are made
    Amounts,        \* amounts merchants ask for
    Requests,       \* requests for a payout in flight
    None,
    MaxCharges,     \* bound on the charges for one parcel
    MaxRefunds      \* bound on the refunds for one parcel

VARIABLES
    collected,      \* parcels collected for
    charges,        \* refusal charges posted for each parcel
    refunds,        \* refunds recognised for each parcel
    payout,         \* the row of each payout, or None
    blocked,        \* the merchant's payouts are on hold
    facts,          \* the outbox: what was announced of payouts
    request         \* of each request: what it asks and what it read, or None

journal == <<collected, charges, refunds>>
vars    == <<journal, payout, blocked, facts, request>>

-----------------------------------------------------------------------------
PayoutRow == [amount: Amounts, status: {"REQUESTED", "APPROVED", "REJECTED"}, version: Nat]

Asked == [amount: Amounts, available: Nat]

\* PAYOUT_TRANSITIONS; PAID is never reached.
OnwardOf(status) ==
    CASE status = "REQUESTED" -> {"APPROVED", "REJECTED"}
      [] status = "APPROVED"  -> {"REJECTED"}
      [] OTHER                -> {}

Made(o)   == payout[o] # None
IsOpen(o) == Made(o) /\ payout[o].status \in {"REQUESTED", "APPROVED"}

\* balance_of(merchant_payable)
Balance ==
    SumFunctionOnSet(GoodsAmount, collected)
    - SumFunctionOnSet([p \in Parcels |-> RefusalFee * charges[p] + refunds[p]], Parcels)

AskedFor(open) ==
    SumFunctionOnSet([o \in Payouts |-> IF Made(o) THEN payout[o].amount ELSE 0], open)

(* Mutated form of Committed: an approved payout is taken for paid. *)
MutCommitted == AskedFor({o \in Payouts : Made(o) /\ payout[o].status = "REQUESTED"})

Committed == AskedFor({o \in Payouts : IsOpen(o)})

Available == IF Committed >= Balance THEN 0 ELSE Balance - Committed

Init ==
    /\ collected = {}
    /\ charges = [p \in Parcels |-> 0]
    /\ refunds = [p \in Parcels |-> 0]
    /\ payout = [o \in Payouts |-> None]
    /\ blocked = FALSE
    /\ facts = {}
    /\ request = [r \in Requests |-> None]

-----------------------------------------------------------------------------
(* The journal *)

\* Once for each parcel: by the query, and by the unique key.
RecordCollection(p) ==
    /\ p \notin collected
    /\ collected' = collected \cup {p}
    /\ UNCHANGED <<charges, refunds, payout, blocked, facts, request>>

\* Under no key: sent again, it is charged again.
ChargeForRefusal(p) ==
    /\ charges[p] < MaxCharges
    /\ charges' = [charges EXCEPT ![p] = @ + 1]
    /\ UNCHANGED <<collected, refunds, payout, blocked, facts, request>>

\* For a parcel that was paid for, of any amount, as often as it is asked.
RecogniseRefund(p) ==
    /\ p \in collected
    /\ refunds[p] < MaxRefunds
    /\ refunds' = [refunds EXCEPT ![p] = @ + 1]
    /\ UNCHANGED <<collected, charges, payout, blocked, facts, request>>

-----------------------------------------------------------------------------
(* Payouts *)

\* balance_for: a balance below zero cannot be read, and ends the request.
ReadBalance(r, amount) ==
    /\ request[r] = None
    /\ Balance >= 0
    /\ ~blocked /\ amount <= Available
    /\ request' = [request EXCEPT ![r] = [amount |-> amount, available |-> Available]]
    /\ UNCHANGED <<journal, payout, blocked, facts>>

Tell(o, kind, version) == [payout |-> o, kind |-> kind, version |-> version]

RequestPayout(r, o) ==
    /\ request[r] # None
    /\ ~Made(o) /\ \A n \in Payouts : n < o => Made(n)
    /\ payout' = [payout EXCEPT ![o] =
          [amount |-> request[r].amount, status |-> "REQUESTED", version |-> 1]]
    /\ facts' = facts \cup {Tell(o, "REQUESTED", 1)}
    /\ request' = [request EXCEPT ![r] = None]
    /\ UNCHANGED <<journal, blocked>>

(* Mutated form of Decided: a decision is announced under the version it read. *)
MutDecided(o, target) == Tell(o, target, payout[o].version)

Decided(o, target) == Tell(o, target, payout[o].version + 1)

Decide(o, target) ==
    /\ Made(o) /\ target \in OnwardOf(payout[o].status)
    /\ payout' = [payout EXCEPT ![o].status = target, ![o].version = @ + 1]
    /\ facts' = facts \cup {Decided(o, target)}
    /\ UNCHANGED <<journal, blocked, request>>

\* The balance is not looked at again, nor whether payouts are on hold.
ApprovePayout(o) == Decide(o, "APPROVED")

RejectPayout(o) == Decide(o, "REJECTED")

BlockPayouts(hold) ==
    /\ hold # blocked
    /\ blocked' = hold
    /\ UNCHANGED <<journal, payout, facts, request>>

-----------------------------------------------------------------------------
Next ==
    \/ \E p \in Parcels : RecordCollection(p) \/ ChargeForRefusal(p) \/ RecogniseRefund(p)
    \/ \E r \in Requests :
          \/ \E amount \in Amounts : ReadBalance(r, amount)
          \/ \E o \in Payouts : RequestPayout(r, o)
    \/ \E o \in Payouts : ApprovePayout(o) \/ RejectPayout(o)
    \/ \E hold \in BOOLEAN : BlockPayouts(hold)

Spec == Init /\ [][Next]_vars

-----------------------------------------------------------------------------
(* Properties *)

\* Every variable keeps the shape of its table.
TypeOK ==
    /\ collected \subseteq Parcels
    /\ charges \in [Parcels -> 0 .. MaxCharges] /\ refunds \in [Parcels -> 0 .. MaxRefunds]
    /\ payout \in [Payouts -> PayoutRow \cup {None}]
    /\ blocked \in BOOLEAN
    /\ facts \subseteq [payout: Payouts, kind: {"REQUESTED", "APPROVED", "REJECTED"}, version: Nat]
    /\ request \in [Requests -> Asked \cup {None}]

\* What was announced of a payout is its history, whoever decided at once: the
\* request, then at most an approval and a rejection, each under the version
\* it made, and the last of them is its status.
PayoutFactsTellTheRow ==
    /\ \A o \in Payouts :
          LET told == {f \in facts : f.payout = o}
          IN  IF ~Made(o) THEN told = {}
              ELSE /\ Tell(o, payout[o].status, payout[o].version) \in told
                   /\ {f.version : f \in told} = 1 .. payout[o].version
                   /\ \A f, g \in told : f.version < g.version => g.kind \in OnwardOf(f.kind)
    /\ \A f, g \in facts : f.payout = g.payout /\ f.version = g.version => f = g

Overcommitted == AskedFor({o \in Payouts : Made(o) /\ payout[o].status # "REJECTED"}) > Balance

\* A merchant has asked for more than is owed only where the answer moved under
\* the request: another payout, a charge or a refund came between the balance
\* it read and the payout it made.  What is paid in, approved, rejected or put
\* on hold never leads there.
OnlyAMovedBalanceOvercommits ==
    [][<<journal, payout>>' # <<journal, payout>> /\ ~Overcommitted /\ Overcommitted' =>
          \/ UNCHANGED payout /\ (charges' # charges \/ refunds' # refunds)
          \/ \E r \in Requests : /\ request[r] # None /\ request'[r] = None
                                 /\ Available < request[r].available]_vars
=============================================================================
