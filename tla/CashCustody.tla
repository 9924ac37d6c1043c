----------------------------- MODULE CashCustody -----------------------------
(***************************************************************************)
(* The cash one driver holds: collected at doors, handed over in deposits, *)
(* counted at the end of a route.  What the driver holds is stored nowhere *)
(* but in the journal, whose entries are only ever added.  Requests run in *)
(* several replicas; each reads what it decides on and commits later.      *)
(*                                                                         *)
(* Abstractions.  One snapshot stands for the queries of a transaction     *)
(* that decides on other rows than it writes under their version; a        *)
(* transaction that reads only rows it writes under their version is one   *)
(* step, because it commits only where nothing came between.  An entry is  *)
(* named by its reason and its subject, whose row holds the amount; the    *)
(* split of a collection between merchant and HUDHUD is left out.  A       *)
(* parcel is named by the time its cash was collected, and a command that  *)
(* is refused, or replayed under its idempotency key, ends by GiveUp.      *)
(***************************************************************************)
EXTENDS Integers, FiniteSets, Functions

CONSTANTS
    Parcels,     \* COD parcels paid in cash: the times of collection
    Total,       \* goods and delivery fee of each parcel
    Deposits,    \* deposits, each with its own reference
    Methods,     \* deposit methods in use
    Amounts,     \* amounts drivers deposit, hubs count and limits are set to
    Counts,      \* end-of-route reconciliations
    Requests,    \* requests in flight
    DefaultLimit, \* the limit a cash account is opened with
    None,
    MaxAccountVersion  \* bound on the version of the driver's account

ASSUME CashConstants ==
    /\ Parcels \subseteq Nat /\ IsFiniteSet(Parcels)
    /\ IsFiniteSet(Deposits) /\ IsFiniteSet(Counts)
    /\ Total \in [Parcels -> Nat \ {0}]
    /\ Amounts \subseteq Nat \ {0}
    /\ Methods \subseteq {"HUB_CASHIER", "EXCHANGE_OFFICE", "BANK_TRANSFER"}
    /\ None \notin Deposits
    /\ DefaultLimit \in Amounts
    /\ MaxAccountVersion \in Nat

VARIABLES
    ledger,      \* how many entries the journal has of each kind
    parcel,      \* the deposit that settled each collection, or Unsettled, or None
    deposit,     \* the row of each deposit, or None
    count,       \* the row of each reconciliation, or None
    account,     \* the driver's cash account: limit and version
    settled,     \* cod_settled facts in the outbox
    breaches,    \* cash_limit_breached facts in the outbox
    request      \* per request: what its transaction read, or None

db   == <<ledger, parcel, deposit, count, account, settled, breaches>>
vars == <<db, request>>

-----------------------------------------------------------------------------
Unsettled == "UNSETTLED"

Entries == ({"COLLECTED"} \X Parcels)
           \cup ({"DEPOSITED", "VERIFIED", "REJECTED"} \X Deposits)
           \cup ({"ADJUSTED"} \X Counts)

DepositRow == [method: Methods, amount: Amounts,
               status: {"PENDING_VERIFICATION", "CONFIRMED", "REJECTED"}]
CountRow   == [expected: Nat, counted: Amounts \cup {0},
               status: {"OPEN", "RESOLVED"}]
AccountRow == [limit: Amounts, version: Nat]

\* What the queries of a transaction found.
Reading == [held: Int, outstanding: SUBSET Parcels, account: AccountRow]

\* NULL is no row.
ASSUME NoneIsNothing == /\ None \notin DepositRow /\ None \notin CountRow
                        /\ None # Unsettled /\ Unsettled \notin Deposits

Made(d)      == deposit[d] # None
Collected    == {p \in Parcels : parcel[p] # None}
Outstanding  == {p \in Parcels : parcel[p] = Unsettled}
Post(e)      == ledger' = [ledger EXCEPT ![e] = @ + 1]
IsBalanced(r) == r.counted = r.expected

TotalOf(S) == SumFunctionOnSet(Total, S)

\* What each parcel brought in, each deposit took out and each count corrected.
Brought   == [p \in Parcels |-> Total[p] * ledger[<<"COLLECTED", p>>]]
TakenOut  == [d \in Deposits |->
    IF Made(d)
    THEN deposit[d].amount * (ledger[<<"DEPOSITED", d>>] - ledger[<<"REJECTED", d>>]) ELSE 0]
Corrected == [r \in Counts |->
    IF count[r] # None
    THEN (count[r].counted - count[r].expected) * ledger[<<"ADJUSTED", r>>] ELSE 0]

\* The balance of the driver's custody account: the sum of its postings.
Held == SumFunctionOnSet(Brought, Parcels) - SumFunctionOnSet(TakenOut, Deposits)
        + SumFunctionOnSet(Corrected, Counts)

(* Mutated form of Readable: a balance below zero is returned. *)
MutReadable(balance) == balance \in Int

\* balance_of raises when the sum is below zero.
Readable(balance) == balance \in Nat

(* Mutated form of Affordable: the amount is not compared with the balance. *)
MutAffordable(amount, balance) == Readable(balance)

Affordable(amount, balance) == Readable(balance) /\ amount <= balance

-----------------------------------------------------------------------------
Init ==
    /\ ledger = [e \in Entries |-> 0]
    /\ parcel = [p \in Parcels |-> None]
    /\ deposit = [d \in Deposits |-> None]
    /\ count = [r \in Counts |-> None]
    /\ account = [limit |-> DefaultLimit, version |-> 1]
    /\ settled = {}
    /\ breaches = {}
    /\ request = [q \in Requests |-> None]

\* The transaction's queries.
Begin(q) ==
    /\ request[q] = None
    /\ request' = [request EXCEPT ![q] =
                      [held |-> Held, outstanding |-> Outstanding, account |-> account]]
    /\ UNCHANGED db

End(q) == request[q] # None /\ request' = [request EXCEPT ![q] = None]

\* Refused, found stale at commit, or cut off: nothing is written.
GiveUp(q) == End(q) /\ UNCHANGED db

-----------------------------------------------------------------------------
(* Cash at the door *)

\* UPDATE ... WHERE version = the version read.
AccountCurrent(read) ==
    account.version = read.version /\ read.version < MaxAccountVersion

\* A collection that takes the driver to the limit as read announces it.
AnnounceABreach(p, held, read) ==
    IF held < read.limit
    THEN UNCHANGED <<account, breaches>>
    ELSE /\ AccountCurrent(read)
         /\ account' = [account EXCEPT !.version = read.version + 1]
         /\ breaches' = breaches \cup {[parcel |-> p, version |-> read.version + 1]}

\* The tracking code of a collection is unique.
RecordCollection(q, p) ==
    /\ End(q)
    /\ parcel[p] = None
    /\ Readable(request[q].held + Total[p])
    /\ parcel' = [parcel EXCEPT ![p] = Unsettled]
    /\ Post(<<"COLLECTED", p>>)
    /\ AnnounceABreach(p, request[q].held + Total[p], request[q].account)
    /\ UNCHANGED <<deposit, count, settled>>

\* Each change of policy advances the account's version.
SetLimit(limit) ==
    /\ AccountCurrent(account)
    /\ account' = [limit |-> limit, version |-> account.version + 1]
    /\ UNCHANGED <<ledger, parcel, deposit, count, settled, breaches, request>>

-----------------------------------------------------------------------------
(* Deposits *)

\* The reference of a deposit is unique.
SubmitDeposit(q, d, method, amount) ==
    /\ End(q)
    /\ ~Made(d)
    /\ Affordable(amount, request[q].held)
    /\ deposit' = [deposit EXCEPT ![d] = [method |-> method, amount |-> amount,
                                          status |-> "PENDING_VERIFICATION"]]
    /\ Post(<<"DEPOSITED", d>>)
    /\ UNCHANGED <<parcel, count, account, settled, breaches>>

\* The transition is allowed and the version is still the one read.
MayDecide(d) == Made(d) /\ deposit[d].status = "PENDING_VERIFICATION"

Decide(d, status) == deposit' = [deposit EXCEPT ![d].status = status]

(* Mutated form of Covered: what a parcel takes is not deducted. *)
MutCovered(outstanding, amount) == {p \in outstanding : Total[p] <= amount}

\* Oldest first, as far as the amount reaches, none after the first it does not.
Covered(outstanding, amount) ==
    {p \in outstanding : TotalOf({o \in outstanding : o <= p}) <= amount}

(* Mutated form of StillUnsettled: collections are updated by id alone. *)
MutStillUnsettled(paid) == paid \subseteq Collected

\* A collection's version changes when it is settled, and only then.
StillUnsettled(paid) == paid \subseteq Outstanding

\* Cash at a hub cashier: the parcels it covers are paid, and announced.
ConfirmAtHub(q, d) ==
    /\ End(q)
    /\ MayDecide(d)
    /\ deposit[d].method = "HUB_CASHIER"
    /\ Decide(d, "CONFIRMED")
    /\ LET paid == Covered(request[q].outstanding, deposit[d].amount) IN
          /\ StillUnsettled(paid)
          /\ parcel' = [p \in Parcels |-> IF p \in paid THEN d ELSE parcel[p]]
          /\ settled' = settled \cup {[parcel |-> p, by |-> d] : p \in paid}
    /\ UNCHANGED <<ledger, count, account, breaches>>

\* An exchange receipt moves the money to the bank; a transfer is there already.
ConfirmElsewhere(d) ==
    /\ MayDecide(d)
    /\ deposit[d].method # "HUB_CASHIER"
    /\ Decide(d, "CONFIRMED")
    /\ IF deposit[d].method = "EXCHANGE_OFFICE" THEN Post(<<"VERIFIED", d>>)
                                                ELSE UNCHANGED ledger
    /\ UNCHANGED <<parcel, count, account, settled, breaches, request>>

RejectDeposit(d) ==
    /\ MayDecide(d)
    /\ Decide(d, "REJECTED")
    /\ Post(<<"REJECTED", d>>)
    /\ UNCHANGED <<parcel, count, account, settled, breaches, request>>

-----------------------------------------------------------------------------
(* End of route *)

\* What the driver brought back, against what the ledger says.
OpenReconciliation(q, r, counted) ==
    /\ End(q)
    /\ count[r] = None
    /\ Readable(request[q].held)
    /\ count' = [count EXCEPT ![r] =
          [expected |-> request[q].held, counted |-> counted,
           status |-> IF counted = request[q].held THEN "RESOLVED" ELSE "OPEN"]]
    /\ UNCHANGED <<ledger, parcel, deposit, account, settled, breaches>>

\* Operations may bring the ledger into line with the count as it was then.
ResolveReconciliation(r, adjust) ==
    /\ count[r] # None /\ count[r].status = "OPEN"
    /\ count' = [count EXCEPT ![r].status = "RESOLVED"]
    /\ IF adjust /\ ~IsBalanced(count[r]) THEN Post(<<"ADJUSTED", r>>)
                                          ELSE UNCHANGED ledger
    /\ UNCHANGED <<parcel, deposit, account, settled, breaches, request>>

-----------------------------------------------------------------------------
Next ==
    \/ \E q \in Requests :
          \/ Begin(q) \/ GiveUp(q)
          \/ \E p \in Parcels : RecordCollection(q, p)
          \/ \E d \in Deposits : \/ ConfirmAtHub(q, d)
                                 \/ \E m \in Methods, a \in Amounts : SubmitDeposit(q, d, m, a)
          \/ \E r \in Counts, c \in Amounts \cup {0} : OpenReconciliation(q, r, c)
    \/ \E limit \in Amounts : SetLimit(limit)
    \/ \E d \in Deposits : ConfirmElsewhere(d) \/ RejectDeposit(d)
    \/ \E r \in Counts, adjust \in BOOLEAN : ResolveReconciliation(r, adjust)

Spec == Init /\ [][Next]_vars

-----------------------------------------------------------------------------
(* Properties *)

\* Every variable keeps the shape of its table; what a hub is told to expect
\* is never below zero.
TypeOK ==
    /\ ledger \in [Entries -> Nat]
    /\ parcel \in [Parcels -> Deposits \cup {Unsettled, None}]
    /\ deposit \in [Deposits -> DepositRow \cup {None}]
    /\ count \in [Counts -> CountRow \cup {None}]
    /\ account \in AccountRow
    /\ settled \subseteq [parcel: Parcels, by: Deposits]
    /\ breaches \subseteq [parcel: Parcels, version: Nat]
    /\ request \in [Requests -> Reading \cup {None}]
    /\ \A q \in Requests : request[q] # None => request[q].outstanding \subseteq Collected

\* The journal and the rows tell the same story, whatever runs at the same
\* time: one entry for each collection, each deposit and each verification,
\* none beside them, and what a rejected deposit took out came back once.
LedgerTellsRows ==
    /\ \A p \in Parcels : ledger[<<"COLLECTED", p>>] = IF parcel[p] # None THEN 1 ELSE 0
    /\ \A d \in Deposits :
          /\ ledger[<<"DEPOSITED", d>>] = IF Made(d) THEN 1 ELSE 0
          /\ ledger[<<"REJECTED", d>>] =
                 IF Made(d) /\ deposit[d].status = "REJECTED" THEN 1 ELSE 0
          /\ ledger[<<"VERIFIED", d>>] =
                 IF /\ Made(d) /\ deposit[d].status = "CONFIRMED"
                    /\ deposit[d].method = "EXCHANGE_OFFICE" THEN 1 ELSE 0
    /\ \A r \in Counts :
          /\ ledger[<<"ADJUSTED", r>>] \in {0, 1}
          /\ ledger[<<"ADJUSTED", r>>] = 1 =>
                 count[r] # None /\ count[r].status = "RESOLVED" /\ ~IsBalanced(count[r])

\* A parcel counts as paid only through one confirmed deposit at a hub
\* cashier, and that is announced once (PAY-01, PAY-04), although two
\* confirmations may pick the same parcels.
SettledOnce ==
    /\ \A p \in Parcels : parcel[p] \in Deposits =>
          /\ Made(parcel[p])
          /\ deposit[parcel[p]].status = "CONFIRMED"
          /\ deposit[parcel[p]].method = "HUB_CASHIER"
    /\ settled = {[parcel |-> p, by |-> parcel[p]] : p \in {o \in Parcels : parcel[o] \in Deposits}}

\* A deposit pays for no more parcels than its amount covers, even when it
\* was confirmed from a list that other requests have changed since.
DepositCovers ==
    \A d \in Deposits : Made(d) =>
        TotalOf({p \in Parcels : parcel[p] = d}) <= deposit[d].amount

\* Two breaches of the limit are two facts, which their versions put in order,
\* although collections and changes of the limit race for the account.
BreachesAreOrdered ==
    /\ \A f, g \in breaches : f.version = g.version => f = g
    /\ \A f \in breaches : f.version <= account.version

\* What finance reads of a driver's cash agrees however requests raced: the
\* journal with the rows, the rows with each other, the breaches with the account.
BooksAgree == LedgerTellsRows /\ SettledOnce /\ BreachesAreOrdered

\* Only a decision taken on a balance or a count that no longer held can take
\* the driver's cash below zero: a deposit larger than what is held by then,
\* or an adjustment for a shortfall that has since left in a deposit.
OnlyStaleGoesNegative ==
    [][ledger' # ledger /\ Held' < 0 /\ Held' < Held =>
          \/ \E q \in Requests : request[q] # None /\ request'[q] = None
                                 /\ request[q].held > Held
          \/ \E r \in Counts : /\ count[r] # None /\ count'[r] # count[r]
                               /\ count[r].expected > Held]_vars
=============================================================================
