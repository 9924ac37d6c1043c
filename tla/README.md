# HUDHUD platform backend in TLA+

Models, model-checking runs and proofs for the HUDHUD platform backend: Python services, each with its
own PostgreSQL database, that take parcels from senders to hubs and on to receivers, and talk to each
other over HTTP and NATS JetStream. The project models the operations that change state in every
service: what several actors do to the same rows at once, what crashes, retries and redelivery leave
behind, and what the services tell each other. The path of a parcel from the driver who collects it to
the receiver's door, the money that is collected on the way, and the way the newer services save their rows
are modelled in most detail and are the part that is proved.

Paths are relative to the repository; `pickup/...` stands for
`services/pickup/src/pickup/...`, `shipment/...` for `services/shipment/src/shipment/...`, and so on
for the other services.

Contents: 1 inventory, 2 hard behaviours, 3 plan, 4 the modules, 5 the runs, 6 fairness, 7 the proofs,
8 where code and documents disagree, 9 what is not modelled, 10 how to run it.

## 1. Inventory

### The path of a parcel

    sender --HTTP--> ordering (the parcel, its label, a visit booked)
    driver app --HTTP--> pickup --outbox row--> relay --JetStream--> shipment (canonical custody)
    hub app ----HTTP--> pickup (handover) --outbox row--> relay, which refuses it (section 8)
    hub app ----HTTP--> hub (drop-offs, consignments, linehauls between hubs)
    driver app --HTTP--> delivery (manifest, the door, the outcome) --> finance (cash, payouts)
    shipment, delivery, hub, finance, ... --JetStream--> tracking, audit, notification, ...

Services share nothing but messages. Inside a service the shared state is its database (READ
COMMITTED); several request handlers, relay replicas and consumer replicas run against it at once, and
handler threads of one consumer replica share an object in memory. HTTP handlers are coroutines that call
synchronous services, so the transactions of one process do not overlap; those of two replicas do, and
`docker-entrypoint.sh:9` of each service provides for "several replicas".

### Components

| Component | State | Operations | Interaction | What makes it correct |
|---|---|---|---|---|
| Pickup outbox relay (`pickup/application/publisher.py`, `sqlalchemy_store.py`, `infrastructure/nats/publisher.py`) | `integration_outbox` rows: status, owner, lease, attempts, next attempt | recover stale claims, claim a batch, publish, write the decision back | replicas share the table; JetStream stores and acknowledges | nothing is marked published that the stream does not hold; claims exclude each other; every event settles |
| Shipment accepted-fact consumer (`shipment/worker.py`, `accepted_fact_coordinator.py`, `accepted_fact_uow.py`, `infrastructure/jetstream/worker.py`) | inbox rows, decisions, shipments; the store's session in memory | fetch, begin, insert inbox row, apply, mark, commit, answer, quarantine | JetStream redelivers; handler threads share the store | one verdict for each fact, custody and inbox row together, ACK only after the verdict |
| Shipment custody (`acceptance_service.py`, `accepted_fact_apply.py`, `handover_fact_apply.py`) | shipments, task snapshots, decisions, transfers, events, audit rows, idempotency keys | order intent, task registration, acceptance scan, accepted fact, handover fact | two consumers and HTTP requests write the same rows | custody is explained by its records, moves forward only, no write lost |
| Pickup attempts (`task_lifecycle_service.py`, `acceptance_service.py`, `recovery_service.py`) | task rows (a chain of attempts for each parcel), recovery history, idempotency keys, outbox | acknowledge, decline, arrive, scan, proof, exception, fail, refuse, not presented, accept; cancel, retry, reschedule, reassign | driver, operations and retries of both race | one chain, one acceptance, final |
| Pickup courier ceremony (`handover_verification_service.py`) | challenges (attempts, expiry, lockout), parcel manifests | issue, verify, submit, confirm, consume | the driver and the sender, before acceptance | one challenge and one manifest for one acceptance, of that parcel, in time |
| Pickup driver sessions (`driver_session_service.py`) | session row of each driver | start, pause, resume, end | several devices of one driver; what ties the driver changes meanwhile | one open session for each driver |
| Pickup offline synchronisation (`offline_sync_service.py`) | authorisations, streams, events, cases | authorise, revoke, sync a batch, resolve a case | replays driver commands after a disconnection, beside online work | each command applied at most once, in order; what is recorded is final |
| Hub handover (`pickup/application/hub_handover_service.py`) | manifests, their lines, task versions, outbox | list, arrive, cancel, receive or dispute a line, close | drivers list, hub workers scan, concurrently | a parcel is released once; counters and status tell the lines |
| Hub drop-offs (`hub/application/drop_off_service.py`) | drop-off rows, labels, codes | expect, walk in, capture, label, accept, expire, cancel | customers, staff and the sweep | one open drop-off of a code, one label for one parcel, custody announced once |
| Hub linehaul and processing (`processing_service.py`, `linehaul_service.py`) | presences, consignments, seals, linehauls | scan, sort, hold, group, seal, dispatch, arrive, check, reconcile | workers of two hubs | what departed is what was grouped; what is held stays |
| Finance: driver cash and deposits (`cash_service.py`, `ledger`) | append-only ledger, collections, deposits, route counts, the account with its limit | collect, set the limit, deposit, confirm, reject, count, resolve | driver, hub cashier, accountant, operations | balances never negative; every row explained by its entries; a parcel paid once |
| Finance: merchant settlement (`settlement_service.py`, `cod_service.py`) | payable balances, payouts, charges, refunds | collect, charge, refund, request and decide a payout, block | facts from delivery, merchants, operations | a payout's facts tell its row; no payout beyond the balance that was read |
| Delivery at the door (`delivery/application`) | manifests, stops, attempts, payments, photos, outbox | scan, depart, arrive, wait, verify, inspect, pay, deliver, refuse, fail, decide what next | driver, receiver, operations | delivered means verified, inspected and paid; facts tell the visit |
| Durable inbox of the newer services (`*/application/inbox_service.py`) | inbox rows | receive, handle, record the failure | brokers and their handlers (two services construct it, none binds it to a subscription) | effects and the record of them commit together |
| Unit of work of the newer services (`*/infrastructure/persistence/sqlalchemy_store.py`) | copies of rows in a session, the statements staged, the locks of a transaction | load, change, add, save, flush, commit, close | every request of ten services goes through it | what is saved is kept; only what is stale is refused; commits wait only where tables make them |
| Ordering: sends and amendments (`send_service.py`, `amendment_service.py`) | orders, parcels, labels, outbox | open, add, label, book, amend, correct, register, cancel | sender, support and merchants | what is announced is the row; no live label twice |
| Merchant office (`application_service.py`, `store_service.py`, `team_service.py`) | applications, branches, members, the merchant's version | apply, decide, create and archive branches, invite, answer, remove | applicant, owner, members, operations | one default branch, one membership of a number, facts in order |
| Merchant shelf (`label_stock_service.py`, `catalogue_service.py`) | categories, products, printers, label batches | create, rename and delete a category, save a product in one, lend and take back a printer, issue and draw labels | members of a merchant | no label counted twice; one open category of a name |
| Claims and incidents (`claims/application`) | claims, threads, incidents | file, review, decide, withdraw, message; report, investigate, resolve | claimant, support, drivers | one open claim of a parcel, decisions stand |
| Sign-in (`identity/application`) | challenges, sessions, grants, the principal's status | ask for a code, verify, revoke, block, grant | the person, whoever guesses, administration | a code opens one session; a block ends sessions |
| Workforce (`workforce/application`) | applications, shift patterns, starts, blocks, leave | apply, verify, set shifts, start, unblock, ask for leave, decide | driver, office, the clock | one profile, pattern and block; days that began stay |
| Notification (`notification/application`) | profiles, opt-outs, messages | fan out, dispatch, mark | facts, external transport | a receiver who is told anything is told by SMS; no message unaccounted for |
| Customer address book (`address_book_service.py`) | addresses, contacts | make, choose, archive, restore | requests of one customer | one default address |
| Tracking timeline and audit log consumers | inbox, insert-only projections, dictionaries in memory | consume | JetStream redelivers; handlers share the store | each observation recorded once |
| Legacy event bridge (`legacy_event_bridge/application`) | landing rows, checkpoint, outbox | poll, land, advance the slot, map | the replication slot of the legacy database; mappers | no captured change missed |
| Pickup discovery, stops, workload; hub administration; catalogue, pricing, public tracking | reference data, read models | read, group, set | none | |
| Event envelope and the contracts on it (`packages/event_envelope`, the fact mappers of pickup and the bridge, the validators of shipment, tracking and audit) | none | build, parse, validate | what one service writes another reads | what a producer sends its consumer takes, and takes as it was meant |
| HTTP authorisation | none | authorise | | |

## 2. Hard behaviours

`PROJECT.json` lists each hazard at its line with the properties that cover it. They fall into groups:

- *Leases that lapse under a working owner.* The outbox relay publishes outside any transaction and
  writes its decision back by row id, without looking at owner, lease or status. The bridge's mappers
  list rows under a lock that ends before they work on them.
- *A transaction shared by threads.* The accepted-fact store keeps the open transaction in one
  attribute; each handler thread of a worker begins, writes, commits and rolls back through it. The
  timeline and log consumers share dictionaries in the same way.
- *Redelivery and crashes between commit and acknowledgement,* on both sides of the broker; handlers that
  fail half way and are recorded as failed together with what they had done.
- *Read, decide, write under a version check,* in every service: two requests that read the same row,
  or rows of different tables that must agree (an attempt and its replacement; a shipment and its task).
- *Reads without a lock that several rows depend on:* listing a manifest, cash held by a driver, the
  parcels a deposit pays for, a merchant's balance, the default among addresses or branches, the open
  claim of a parcel, the leave that protects a day.
- *Writes that no version orders:* payments and photos beside a stop, a driver session updated by its
  key alone, a message in a claim's thread, a parcel added to a consignment that already names it.
- *Long legal sequences:* an attempt that is refused, reported, taken up again and accepted; a parcel
  that goes through several manifests, or is held after it was grouped.
- *Retries of commands whose answer was lost,* and captures that arrive out of order: the meaning of
  idempotency keys and of sequence numbers.

## 3. Plan

The order was by what depends on it: custody of the parcel first, money second, the rest after.

| # | Modules | Subject | Status |
|---|---|---|---|
| 1 | `OutboxRelay`, `OutboxRelayProofs` | relay replicas on one outbox | done, all safety properties proved |
| 2 | `FactConsumer`, `AcceptOnce`, `FactConsumerProofs` | accepted-fact consumer and the abstract promise it implements | done; the refinement is proved |
| 3 | `ShipmentCustody` | canonical custody | done, proved in `LastMileProofs` |
| 4 | `PickupAttempt` | attempts of a parcel | done, proved in `PickupProofs` |
| 5 | `HubHandover`, `HubHandoverProofs` | manifests and receipts | done, proved |
| 6 | `CourierCeremony`, `DriverSession`, `OfflineSync`; `Pickup`, `PickupProofs` | the other state of the pickup service, and the service as a whole | done, proved |
| 7 | `CashCustody`, `MerchantSettlement`; `Finance`, `FinanceProofs` | the two halves of finance, and the service as a whole | done, proved |
| 8 | `DeliveryStop`, `HubLinehaul`, `HubDropOff`; `LastMile`, `LastMileProofs` | the hubs and the door, and with custody the places a parcel passes | done, proved |
| 9 | `Sends`, `MerchantOffice`, `MerchantShelf`, `ClaimDesk`, `SignIn`, `Workforce`, `AddressBook` | the services where records are kept | done, proved in `DesksProofs` |
| 10 | `Notices`, `DurableInbox`, `TimelineConsumer`, `BridgeLanding`, `WireContract` | what happens to events elsewhere | done, proved in `DesksProofs` |
| 11 | `ServiceTables`, `UnitOfWork`, `UnitOfWorkProofs` | how every newer service reads and saves a row | done, proved |
| 12 | `Desks`, `DesksProofs` | the handover, the consumer with a shared session and the modules of lines 9 to 11, each at its place; their properties together | done, proved |
| 13 | `CustodyPath` | composition: PickupAttempt and HubHandover write outbox rows, the relay delivers them at least once and out of order, ShipmentCustody applies them; abstract specification: custody in shipment is a prefix of custody in pickup | left |

Left besides `CustodyPath`: the parts listed in section 9.

## 4. The modules

Every module has the same shape: constants with named assumptions, the state of the tables and of the
processes as variables, one action for each operation or for each step between which another actor can
run, a specification, and the properties with what they say of the code. Definitions called `Mut...`
are altered forms of a definition: each property is shown to fail when the definition below it is
replaced by the altered form, which is what a bug in that code would do.

Three conventions hold in all of them.

- *How much is one step.* A transaction that decides on rows it does not write, or writes what it read
  earlier, is two steps: a request first reads (`Begin...`, `Read...`, with what it read kept in
  `request`, `seen` or `opened`) and writes later, if the version predicate or the unique index lets it.
  A transaction that looks only at the row it then writes under the version it read is one step: it
  commits only if nothing came between. Where rows are locked from read to commit, the lock is either
  modelled (`HubHandover`) or makes the transaction one step (`OfflineSync`, a ceremony's challenge).
- *Refusals.* `GiveUp`, `Leave`, `Refused`, `Abort` stand for every refusal and every rollback; a request
  may be refused at any time, so no property relies on a refusal that the model does not state.
- *Facts.* An outbox row is a member of `facts` (or `told`, `accepted`, `outbox`), written in the step
  that writes what it is about, because the code commits both in one transaction.

### OutboxRelay

| Model | Code |
|---|---|
| `status, owner, lease, attempts, due, publishedAt` | columns of `integration_outbox`; time only as "lease held or lapsed" and "due or not" |
| `pc, batch, snapshot, current, answer` | where a relay is in `OutboxPublisher.publish_pending`, the records it claimed as it read them |
| `copies, window` | messages stored in the stream, and the broker's duplicate window |
| `RecoverStale`, `ClaimBatch`, `ClaimNothing` | one transaction each (`recover_stale_processing`, `claim_batch` with FOR UPDATE SKIP LOCKED) |
| `Publish` | the broker call, outside any transaction: the event may be stored with the acknowledgement lost |
| `ApplyDecision` | `apply_publish_decision`: decides on the claimed snapshot and overwrites the row by id |
| `LeaseLapsesUnderOwner`, `LeaseLapsesAbandoned`, `Crash`, `Restart`, `WindowCloses`, `BackoffElapses` | time and failures |

The same relay code exists in the legacy event bridge.

### FactConsumer and AcceptOnce

`FactConsumer` has one handler step between any two points where another thread or replica can run:
the test of `begin()`, its assignment, the insert of the inbox row, the read of the shipment, its
write, the mark, the commit and the broker answer. A transaction is the set of writes it would commit,
kept for each replica and not for each handler, because that is where the code keeps it
(`SqlAlchemyAcceptedFactStore._session`). Unique keys, row locks and the version compare-and-swap
behave as PostgreSQL's at READ COMMITTED. `AcceptOnce` is the abstract promise: a verdict for each fact
that never changes, custody started only by the fact that is applied, nothing forgotten by the broker
before its verdict. `AcceptsOnce` in FactConsumer is the refinement: the inbox row is the verdict, the
shipment's holder the custody, the acknowledged messages the forgotten ones. `begin()` tests and sets
the session in two steps, and refuses a handler that comes while a transaction is open; only when two
handlers have both passed the test (`BeginRace`) do they get into one another's transaction. What the
module promises holds until then, for any number of handlers on a replica; what is lost afterwards is the
subject of `accept_shared_lost`. `CustodyStartsOnce` holds always. `DbError` is a failed statement:
PostgreSQL drops the transaction and its locks, but the session stays open and is never cleared.

### ShipmentCustody

One level up: a transaction reads its rows in one step and writes and commits in another; what happens
in between is FactConsumer's subject. `shipment`, `task`, `decision`, `transfer`, `events`, `inbox`
and `idem` are the committed rows; `request` and `seen` are what each transaction in flight is about
and has read; `wedged` are the workers whose store was left with an open transaction. Accepted facts,
handover facts and acceptance scans write the same shipment row from what they read, under its version;
a redeployment may switch the ingestion mode while requests of the other mode are in flight.
The handover facts are those the consumer is written for; as the relay is, none arrives (section 8).
`RecordsTellCustody` is the conjunction of the type invariant, `CustodyExplained` (custody agrees with
decision and transfer), `VersionCountsWrites` (no write lost or counted twice) and `AnswersAreTrue`
(processed facts and recorded keys had their effect).

### PickupAttempt

The attempts to pick up one parcel: `row` holds each task row (status, assignment, packaging
judgement, stop outcome, acceptance, attempt number, parent, replacement, version). A request reads a
row in `Begin` and writes it in another step if `Current` (the UPDATE's version predicate) still holds.
Driver steps change one row; `Accept` also inserts the idempotency key and the outbox fact; recoveries
close the attempt, insert its replacement, the history entry and the key's record. `RecoveriesAgree` says
that recoveries do not fork the chain, that each closed attempt has its history entry, and that a key
answers one command; `NothingIsTakenBack` that an acceptance, and the outcome of a stop, are final.

### CourierCeremony, DriverSession, OfflineSync

The rest of the pickup service's state. In `CourierCeremony` a request reads the task (`ReadTask`),
then works on the open challenge or manifest under a row lock (`IssueChallenge`, `VerifyChallenge`,
`SubmitManifest`, `ConfirmManifest`); `Accept` writes the task under the version it read and burns one of
each; `ChallengeLapses`, `LockoutEnds` and `ConfirmationLapses` are time. In `DriverSession`, `Start` and
the taking of work (`Acknowledge`, `AcceptParcel`, ...) lock the session; a pause, a resume and an end read
it (`Begin`), look at the workload (`CheckWorkload`) and update it by its key (`Finish`), so the last
writer wins. `OfflineSync` is the whole of `sync` for a batch: `ProcessSubmission` is
`_process_submission` on the working copy `w` (replay, conflict, resend, gap, resume, flaw, application),
`Sync` folds it over the batch and commits, or answers that the version is stale (`CommitsTask`).

### HubHandover

`create_manifest` is split where the code is: for each parcel one query for lines a hub has received
(`CheckCustody`) and one for active manifests (`CheckActive`), then the inserts, which the partial
unique index may refuse (`DuplicateLine`). Every other operation takes the manifest's row lock
(`Lock`), works on what it read then (`seen`) and commits. `RecordHubReceipt` writes line, counters,
completion status, task version and the outbox fact in one commit.

### HubDropOff, HubLinehaul, DeliveryStop

`HubDropOff` and `HubLinehaul` have one action for each command of their services, named as there.
`adding` in `HubLinehaul` is the one request that outlives its read: a parcel added again to the
consignment that names it. `told` are the parcels announced as held, `failed` the consignments whose
seal did not match. `DeliveryStop` has the row of each stop, and beside it, unversioned as in the code,
the attempts at verification (`checked`), `photos`, `payment`, the decision about a failed visit
(`failed`), and the facts. `Save` is the UPDATE under the version; `CompleteDelivery`,
`RecordRefusal`, `RecordAbsence` and `RecordVerificationFailure` end a visit; `ReturnPastTheirHold` is
the sweep over overdue holds, which goes over every undecided stop.

### Pickup, Finance, LastMile

Each puts the modules of one line of the plan side by side, with the state of every module as variables
and a variable (`part`, `half`, `place`) that says which of them a behaviour is about. The tables are
disjoint and no step of one waits for another, so nothing is lost by looking at one at a time; the
modules' properties become properties of one specification, which is what the runs check and the proofs
are about.

### ServiceTables and UnitOfWork

`ServiceTables` lists the tables of each newer service in the order in which a commit writes them, with
the kind of each (how a changed row is told from a new one) and its lookups: those that answer with what
the request saved itself, and those that go past it to storage. `UnitOfWork` is any request at such rows: it
takes copies (`Look`, `LookPast`, `Make`), changes them (`ChangeIt`), saves them into a stage of its own
(`Save`, which infers the version the row must have), and commits: `Commit`, then one statement after the
other (`ReplaceRow`, `MissRow`, `AddRow`), each of which waits for a row that an open transaction has
written, then `Publish`. The sessions are made with `autoflush=False`, so what a request adds is written
after everything it replaces. `landed` is history: the changes whose requests were told they are saved.

### CashCustody and MerchantSettlement

What a driver holds is not stored: `Held` sums the journal, `ledger`, whose entries are named by reason
and subject (`COLLECTED` a parcel, `DEPOSITED`, `VERIFIED` and `REJECTED` a deposit, `ADJUSTED` a route
count); the amount is in the subject's row. `parcel`, `deposit`, `count` and `account` are those rows,
`settled` and `breaches` the facts in the outbox. A request that decides on other rows than it writes
reads in `Begin` (the balance, the unsettled collections, the account) and commits later: collections,
deposits, confirmations at a hub, counts. `Readable` is `balance_of`, which raises below zero; a deposit
reads the balance once more after staging its posting, which is the same comparison. Parcels are named
by their time of collection, by which `_mark_collections_settled` orders them. `BooksAgree` says that one
entry stands for each collection, deposit and decision, that a parcel is paid through one confirmed
deposit, and that breaches come in order.

`MerchantSettlement` is the other side: what is `collected`, the `charges` and `refunds` of each parcel,
the rows of payouts. `ReadBalance` and `RequestPayout` are two transactions, as in the code.

### Sends, MerchantOffice, MerchantShelf, ClaimDesk, SignIn, Workforce, AddressBook

One action for each command, named as in the services. `Sends` reads any set of rows (`Read`: one parcel,
or the live parcels of an order for a booking) and writes each under its version (`Write`). In
`MerchantOffice` a request about branches reads them all (`BeginStores`), since a default is taken from
another; a request about the team reads the merchant, whose version every change of the team advances
(`WriteMember`, `Announce`). In `MerchantShelf` a request that looks at one row and writes another (the
products of a category it deletes, the category of a product it saves, the printer it issues labels for)
reads in a `Begin...` action and writes later, and so does a draw on a batch; `drawn` is history, the labels
requests were told they have. In `ClaimDesk` a reviewer's and a decider's requests carry the row they read.
`SignIn` has the steps of a code (`BeginCode`, `SendCode`, `BeginVerify`, then one of `GuessWrong`,
`RefusePrincipal`, `MintSession`), and a block as it is carried out: set the status, list the sessions,
revoke those. In `Workforce` the patterns, starts, blocks and leaves of one driver; `FindCovering` is the
query that decides which leave protects a day, with its order of statuses; `Eligible` is who may be given
work. `AddressBook` carries a commit out statement by statement (`After`, `IndexHolds`), because the unique
index on defaults is checked by the statement.

### Notices, DurableInbox, TimelineConsumer, BridgeLanding, WireContract

`Notices`: `Begin` plans every message of a fact on the preferences it reads, `Commit` writes them all or
none; a dispatch loads, sends and saves the outcome. `DurableInbox` is `InboxService.receive` with the
finance ledger as its handler: what a failing handler staged is committed with the record of the failure.
`TimelineConsumer` is the coordinator and store that tracking and audit share in form: `store` is the open
session with the dictionaries that `begin()` replaces, `merged` what each session holds uncommitted. `commit()`
is three steps, one for each of its loops (`MergeRecords`, `MergeEntries`) and the flush (`Commit`), between which
other handlers replace or clear what it reads; a worker has four by default (`tracking/config.py:85`,
`audit/config.py:64`). `Desks` has two places for it: in `log` the transactions of two handlers may overlap, in
`timeline` they do not (`Apart`). `BridgeLanding`: `Poll`, `LandBatch`, `MarkFeedbackEligible`,
`SendFeedback`, `MarkExternalSlotAdvanced` are the phases of a tick, `List` and `Map` or `Fail` the two steps
of a mapper. `WireContract` follows one message: `request` is what pickup was asked to record or the row the
bridge landed, `row` the outbox row its builder enqueued (or its refusal), perhaps as a later release would
write it (`WriteLater`), `letter` what the relay published of that (`Publish`; pickup's validates every row as an
acceptance, the bridge's looks at nothing), and `read` what the consumer it reached took. The builders and
the validators are translated separately, each with the conditions of its own file. `ContractsMeet` compares what is
enqueued with its schema, and what is published with what its consumer reads; that what is enqueued is published
is `EnqueuedIsPublished`, which fails (section 8).

### MC modules

`Pickup`, `Finance`, `LastMile` and `Desks` put modules together: a behaviour chooses its part or place at the
start and stays with it, so the states are the sum of the modules' states and not their product. `Desks`
extends `HubHandover` and instantiates the modules that have no composition of their own, FactConsumer with
handlers that share a session, and UnitOfWork; those other than the handover share the variables `x1` to
`x18`, of which each uses as many as it has. A property of such a composition is the conjunction of the
properties of its modules, each for its own place; the modules say what they mean.

An MC module extends one of these, or a single module, with what a finite instance needs: the sets it is
checked with and the bounds of a run. `MCLastMile` checks the door twice, with two sets of constants
(`everything`), and lets idle workers of custody take requests in one order. `MCDesks` takes one
configuration of constants for all places and narrows it for each by predicates on states (`...InBounds`),
such as a single incident, or branches without a team; `MCSpec` is `DesksSpec` within
these bounds, so what holds of `DesksSpec` holds of it. Wherever two actors work in a place, they are two model values of the
symmetry set `Alike`. `Places` in a configuration says which places a run
visits.

## 5. The runs

| Run | Instance | Question | Distinct states |
|---|---|---|---|
| `outbox_settles` | 1 row, 2 relays, 3 attempts, 1 crash, 2 lapses, fair | `PublishedIsInStream`: published means stored; `CopiesWithinAttempts`: duplicates are bounded by attempts; `ExclusiveUnlessLapsed` and `TerminalUnlessLapsed`: claims exclude each other and terminal rows stay, as long as no lease lapses under a working owner; `EventuallySettled`: every event ends published or quarantined for good | 81 560 |
| `accept_apart` | 2 facts for 1 shipment, 2 replicas, one with a second handler in half of the behaviours, 3 deliveries, 3 attempts, 1 failed statement, 2 failures (1 where two handlers share a replica), 1 lost answer, fair | `ProcessedIsApplied`: inbox row and custody commit together; `AcceptsOnce`: the refinement of AcceptOnce; `DecidedByOneEach`: with one handler each, every fact is decided or its deliveries are used up by failures | 241 399 |
| `pickup_parts` | attempts: 2 attempts, 2 requests, 2 keys, REASSIGN and CANCEL, versions to 7; ceremony: 2 challenges, 2 manifests, 2 identifiers, 2 guesses, 2 requests; sessions: 2 sessions, 2 requests; offline: 1 stream, 3 operations, 6 submissions in batches of one or two | `TypesOK`; `RecoveriesAgree`; `AcceptedOnce`; `NothingIsTakenBack`; `OneCeremonyOneAcceptance`; `LapsedVerificationIsFinal`; `OneOpenSession`; `StreamsKeepTheirOrder`; `OutcomesAreFinal` | 506 495 |
| `finance_halves` | cash: 2 parcels of one total, 2 deposits of 1 or 2, 2 methods, 1 route count, 2 requests, account versions to 3; merchant: 2 parcels of 1 and 2, 2 payouts, 2 charges and 1 refund of a parcel, 2 requests | `TypesOK`; `BooksAgree`; `DepositCovers`: never more than the amount; `OnlyStaleGoesNegative`: which steps can take the cash below zero; `PayoutFactsTellTheRow`; `OnlyAMovedBalanceOvercommits` | 1 075 118 |
| `places` | custody: 1 shipment, 2 drivers, 2 hubs, 2 accepted facts, 2 handover facts, 2 scans (one rejects), 2 workers, 1 mode switch, 2 registrations, 1 restart; counter: 3 drop-offs, 2 codes, 2 labels; road: 2 hubs, 1 parcel, 2 consignments, 1 linehaul; door: 2 stops of a parcel that asks for everything (one visit), and of one that asks for a code (two visits) | `TypesOK`; `RecordsTellCustody`; `CustodyMovesForward`; `CounterIsInOrder`; `ConsignmentsTellParcels`; `OnlyADispatchFrees`; `HandedOverInOrder`; `FactsTellTheVisit`; `SettledAtTheDoor` | 1 000 767 |
| `records` | hub handover (2 parcels, 2 manifests, 2 workers), FactConsumer with two handlers on one replica (3 facts, one malformed, 2 deliveries), the modules at the services' desks: two requests each on one to three rows, the timelines' consumer with two handlers, one message of each contract, and a unit of work: two requests at one row of a table of any kind, one of which changes it twice, or at two rows that each changes once before it saves them | `TypesOK`; `ReleasedOnce` and `BooksAgree`: a parcel is released and announced once, counters and status tell the lines; `ClosedForGood`; `CustodyStartsOnce`: even with a shared session, unique keys keep custody from being restarted; `StoriesAgree`, `OneAtATime`, `NothingIsUndone` | 737 356 |
| `accept_shared_lost` | 2 facts for 2 shipments, 1 replica with two handlers | finding: `AckedIsDecided` is violated | |
| `hub_cancelled` | 2 parcels, 2 manifests, 2 workers | finding: `CancelledReleases` is violated | |
| `offline_batch` | the offline part of `pickup_parts` | finding: `BatchesAreAnswered` is violated | |
| `broken_seal` | the door of `places` | finding: `BrokenSealStopsTheHandover` is violated | |
| `timeline_redelivered` | the timeline of `records`: 2 events of one source row and a malformed one, 2 handlers whose transactions do not overlap, 2 deliveries | finding: `RedeliveriesAreAcked` is violated | |
| `receipt_quarantined` | one message of each contract | finding: `EnqueuedIsPublished` is violated | |

`StoriesAgree`, `OneAtATime` and `NothingIsUndone` collect the properties of the modules at the desks:

- `StoriesAgree`, what is told, sent, acknowledged or passed on agrees with the rows:
  `Sends!SendsTellOneStory`, `Notices!NoticesAreWhole`, `DurableInbox!EffectsTellTheRecord`,
  `MerchantOffice!OfficeIsInOrder`, `MerchantShelf!ShelfIsCounted`, `BridgeLanding!NothingIsMissed`,
  `TimelineConsumer!TimelineTellsTheRecord`, `WireContract!ContractsMeet`; and what a request was told it
  has saved stays saved, `UnitOfWork!SavedIsKept`.
- `OneAtATime`, where there may be one, racing requests do not make two: `SignIn!CodesOpenOneSession`,
  `ClaimDesk!OneClaimAtATime`, `Workforce!WhoMayWork`, `AddressBook!OneDefault`; and commits wait for one
  another only over rows of one table or where rows are added, `UnitOfWork!WaitsAreInOrder`.
- `NothingIsUndone`, what was decided, ended or recorded is not undone by a request that read the rows
  before: `SignIn!SessionsStayEnded`, `ClaimDesk!DecisionsStay`, `Workforce!DaysStay`,
  `TimelineConsumer!RecordsStay`; and `MerchantShelf!OnlyRacesOrphan`, which says that only such a request
  leaves a product in a deleted category or labels on a printer that was taken back; and a commit is refused
  only over a row that moved or whose changes do not follow its saves, `UnitOfWork!OnlyForAReason`.

### Why the bounds are enough

- Two replicas, workers or requests: every race in this code is between two transactions on one row
  or between a transaction and a recovery; a third only repeats one of them. `DurableInbox` has three
  workers, since a failure must be raced by two redeliveries.
- *Outbox.* Three attempts reach the quarantine limit after two retries. Two lapses let a second relay
  hold the row the first still works on, and lose it in turn; one crash between acknowledgement and
  decision is the crash that matters. One row, because rows do not meet but in a batch; the theorems of
  section 7 cover every number of rows, relays, crashes and lapses.
- *FactConsumer.* Two facts of one shipment are what must exclude each other. Three deliveries, two
  failures and a lost answer: the first delivery fails, the second is a duplicate, the third decides; and
  they are few enough to be used up, by two crashes and the race of two facts for the shipment's version, or by a
  failed statement after which `begin()` refuses the others. Two handlers that share a replica, beside a second
  replica, let one be refused while the other's transaction is open. The run `records` adds a malformed fact,
  because the quarantine path begins a second transaction in the same handler. The two facts are alike, so
  the one fetched first is called f1.
- *ShipmentCustody.* Two acceptances by different drivers, two handovers by one driver that name different
  hubs, a scan that accepts and one that rejects: each pair of
  requests occurs in both orders and overlapping. Two registrations put one between the read and the
  write of a scan.
- *PickupAttempt.* `MaxVersion` bounds the writes of one attempt: 7 takes it from the offer through
  arrival, scan and proof to acceptance with a detour to spare. Two attempts let two recoveries race for
  one replacement, and put a closed attempt beside an open one; a chain with a middle needs a third, and
  the theorems of section 7 cover chains of every length. The four recoveries write the same columns
  (retry, reschedule and reassign differ in driver and window), so a run uses one of them and CANCEL.
- *The other pickup parts.* Two challenges and two manifests: one that lapsed or was used up, and its
  successor; two identifiers: the parcel's and another. The six submissions contain a gap, a capture
  sent twice, one operation at two places, two operations at one place, and both kinds of flaw.
- *HubHandover.* Two parcels let a manifest be partly received; a second manifest lists a parcel that was
  cancelled or missing on the first. Three manifests are covered by the theorems. Parcels and manifests
  have no order, so the first to be used is the one with the lower number (`NumbersInOrder`).
- *Finance.* Two parcels of equal total and deposits of one or two totals: a deposit covers none, one
  or both, and two deposits compete for the same parcels or the same cash. One count can be short,
  balanced or over, and be resolved after the cash has left. Three account versions let two breaches, or a
  breach and a change of the limit, race. The bank transfer is left to the theorems: it differs from the
  exchange office only in posting nothing when it is confirmed. On the merchant's side amounts of 1 and 2
  make a payout fit or not after a charge.
- *Hubs and door.* Two drop-offs may share a code or a label, a third takes what was freed. One parcel and
  two consignments let a parcel be grouped, held, removed by a dispatch and grouped again; the second
  consignment may go the wrong way. A linehaul is planned when its consignment is opened, since only its
  departure waits for that. Of the stops that ask for a code the first of the round reaches each outcome within three
  versions, the second takes the parcel out again; the stop that asks for everything needs eight.
- *Desks.* The bound on versions lets each row be written by both requests and once more. Three addresses
  and branches: one to archive, one to promote and one to choose meanwhile. Three shift patterns and two
  days put a change read before midnight after another. Three changes of the legacy database, of which
  one is not allow-listed and one cannot be mapped. Two categories that want one name and one product that may move
  between them; one printer and two batches of two labels, from which two requests draw at once. Every message
  a contract allows, one at a time: messages do not meet before a consumer's tables, which are other modules'
  subject. Two events of one source row and a malformed one: four deliveries in all where transactions do not
  overlap; three of one good and one malformed event where they do, which is enough for a handler to
  begin, or to clear the store, between any two steps of another's commit.
- *UnitOfWork.* At one row, tables of every kind and with every lookup such a table has; one request saves
  what was changed twice (the case in which the version it infers is another's), the other once. Two rows are
  what two requests can wait for in opposite orders; there a request reads each row once and changes it once
  before it saves it, since what a row does to itself is seen at one row.

`CHECK_DEADLOCK FALSE` appears wherever a behaviour ends when every fact is acknowledged, every row has
reached its end and every bound is used up; the relay never stops, and its run checks for deadlock.

Symmetry is used in safety runs of modules whose sets have no order, never where a temporal property
with fairness is checked.

## 6. Fairness

Only two runs need it.

- *OutboxRelay, `FairSpec`.* Weak fairness of each relay's own steps (`run_until_stopped` loops without
  end), of its restart (the container runtime restarts a process that exits), of a retry's due time and
  of the expiry of an abandoned lease (time passes). Nothing is assumed of the broker: it may refuse or
  lose every answer, and the event then settles as quarantined. Nothing is assumed of crashes, of slow
  owners or of the duplicate window. `EventuallySettled` says `[](... terminal)` because, after a lapse,
  the unfenced write-back can take a terminal row back; the bound on lapses is what ends that.
- *FactConsumer, `FairSpec`.* Weak fairness of each handler's steps (a thread runs on, a lock is granted
  when its holder ends), of `ack_wait` and of the processing lease (time passes), strong fairness of the
  delivery of each message (the worker fetches again and again, but a message is deliverable only
  between two attempts). `EventuallyDecided` leaves no behaviour out, not those with failed statements
  either: each fact is decided, or its deliveries are used up (`UsedUp`), and that takes a failed statement, after
  which the replica refuses whatever it is handed (section 8), or a crash for each delivery but one. Lost and
  late answers and competing facts alone never use them up. It is checked for one handler on each replica
  (`DecidedByOneEach`): several refuse each other's facts at `begin()`, with a NAK that asks for redelivery
  at once, and can use up the deliveries of a fact without any failure.

## 7. The proofs

TLAPS proves the following for every value of the constants that satisfies the named assumptions.
Each follows from an inductive invariant of its module.

| Theorem | Statement | Assumes |
|---|---|---|
| `OutboxRelayProofs!RelayInvariant` | the invariant below | `RelayConstants` |
| `RelayTypeCorrect`, `PublishedStored`, `ClaimsExclusive`, `TerminalIsFinal` | `[]TypeOK`, `[]PublishedIsInStream`, `[]ExclusiveUnlessLapsed`, `TerminalUnlessLapsed` | |
| `CopiesAreCounted` | `[]CopiesWithinAttempts` | (relays are finitely many) |
| `FactConsumerProofs!ConsumerTypes`, `CustodyNeverRestarts` | `[]TypeOK`, `CustodyStartsOnce`, with any handlers on any replicas | `ConsumerConstants`, `NoSessionIsNone` |
| `RowAndCustodyAgree`, `AcksFollowVerdicts`; `ImplementsAcceptOnce` | `[]ProcessedIsApplied`, `[]AckedIsDecided`; `AcceptsOnce`, the refinement of AcceptOnce | these, with any handlers on any replicas, of behaviours without a `BeginRace` |
| `LastMileProofs!CustodyInvariant` | the invariant of ShipmentCustody below, with `TypeOK` | `CustodyConstants` |
| `CustodyIsExplained`, `NoWriteIsLost`, `AnswersHold`; `CustodyIsRecorded`; `CustodyForward` | `[]CustodyExplained`, `[]VersionCountsWrites`, `[]AnswersAreTrue`; all of them, `[]RecordsTellCustody`; `CustodyMovesForward` | |
| `LastMileInvariant`, `ServiceRunsItsPlaces` | the four invariants of LastMile below; a behaviour of LastMile is a behaviour of each of its modules | these, and `CounterConstants`, `RoadConstants`, `DoorConstants` |
| `LastMileTypes`, `CounterStaysInOrder`, `ConsignmentsAgree`, `OnlyDispatchFrees` | `[]TypesOK`, `[]CounterIsInOrder`, `[]ConsignmentsTellParcels`, `OnlyADispatchFrees` | |
| `HandoversInOrder`, `VisitsAreTold`, `SettledStays` | `[]HandedOverInOrder`, `[]FactsTellTheVisit`, `SettledAtTheDoor` | |
| `PickupProofs!AttemptTypes`, `AttemptsFormAChain`, `ParcelIsAcceptedOnce`, `AcceptanceIsFinal` | `[]TypeOK`, `[]LineageIsAChain`, `[]AcceptedOnce`, `AcceptedIsFinal`, from the invariant below | `AttemptConstants`, `NoneIsNoRow` |
| `HistoryTellsAll`, `KeysAnswerOnce`, `StopOutcomesLast` | `[]HistoryIsComplete`, `[]KeyAnswersOneCommand`, `StopOutcomeIsKept` | |
| `RecoveriesAlwaysAgree`, `RecordedForGood` | `[]RecoveriesAgree`, `NothingIsTakenBack` | |
| `PickupInvariant`, `ServiceRunsItsParts` | the four invariants of Pickup below; a behaviour of Pickup is a behaviour of each of its modules | these, and `CeremonyConstants`, `DutyConstants`, `OfflineConstants` |
| `PickupTypes`, `CeremonyAuthorizesOnce`, `LapsedIsFinal`, `OneSessionOpen` | `[]TypesOK`, `[]OneCeremonyOneAcceptance`, `LapsedVerificationIsFinal`, `[]OneOpenSession` | |
| `StreamsInOrder`, `OutcomesLast` | `[]StreamsKeepTheirOrder`, `OutcomesAreFinal` | |
| `HubHandoverProofs!HandoverInvariant` | the invariant below | `HandoverConstants` |
| `HandoverTypes`, `CustodyReleasedOnce`, `CountersAreRight`, `StatusIsRight`, `ClosedStaysClosed` | `[]TypeOK`, `[]ReleasedOnce`, `[]CountersAgree`, `[]StatusTellsLines`, `ClosedForGood` | |
| `HandoverBooksAgree` | `[]BooksAgree` | |
| `FinanceProofs!CashInvariant` | the invariant of CashCustody below | `CashConstants`, `NoneIsNothing` |
| `CashTypes`, `LedgerIsExplained`, `ParcelsSettleOnce`, `BreachesInOrder`; `CashBooksAgree` | `[]TypeOK`, `[]LedgerTellsRows`, `[]SettledOnce`, `[]BreachesAreOrdered`; the last three, `[]BooksAgree` | |
| `DepositsCover`, `StaleGoesNegative` | `[]DepositCovers`, `OnlyStaleGoesNegative` | |
| `FinanceInvariant`, `FinanceTypes`, `PayoutsAreTold`, `MovedBalanceOvercommits` | the invariants of both halves; `[]TypesOK`, `[]PayoutFactsTellTheRow`, `OnlyAMovedBalanceOvercommits` | these, and `SettlementConstants` |
| `UnitOfWorkProofs!UnitTypes`, `RefusalsAreFounded`, `WaitsFollowTables`, `SavedStays` | `[]TypeOK`, `RefusedForAReason`, `[]WaitsAreInOrder`, `[]SavedIsKept` | nothing |
| `DesksProofs!ShapesAreKept`, `StoriesAlwaysAgree`, `NeverTwoAtATime` | of all places of `Desks`: `[]TypesOK`, `[]StoriesAgree`, `[]OneAtATime` | `HandoverConstants`, and one for each module: `SendsConstants` to `ConsumerConstants` of `Desks` |
| `NothingIsEverUndone`, `SharedCustodyStartsOnce` | `NothingIsUndone`, `CustodyStartsOnce` | |

The assumptions are about the constants only: parameters and numbered rows are natural numbers, a stream is
numbered from 1, routes lead from hub to hub, what parcels ask for is a set of terms; `NoRow`, `NoRelay`,
`NoSession` and `None` are not members of the sets they stand beside, and the functions that describe
requests are total. TLC evaluates them on every run of the module.

*OutboxRelay.* `PublishedIsInStream` is not inductive: the write-back trusts an answer a relay got
earlier. The invariant adds `AckMeansStored` (a relay that holds "ack" holds it for a stored event, and
so does the duplicate window) and `AnswerOfBatch` (the answered row is one of the relay's batch).
`ExclusiveUnlessLapsed` needs `BatchIsClaimed`: while no lease has lapsed, a row in a relay's batch is
PROCESSING, owned by it and under a live lease, so that neither recovery nor another claim touches it.
`CopiesWithinAttempts` is a count over relays: `ClaimsPayForCopies` says that the copies of a row and the
claims on it that have not been published yet (`Unspent`, a finite set of relays) are together no more
than its attempts; a claim adds one to both sides, a publish turns one into the other.

*FactConsumer.* Two arguments. With any number of handlers on a session hardly anything can be said of
what it holds, but a session that updates a shipment also holds a decision for it and the other way
round (`SessionsWriteTogether`), and a decision is unique by its key when the commit flushes: custody
starts once. Until two handlers race at `begin()` (`[]~BeginRace`) at most one handler of a replica is in the
replica's transaction, however many it has (`Alone`): the others are refused. The invariant then says what the open
transaction of that handler is at each of its steps (`HandlerIs`, `TransactionIs`): nothing, its own fact's
row, or that row with the decision and version 2 of the one shipment. What it read is still true when it
commits (`RowsStand`) because the keys and the row it wrote block every other transaction (`Excludes`).
A commit then does one of the steps of AcceptOnce (`Records`), an ACK another, and everything else is
a stutter. `accept_shared_lost` shows that `AcksFollowVerdicts` fails after a `BeginRace`. The
assumption is about the behaviour and not about the configuration: a worker with its default of four handlers
meets it as long as no two of them are between the test and the assignment of `begin()` at once.

*ShipmentCustody.* The write-back puts what was read over what is stored. `SeenIsCurrent` makes that
harmless: what a transaction read has a version not above the stored one, and where the two versions
are equal the whole rows are equal. Every write raises the version by one, so `Fresh` at commit means
that nothing was written in between. `AbsentIsNew` covers shipments not created yet. `CustodyForward`
follows step by step from the invariant and from what each action writes.

*PickupAttempt.* `SeenIsPast` is the same idea for attempts: a request's row has a version not above
the stored one, and at the same version it is the stored row. With the chain property this shows that
an open attempt is the newest (`OpenIsTip`) and that none has been accepted (`OpenMeansNotAccepted`),
which is why racing recoveries cannot fork the chain and why custody starts once. On top of it
`RecordInv` relates the three records of operations: history entries name attempts that exist
(`HistoryKnown`) and every answer given is the one on record under its key (`AnswersOnRecord`), so a
second answer under a key can only repeat the first. Driver steps keep all of that because they are
`Gentle`: they neither open nor close an attempt, nor touch its place in the chain or a recorded stop.

*Pickup.* With the invariant of the attempts come three. *The ceremony:* at most one challenge and one
manifest is open, and none has been used up before the acceptance, which uses up one of each of its own
parcel; an acceptance that finds none cannot be written, and one that was written closes the task for every
later one. A new challenge or manifest invalidates the open one in the same commit, under its lock, which is
what keeps a second from staying open. *The
sessions* need only that the unique index looks at every other row: no read is relied upon, which is why
the last writer may win (section 8). *The offline streams* are folds: `sync` takes one capture after the
other. `InOrder` says what a stream's record is in the middle of a batch, `MovedOn` what may become of it
from one capture to the next (numbers rise, what was filed stays, a closed case stays closed); every branch of
`ProcessSubmission` keeps the first and does the second, the table of the fold by positions does, and so a
whole batch does. The proof found that the cases of the model's `Issue` (what is wrong with a capture) overlapped
where a capture is both out of sequence and flawed; they now come in the order of the code's `if`s.

*HubHandover.* `LocksExclusive` and `SeenIsStored` say what the row lock buys: one holder for each
manifest, and what the holder read of it is what is stored. `ListingNamesParcels` keeps a manifest from
being empty. The unlocked queries of a listing are not used at all: `ReleasedOnce` holds because of the
outbox key and the order of the writes, which is worth knowing, since those queries do not exclude what
they seem to exclude (section 8).

*The hub counter and the road.* A drop-off's label fits its status (`LabelFits`), and the two unique indexes
look at every other row, so one open drop-off of a code and one live label are kept whatever was read.
On the road, `RowTells` says of each parcel's row what its consignment is, and `ConsignmentsAreSound` of
each consignment what it carries and that a failed one is under investigation. A consignment only goes
`Forward`, so that a departed parcel's consignment is always one on its way or stopped; the reconciliation,
which ends that, moves every departed parcel it carries. `AdditionIsKnown` is for the one request that
outlives its read: it was asked for when the parcel was sorted and already named, so its late write is over
the row it read or is refused, and frees nothing that is held.

*The door.* Photos and payments come in requests of their own at any status. `VisitTells` relates a stop's
row, at every status, to the checks of identity, the photos, the payment, the decision and the kinds of facts
told about it. A handover's order follows because a row that is inspected has its photos and one that is paid
agrees with what was due, and neither is ever taken back. `VersionsOrder` says that facts stay at or below
their stop's version and no two share one, so a fact is told once; `OnOneRound` that a parcel has one live
stop, because a scan looks at every other. A closed row is saved again only when its seal is looked at, which
moves neither status nor facts.

*CashCustody.* The conjunction of the four invariants is inductive as it stands: each decision is made
once because of a version predicate or a unique key, and its posting is part of the same commit.
`DepositCovers` and `OnlyStaleGoesNegative` are about sums, which the library defines by a table of partial
sums over all subsets. What holds of every table is shown of the smallest subset where it could fail
(`SmallestBad`): among the bad subsets of a finite set one has no bad proper subset. From that come the lemmas
about sums that the rest needs: an element comes or goes, one changes, one sum bounds another. A deposit takes
parcels in the order of collection while their total fits, so what it has taken is a sum over a prefix.
`OnlyStaleGoesNegative` compares the cash before and after each step: only a deposit and an adjustment
take from it, and a deposit that decided on a balance still true does not take too much.

*MerchantSettlement.* `AskedWithinReach` relates a request in flight to the balance it read; a payout is
requested within it. The payable can then fall below what was promised only in a step that moves the balance
under a request, or charges or refunds, which is what `OnlyAMovedBalanceOvercommits` says. A payout's facts
follow its row because each transition writes both.

*UnitOfWork.* A copy carries the version it was read at, and while the row has that version the copy has
all the row's changes. What a commit replaces has the version its stage was first read at, unless the stage
was misjudged: the version is inferred from the copy's own, which is right when exactly one change lies
between its reading and its first save. From its statement until the commit the row is locked. So a change
that landed is lost only through a misjudged save or where a request saved one copy over another, and
`SavedIsKept` names both. In the services the changes are made by domain methods that raise the version by
one. Two uses misjudge: `update_policy` of the merchant service makes a policy and changes it before the first
save, so that the first update of a missing policy is refused as stale; and a row made, saved, changed and
saved again would be. `WaitsAreInOrder` follows from the order of the writes (`IsNext`): tables come in one
order for all requests, so that two which wait for each other do so inside one table or while adding.

*Desks.* `DesksInv` says of each place that the invariant of its module holds there; `PlaceStep` that a step
is one of the place where it is taken. `DesksProofs` has a section for each module with its invariant, the
lemma for its initial states, one for each of its actions or for each group of them that write alike, and one
(`...Tells`) from the invariant to what the module promises. The invariants, and why they are needed:

- *Sends* (`SendsInv`). What a clerk has open is the row, or one it had under an older version (`ClerkRead`), so that
  a write which passes the version predicate is over what was read, whatever other clerks did. `TaleOf` tells the
  facts from the row: a live parcel has none, one that is registered or cancelled has one, of its status, label and
  contents. `LabelsOnce` needs only the index. `SendRowTells` (where labels and visits stand) is what makes a label of a
  cancelled parcel free for another.
- *SignIn* (`SignInInv`). A request holds versions, not rows: while a code or a session has the version that was read,
  it is open or alive (`StillOpen`, `StillLive`). A code is consumed under its version in the commit that mints the
  session, which is why there are never two.
- *ClaimDesk* (`ClaimInv`). As in Sends; a decided claim had its custody reviewed before because a decision is made
  on the row that says so; `StepsAreCounted` ties an incident's status to its version.
- *Notices* (`NoticesInv`). Counting again: a message was sent as often as answers were lost, dispatches hold one and
  the row shows one, together (`Adds`). A receiver's message never goes without its SMS, since a plan has both or the
  SMS is there already (`FanOutHolds`, `ToldBySms`), and plans are written whole.
- *DurableInbox* (`LedgerInv`). What a delivery found may be long out of date; what it says of the effects
  (`LedgerRowTells`) stays true, because effects and failures are only ever added.
- *Workforce* (`StaffInv`). What a request saw is kept with the day it was made (`StaffReadsTrue`), and holds of that day
  although days pass, since leave and blocks keep theirs. A late start is then answered by the block or the leave of
  its day (`LateIsAnswered`).
- *MerchantOffice* (`OfficeInv`). Branches are read all together and written under their versions: where what was read
  has one default branch (`StoresRead`), a write that demotes it and promotes another leaves one. The facts about the team
  are numbered by the versions of the merchant without a gap (`TeamIsTold`), and the last about a member tells its row.
- *MerchantShelf* (`ShelfInv`). `LookedAt` says what a request saw of the row it does not write; only the step after such a
  look can leave a product in a deleted category, which is what `OnlyRacesOrphan` says. `WritesOver` makes a draw on
  a batch one on the row it read, so labels handed out are those counted.
- *WireContract* (`WireInv`). `WireHolds` is what a producer guarantees of the row it enqueues, and with it of what is
  published; `ConsumersAgree` that it is what the consumer asks for.
- *BridgeLanding* (`BridgeInv`). `TickStands` says at each phase where the tick is between what the source has forgotten
  and what was streamed, and that everything allowed behind it has landed. The source is told to forget only the
  position that the checkpoint names eligible, which is the last of a landed batch.
- *AddressBook* (`BookInv`). The index keeps a second default out at each statement; that a customer with an address
  has a default needs that one who had an address when a request read has one still (`BookRead`).
- *TimelineConsumer*. With any number of handlers only the shapes are invariant (`TimelineRowsOK`), and that a
  recorded event stays (`RecordsStay`), since the unique keys refuse whatever would replace it. Where no two transactions
  overlap (`AloneInv`) the dictionaries and the session hold what the one handler in a transaction has staged up to its
  step (`Staged`), which is why entries and inbox agree there.
- *FactConsumer, UnitOfWork, HubHandover.* The invariants above; the first two are instances of their modules of
  proofs over the variables of `Desks`, and `ConsumerIsShared` and `UnitIsSaving` identify the two instances.

Only model-checked: `EventuallySettled` and `DecidedByOneEach` (`EventuallyDecided`), since TLAPS does not prove liveness under
fairness. Every other property of a run is a theorem; the runs say that the theorems are about something,
and the counterexamples of section 8 where the code stops short. Induction theorems that take an operator as
a parameter cannot be used; where a sum or a fold has to be reasoned about, the argument is by the smallest
subset or position at which it could fail, as above. Two definitions were written anew so that they could be
reasoned about, with the same states in every run: the write of one parcel (`Sends!WriteOne`) and the book after
some statements of a commit (`AddressBook!After`), which was a recursive function.

## 8. Where code and documents disagree

Six disagreements are runs, each of which ends in a counterexample:

| Run | The code | The text |
|---|---|---|
| `accept_shared_lost` | `begin()` (`accepted_fact_uow.py:75`) tests and sets the shared session without a lock; a handler can commit the empty transaction of another one and acknowledge a fact that left no trace | ADR-0008, line 198: redelivery "sees `processed` and ACKs" |
| `hub_cancelled` | a cancelled manifest keeps its lines EXPECTED, so the partial unique index (`models.py:338`) refuses the parcel on any other manifest | `test_hub_handover.py:514`: "a cancelled manifest releases the parcel for a new manifest" (the test's store has no index) |
| `offline_batch` | a batch that changes its task twice stages two updates under one version; the second matches no row and the commit, outside the `try`, loses the whole batch (`offline_sync_service.py:344`) | `services/pickup/README.md:264`: "an entire offline batch replays under the one revision" (the test's store does not compare versions) |
| `broken_seal` | `check_ready_for_payment` (`doorstep_service.py:556`) asks whether the seal was checked, not whether it was whole | `services/delivery/README.md:25`: "a broken seal stops it" |
| `timeline_redelivered` | the store looks for duplicates in its open dictionary only (`tracking/.../sqlalchemy_store.py:74`); a processed event that is delivered again violates the unique key and is refused until the broker gives up; audit has the same store | `tracking/tests/test_coordinator.py:221`: "crash after commit redelivery acks without double projection" |
| `receipt_quarantined` | the relay's publisher (`pickup/.../nats/publisher.py:52`) validates every row with `validate_accepted_fact_envelope`, whose schema fixes the event type to `pickup.fact.accepted`; a handover fact fails it with a permanent error and is quarantined without being sent | `test_nats_publisher.py:396`: "A registered Pickup fact must not be quarantined by the publish allowlist" (the test looks at the subject only); `services/pickup/README.md:248` |

Others were met while reading and follow from the models without a run of their own.

*Pickup and shipment.*

- `apply_publish_decision` (`pickup/.../sqlalchemy_store.py:947`) is not fenced by owner or lease; the state diagram of
  ADR-0008 ends at published (line 298). `TerminalUnlessLapsed` has "unless lapsed" for this reason.
- An exception that is neither retryable nor poison leaves the consumer's session open
  (`accepted_fact_coordinator.py:159`); the replica refuses every fact from then on, and they run out of
  deliveries without an inbox row, against ADR-0008, line 531 ("Poison / max deliver | `quarantined`").
- The handlers of a worker (`shipment/worker.py:80`; four by default) can also commit half of each other's
  transaction, against ADR-0008, line 197.
- `custody_transferred_at` is set on the object and never stored (`accepted_fact_uow.py:326`), although
  the payload schema of `pickup.fact.handover_completed` (line 52) describes it as the custody time.
  `transferredAt` in ShipmentCustody therefore stays FALSE.
- A handover fact that arrives before the acceptance fact is quarantined
  (`handover_fact_apply.py:147`) and not deferred, against ADR-0008, line 535; so it would be, that is, if the
  relay sent any.
- A replayed acceptance scan answers with the last event of the shipment
  (`acceptance_service.py:266`), which after a handover is not the event of the scan.
- An attempt that was refused can be reported, taken up again and accepted
  (`task_lifecycle_service.py:293`), against `value_objects.py:171` ("Terminal non-custody outcomes").
- Packaging judged TOO_WEAK does not stop an acceptance (`pickup/.../acceptance_service.py:271`), against
  `value_objects.py:115`.
- The fingerprint of an acceptance contains the arrival time (`acceptance_service.py:290`), so a retry
  under the same key conflicts instead of replaying, against `errors.py:136`; it writes nothing and is a
  `GiveUp`.
- A closed attempt can still be acknowledged or declined (`task_lifecycle_service.py:148`).
- `create_manifest` checks a parcel with two unlocked queries (`hub_handover_service.py:137`); a receipt
  between them lets a received parcel onto a second active manifest. It is not released twice, but its
  line there can never be received.
- `is_live_verified` does not look at time (`handover_verification_service.py:182`): a challenge that was
  verified and then expired blocks the next one, and the attempt can never be accepted
  (`LapsedVerificationIsFinal`). An acceptance compares the identifier with the manifest's only.
- `invalidate_for_task` (line 589 of the same file) is called by nobody, although the driver pickup parity
  matrix lists it as implemented for reassignment.
- A pause or resume that read a session before its end opens it again (`driver_session_service.py:173`),
  against the comment of the driver store, "Serialize concurrent start/pause/resume/end for one driver".
- A reconciliation case that operations resolved leaves its event RECONCILIATION_REQUIRED, which blocks
  pausing and ending a session for good; a gap whose case was resolved can no longer be resumed.

*Hubs and delivery.*

- A dispatch marks held parcels as departed (`linehaul_service.py:204`); nothing else releases a held
  parcel. A hold may name a consignment the parcel was never put in; sorting has no status check; a
  reconciliation needs no seal check, and fails when a parcel was scanned at its destination before it;
  `add_parcel` does not compare destinations.
- One code may be dropped off again after its parcel was accepted, against `hub/.../models.py:46`
  ("recorded exactly once").
- Money is collected at a stop that is refused afterwards, or was before (`payment_service.py:87`), against
  `outcome_service.py:8`. A parcel marked OPEN_BOX_REFUSED can be delivered; an absence can be recorded
  after the receiver was verified; a parcel can be scanned onto a manifest again after any outcome;
  attempts with the decision HOLD_AT_HUB are swept by nobody; nothing closes a manifest.

*Finance.*

- The cash of a driver can go below zero, against `finance/tests/test_financial_invariants.py:340` ("custody
  never goes negative through any sequence") and the docstring of `balance_of` (`ledger.py:166`): two
  replicas accept a deposit each on the same balance, or, with no overlap at all, a count is short, the
  driver deposits everything, and the shortfall is adjusted afterwards (`settlement_service.py:504`). From
  then on every read of the balance raises, so the driver can neither deposit nor have a collection
  recorded until enough comes back. `OnlyStaleGoesNegative` says that nothing else leads there.
- Two overlapping collections can each see a balance below the limit although together they reach it; no
  breach is announced (`cod_service.py:225`), against DRV-A06 as its docstring puts it. The next
  collection announces one.
- A payout is checked against a balance read in another transaction (`settlement_service.py:199`); a
  refusal charge and a refund carry no key and no bound, so a retry charges twice; an approval does not
  look at the balance; a payable below zero makes its reads raise; no route calls `block_payouts`.

*Ordering, merchants, customers.*

- A correction of the amount or of the receiver after registration announces nothing, against SHP-12 ("the
  change must reach the courier"). A sender may type a pickup window into a parcel without a label, or a
  customer's, by amending it; the category of goods is not checked again. Nothing sets the courier's fields.
- `remove` and `update_branches` accept a membership in any status; a principal with two phones may be
  active twice; a branch archived meanwhile can still be assigned.
- A category deleted while a product is being saved in it leaves the product behind
  (`catalogue_service.py:60`), against the docstring of `delete_category`: "Refuse while products still point
  at it, rather than orphaning them". Labels can be issued for a printer that is being taken back.
- Archiving the default address always fails on PostgreSQL: the promoted address is written before the
  archived one, against the unique index (`w20b_customer_core_001.py:90`); `test_address_book.py`, "archiving
  the default promotes another address", uses a store without it. An archived contact can be used for a new
  address.

*Identity, claims, workforce, notification.*

- Two overlapping requests for a code leave two live codes (`authentication_service.py:182`), and racing
  requests exceed the limit on codes. A session minted while a block lists the sessions survives it,
  against `routes.py:310` ("Suspending a principal must also end its live sessions, or the block is
  cosmetic"); `SessionsStayEnded` speaks of the listed ones. Two racing grants leave two active grants.
- Starting a review forgets a recorded custody review by its default; a custody review can be recorded on a
  withdrawn claim; a message can land on a claim decided meanwhile. Claims and incidents number their
  references separately in one format.
- `find_covering` says "Approved beats pending: it is the settled answer" and orders by
  `status.desc()`, which puts PENDING first: a driver on approved leave with another request pending is
  eligible for work. Two changes of shift on one day leave two open patterns; a change read before midnight
  and committed after it rewrites the day that began (`DaysStay` excepts it). A second application can be
  opened by a verified driver and never be verified.
- The first fan-out whose sender and receiver are the same new phone always fails: the profile is staged
  twice and the second staging turns the insert into an update. A message can be sent twice when two
  dispatches race, or when the outcome's commit is lost. Nothing calls the dispatch.

*Consumers and the bridge.*

- "Run handler at most once" (`inbox_service.py`) does not hold after a failure: two redeliveries of a FAILED
  event both run the handler again on top of what the first run left, and PROCESSED may be overwritten by a
  racing FAILED. PROCESSING is never committed, so lease and deferral are never reached.
- The bridge does not look at what it maps (`mapper.py:39`): a row with secrets in its metadata, of another
  system or with a time that does not end in Z goes on the wire and is refused by the consumer
  (`ContractsMeet` names the cases).
- A second event of one source row is never recorded by tracking or audit, and is handed out until the broker
  gives up. With several handlers, which is the default, `begin()` of one replaces the dictionaries of
  another, and `commit()` reads them twice: an event can be acknowledged without its record, be recorded without
  its entry or the other way round, or be left PROCESSING.
- A mapper's late failure sets a mapped row of the bridge back to PENDING or QUARANTINED; the checkpoint's
  `landed` may fall below its `eligible` when the source repeats itself.

## 9. What is not modelled

Section 3 lists what is left of the plan. Left out on purpose:

- Refusals by data (scanned identifiers, evidence, photographs' contents, eligibility by region): requests may
  be refused at any time, which admits at least what the code does.
- Who may call an operation: authorisation precedes every operation and changes no state.
- The contents of events, notes, times and audit rows, except where a property reads them.
- Read models, reference data and pure computations (pickup discovery and stops, the register of hubs, the
  catalogue, prices, public tracking), and commands of modelled services that touch one row no other command
  reads (standing policy of a merchant, a customer's profile, contacts and documents,
  devices of a principal, hub positions): the version argument is the one ShipmentCustody and PickupAttempt
  prove.
- The pickup fee in finance.
- The legacy bridge's capture protocol below `poll`; its relay is OutboxRelay.

Abstractions that matter to a reader: a transaction is what it commits (PostgreSQL's READ COMMITTED with
unique keys, row locks and version predicates is taken at its word); clocks are only comparisons; one
outbox row carries one event; JetStream is a stream with a duplicate window, redelivery after `ack_wait`
and a limit on deliveries.

## 10. Running it

    tlc -workers 2 -config OutboxRelay_fair.cfg MCOutboxRelay.tla
    tlc -workers 2 -config MCDesks_records.cfg MCDesks.tla
    tlapm OutboxRelayProofs.tla

and likewise for the others; `PROJECT.json` names the module, the configuration and the expected
outcome of every run. Every run ends within five minutes on two cores and every proof
module within half an hour (`DesksProofs`, by far the longest, in about twenty minutes; the others within ten).
