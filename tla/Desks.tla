-------------------------------- MODULE Desks --------------------------------
(***************************************************************************)
(* The hub handover, the accepted-fact consumer, and the services at whose *)
(* desks records are kept: sends, sign-in, claims, notices, staff,         *)
(* merchants, customers, and the consumers of events; and any request of a *)
(* newer service, which reads and saves rows.  They share no rows, so a    *)
(* behaviour picks one place at the start.  The handover keeps its own     *)
(* variables; every other place uses as many of x1 ... x18 as its module   *)
(* has.                                                                    *)
(*                                                                         *)
(* A module may have more than one place, which are checked within bounds  *)
(* of their own (MCDesks); what the places promise is proved in            *)
(* DesksProofs for all values of the constants.                            *)
(***************************************************************************)
EXTENDS HubHandover, Naturals

CONSTANTS
    Requests,   \* requests in flight, at any desk
    MaxVersion, \* bound on the versions of a row, at any desk
    \* SignIn
    Challenges, Sessions, Grants, AccountStatuses, MaxGuesses, MaxCodes,
    \* ClaimDesk; Sends
    Claims, Incidents,
    Orders, Merchants, Labels, Details, Amounts,
    \* Notices, which Triggers fan out; DurableInbox
    Triggers, Phones, Known, Trips, Reaches, Readers, Senders, MaxUpdates, MaxSends,
    Deliveries, MaxRuns,
    \* Workforce; MerchantOffice; MerchantShelf; AddressBook
    Applications, Patterns, Blocks, Leaves, DriverStatuses, LastDay,
    Stores, Members, Invited,
    Categories, Products, Printers, Batches, Names, Size,
    Addresses,
    \* BridgeLanding; TimelineConsumer; FactConsumer
    LastChange, Allowed, Unmappable, Mappers, MaxAttempts, MaxErrors,
    Events, SourceOf, Handlers, MaxDeliver,
    Facts, MalformedFacts, Unfit, Shipments, ShipmentOf, Replicas, ReplicaOf, MaxCrashes, MaxLost,
    \* UnitOfWork
    UnitRows, Services, Tables, MaxChanges, Rereads

VARIABLES place, x1, x2, x3, x4, x5, x6, x7, x8, x9, x10, x11, x12, x13, x14,
          x15, x16, x17, x18

after10 == <<x11, x12, x13, x14, x15, x16, x17, x18>>
after8  == <<x9, x10, after10>>
after7  == <<x8, after8>>
after6  == <<x7, after7>>
after4  == <<x5, x6, after6>>
after3  == <<x4, after4>>
desks   == <<x1, x2, x3, after3>>

-----------------------------------------------------------------------------
Shared == INSTANCE FactConsumer WITH
    NoFact <- None, NoSession <- None, Malformed <- MalformedFacts,
    msg <- x1, deliveries <- x2, inbox <- x3, attempts <- x4, leaseLive <- x5,
    decision <- x6, holder <- x7, version <- x8, session <- x9, versions <- x10,
    pc <- x11, fact <- x12, poison <- x13, readVersion <- x14, answer <- x15,
    errors <- x16, crashes <- x17, lost <- x18

Sending == INSTANCE Sends WITH
    Clerks <- Requests, placed <- x1, parcel <- x2, facts <- x3, opened <- x4

Identity == INSTANCE SignIn WITH
    Statuses <- AccountStatuses, MaxAttempts <- MaxGuesses,
    status <- x1, challenge <- x2, recent <- x3, expired <- x4, session <- x5,
    grant <- x6, request <- x7, mismatches <- x8

Claiming == INSTANCE ClaimDesk WITH
    claim <- x1, thread <- x2, incident <- x3, request <- x4

Telling == INSTANCE Notices WITH
    Facts <- Triggers,
    profile <- x1, optedOut <- x2, notice <- x3, centre <- x4, fanOut <- x5,
    dispatch <- x6, sent <- x7, lost <- x8

Ledger == INSTANCE DurableInbox WITH
    Workers <- Deliveries,
    record <- x1, first <- x2, second <- x3, delivery <- x4, acked <- x5, failures <- x6

Staff == INSTANCE Workforce WITH
    Statuses <- DriverStatuses,
    today <- x1, application <- x2, driver <- x3, pattern <- x4, started <- x5,
    late <- x6, block <- x7, asked <- x8, leave <- x9, request <- x10

Office == INSTANCE MerchantOffice WITH
    Phones <- Invited,
    application <- x1, merchants <- x2, store <- x3, member <- x4, merchant <- x5,
    facts <- x6, request <- x7

Shelf == INSTANCE MerchantShelf WITH
    category <- x1, product <- x2, printer <- x3, batch <- x4, request <- x5, drawn <- x6

Wire == INSTANCE WireContract WITH request <- x1, row <- x2, letter <- x3, read <- x4

Bridge == INSTANCE BridgeLanding WITH
    slot <- x1, streamed <- x2, landing <- x3, checkpoint <- x4, tick <- x5,
    outbox <- x6, mapping <- x7, errors <- x8

Book == INSTANCE AddressBook WITH address <- x1, request <- x2

Observing == INSTANCE TimelineConsumer WITH
    msg <- x1, deliveries <- x2, record <- x3, timeline <- x4, store <- x5, merged <- x6,
    handler <- x7

Saving == INSTANCE UnitOfWork WITH
    Rows <- UnitRows,
    table <- x1, stored <- x2, phase <- x3, hand <- x4, staged <- x5, order <- x6,
    written <- x7, landed <- x8

-----------------------------------------------------------------------------
(* What the constants are; None is no row, no status and no answer. *)

ASSUME SendsConstants ==
    /\ MaxVersion \in Nat \ {0}
    /\ None \notin Sending!ParcelRow /\ None \notin Labels /\ None # "BOOKED"

ASSUME SignInConstants ==
    /\ Challenges \subseteq Nat /\ Sessions \subseteq Nat
    /\ MaxGuesses \in Nat \ {0}
    /\ None \notin Identity!ChallengeRow /\ None \notin Identity!SessionRow

ASSUME ClaimConstants ==
    /\ MaxVersion \in Nat \ {0}
    /\ None \notin Claiming!ClaimRow /\ None \notin Claiming!IncidentRow /\ None \notin Claims

ASSUME NoticeConstants ==
    /\ MaxUpdates \in Nat /\ MaxSends \in Nat
    /\ Trips \subseteq Phones \X Phones
    /\ IsFiniteSet(Senders)
    /\ None \notin Telling!NoticeRow /\ None \notin {"SENT", "FAILED"}
    /\ None \notin [key: Telling!Key, version: Nat, answer: {None, "SENT", "FAILED"}]

ASSUME LedgerConstants ==
    /\ MaxRuns \in Nat
    /\ None \notin Ledger!InboxRow /\ None \notin {"ACK", "NAK"}
    /\ None \notin [found: Ledger!InboxRow \cup {None}, answer: {None, "ACK", "NAK"}]

ASSUME StaffConstants ==
    /\ LastDay \in Nat \ {0}
    /\ None \notin DriverStatuses /\ None \notin Patterns
    /\ None \notin {"AWAITING_OFFICE_VERIFICATION", "VERIFIED", "PENDING", "APPROVED", "ACTIVE"}
    /\ None \notin Staff!PatternRow /\ None \notin Staff!BlockRow /\ None \notin Staff!LeaveRow

ASSUME OfficeConstants ==
    /\ MaxVersion \in Nat \ {0}
    /\ IsFiniteSet(Stores) /\ None \notin Stores
    /\ None \notin Office!ApplicationRow /\ None \notin Office!StoreRow /\ None \notin Office!MemberRow

ASSUME ShelfConstants ==
    /\ MaxVersion \in Nat \ {0} /\ Size \in Nat
    /\ None \notin Shelf!CategoryRow /\ None \notin Shelf!ProductRow
    /\ None \notin Shelf!PrinterRow /\ None \notin Shelf!BatchRow

ASSUME WireConstants ==
    None \notin Wire!Consumers \cup Wire!Reasons \cup {"invalid"} /\ None # Wire!Refusal

ASSUME BridgeConstants ==
    /\ LastChange \in Nat /\ MaxAttempts \in Nat /\ MaxErrors \in Nat
    /\ Allowed \subseteq Bridge!Changes
    /\ None \notin Bridge!LandingRow
    /\ None \notin [change: Bridge!Changes, failed: BOOLEAN, attempts: Nat]

ASSUME BookConstants ==
    /\ IsFiniteSet(Addresses) /\ MaxVersion \in Nat \ {0}
    /\ None \notin Book!AddressRow /\ None \notin [Addresses -> Book!AddressRow \cup {None}]

ASSUME TimelineConstants ==
    /\ MaxDeliver \in Nat
    /\ None \notin Observing!Statuses \cup {"ACK", "NAK"} \cup Handlers
    /\ None \notin Observing!Rows
    /\ None \notin [session: Handlers, inbox: [Events -> Observing!Statuses \cup {None}],
                     entries: SUBSET Events]
    /\ None \notin [event: Events, step: Observing!Steps, answer: {None, "ACK", "NAK"},
                     session: Handlers \cup {None}]

ASSUME ConsumerConstants ==
    /\ MalformedFacts \subseteq Facts /\ Unfit \subseteq Facts
    /\ ShipmentOf \in [Facts -> Shipments] /\ ReplicaOf \in [Handlers -> Replicas]
    /\ None \notin Facts /\ None \notin Shared!Session
    /\ MaxDeliver \in Nat /\ MaxAttempts \in Nat /\ MaxErrors \in Nat
    /\ MaxCrashes \in Nat /\ MaxLost \in Nat

-----------------------------------------------------------------------------
Blank15 == x16 = None /\ x17 = None /\ x18 = None
Blank10 == x11 = None /\ x12 = None /\ x13 = None /\ x14 = None /\ x15 = None /\ Blank15
Blank8  == x9 = None /\ x10 = None /\ Blank10
Blank7  == x8 = None /\ Blank8
Blank6  == x7 = None /\ Blank7
Blank4  == x5 = None /\ x6 = None /\ Blank6
Blank3  == x4 = None /\ Blank4
Blank   == x1 = None /\ x2 = None /\ x3 = None /\ Blank3

DesksInit ==
    /\ Init
    /\ \/ place = "handover" /\ Blank
       \/ place = "shared" /\ Shared!Init
       \/ place \in {"sends", "amendments"} /\ Sending!Init /\ Blank4
       \/ place \in {"codes", "roles"} /\ Identity!Init /\ Blank8
       \/ place \in {"claims", "incidents"} /\ Claiming!Init /\ Blank4
       \/ place \in {"fan-out", "dispatch"} /\ Telling!Init /\ Blank8
       \/ place = "ledger" /\ Ledger!Init /\ Blank6
       \/ place \in {"office", "starts", "leave"} /\ Staff!Init /\ Blank10
       \/ place \in {"branches", "team", "applying"} /\ Office!Init /\ Blank7
       \/ place \in {"shelf", "stock"} /\ Shelf!Init /\ Blank6
       \/ place = "wire" /\ Wire!Init /\ Blank4
       \/ place = "bridge" /\ Bridge!Init /\ Blank8
       \/ place = "book" /\ Book!Init /\ x3 = None /\ Blank3
       \/ place \in {"timeline", "log"} /\ Observing!Init /\ Blank7
       \/ place \in {"row", "rows"} /\ Saving!Init /\ Blank8

(* Of the two places of a timeline's consumer, one has no transactions of  *)
(* two handlers that overlap; in the other they may, as in a worker with its *)
(* default of four handlers.                                               *)
Apart ==
    \A g, h \in Handlers : Observing!InTransaction(g) /\ Observing!InTransaction(h) => g = h

DesksNext ==
    /\ UNCHANGED place
    /\ \/ place = "handover" /\ Next /\ UNCHANGED desks
       \/ /\ UNCHANGED vars
          /\ \/ place = "shared" /\ Shared!Next
             \/ place \in {"sends", "amendments"} /\ Sending!Next /\ UNCHANGED after4
             \/ place \in {"codes", "roles"} /\ Identity!Next /\ UNCHANGED after8
             \/ place \in {"claims", "incidents"} /\ Claiming!Next /\ UNCHANGED after4
             \/ place \in {"fan-out", "dispatch"} /\ Telling!Next /\ UNCHANGED after8
             \/ place = "ledger" /\ Ledger!Next /\ UNCHANGED after6
             \/ place \in {"office", "starts", "leave"} /\ Staff!Next /\ UNCHANGED after10
             \/ place \in {"branches", "team", "applying"} /\ Office!Next /\ UNCHANGED after7
             \/ place \in {"shelf", "stock"} /\ Shelf!Next /\ UNCHANGED after6
             \/ place = "wire" /\ Wire!Next /\ UNCHANGED after4
             \/ place = "bridge" /\ Bridge!Next /\ UNCHANGED after8
             \/ place = "book" /\ Book!Next /\ UNCHANGED <<x3, after3>>
             \/ place = "timeline" /\ Observing!Next /\ Apart' /\ UNCHANGED after7
             \/ place = "log" /\ Observing!Next /\ UNCHANGED after7
             \/ place \in {"row", "rows"} /\ Saving!Next /\ UNCHANGED after8

DesksSpec == DesksInit /\ [][DesksNext]_<<place, vars, desks>>

-----------------------------------------------------------------------------
(* The properties of the places; each module says what they mean.  Those of  *)
(* the handover have the names they have there.                              *)

(* Every variable keeps the shape of its table. *)
TypesOK ==
    /\ place = "handover" => TypeOK
    /\ place = "shared" => Shared!TypeOK
    /\ place \in {"sends", "amendments"} => Sending!TypeOK
    /\ place \in {"codes", "roles"} => Identity!TypeOK
    /\ place \in {"claims", "incidents"} => Claiming!TypeOK
    /\ place \in {"fan-out", "dispatch"} => Telling!TypeOK
    /\ place = "ledger" => Ledger!TypeOK
    /\ place \in {"office", "starts", "leave"} => Staff!TypeOK
    /\ place \in {"branches", "team", "applying"} => Office!TypeOK
    /\ place \in {"shelf", "stock"} => Shelf!TypeOK
    /\ place = "wire" => Wire!TypeOK
    /\ place = "bridge" => Bridge!TypeOK
    /\ place = "book" => Book!TypeOK
    /\ place \in {"timeline", "log"} => Observing!TypeOK
    /\ place \in {"row", "rows"} => Saving!TypeOK

(* What is told, sent, acknowledged or passed on agrees with the rows it is  *)
(* about: the facts of Sends and MerchantOffice, the messages of Notices, the *)
(* effects of DurableInbox, what BridgeLanding tells the source and writes   *)
(* for others, the timeline of TimelineConsumer, the labels MerchantShelf    *)
(* hands out, what WireContract says of a producer and its consumer; and     *)
(* what a request of UnitOfWork was told it has saved.                       *)
StoriesAgree ==
    /\ place \in {"sends", "amendments"} => Sending!SendsTellOneStory
    /\ place \in {"fan-out", "dispatch"} => Telling!NoticesAreWhole
    /\ place = "ledger" => Ledger!EffectsTellTheRecord
    /\ place \in {"branches", "team", "applying"} => Office!OfficeIsInOrder
    /\ place \in {"shelf", "stock"} => Shelf!ShelfIsCounted
    /\ place = "wire" => Wire!ContractsMeet
    /\ place = "bridge" => Bridge!NothingIsMissed
    /\ place = "timeline" => Observing!TimelineTellsTheRecord
    /\ place \in {"row", "rows"} => Saving!SavedIsKept

(* Where there may be one, racing requests do not make two: one session for  *)
(* a code, one open claim of a parcel, one profile, pattern and block of a   *)
(* driver, one default address.  And commits wait for one another only where *)
(* UnitOfWork says.                                                          *)
OneAtATime ==
    /\ place \in {"codes", "roles"} => Identity!CodesOpenOneSession
    /\ place \in {"claims", "incidents"} => Claiming!OneClaimAtATime
    /\ place \in {"office", "starts", "leave"} => Staff!WhoMayWork
    /\ place = "book" => Book!OneDefault
    /\ place \in {"row", "rows"} => Saving!WaitsAreInOrder

(* What was decided, ended or recorded is not undone by a request that read  *)
(* the rows before: sessions, claims, incidents, days of work, inbox rows;   *)
(* nor is a product orphaned but by one, nor a commit refused without cause. *)
NothingUndone ==
    /\ place \in {"codes", "roles"} => Identity!SessionsStayEnded
    /\ place \in {"claims", "incidents"} => Claiming!DecisionsStay
    /\ place \in {"office", "starts", "leave"} => Staff!DaysStay
    /\ place \in {"shelf", "stock"} => Shelf!OnlyRacesOrphan
    /\ place \in {"timeline", "log"} => Observing!RecordsStay
    /\ place \in {"row", "rows"} => Saving!OnlyForAReason

NothingIsUndone == [][NothingUndone]_desks

(* FactConsumer: custody that started is never restarted by another fact,    *)
(* not even when handlers share a session.                                   *)
CustodyStartsOnce == [][place = "shared" => Shared!CustodyStays]_desks

(* WireContract: what was enqueued is published. *)
EnqueuedIsPublished == place = "wire" => Wire!EnqueuedIsPublished

(* TimelineConsumer: what was recorded is acknowledged when it comes again. *)
RedeliveriesAreAcked == place = "timeline" => Observing!RedeliveriesAreAcked
=============================================================================
