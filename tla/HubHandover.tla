------------------------------ MODULE HubHandover ------------------------------
(***************************************************************************)
(* A driver releases accepted parcels to an origin hub: the driver lists   *)
(* them on a manifest, and the hub receives each line or declares it       *)
(* missing.  Requests run concurrently, each in a READ COMMITTED           *)
(* transaction.  Requests on an existing manifest hold its row lock from   *)
(* their first read to their commit; creating a manifest locks nothing and *)
(* checks each parcel with two queries.                                    *)
(*                                                                         *)
(* Abstractions.  Who asks (driver, hub scope) and which hub receives are  *)
(* left out: a receipt is clean or disputed.  A refused request, a replay  *)
(* and a lost connection all end as Abandon, which writes nothing; only    *)
(* the refusal by the unique index on open lines has an action.  A parcel  *)
(* has one accepted pickup task, whose row version is 0 before acceptance; *)
(* acceptance is final (PickupAttempt), so only receipts move it after.    *)
(***************************************************************************)
EXTENDS Naturals, FiniteSets

CONSTANTS Parcels, Manifests, Workers, None

ASSUME HandoverConstants ==
    /\ IsFiniteSet(Parcels)
    /\ None \notin Parcels \cup Manifests

VARIABLES
    version,   \* row version of each parcel's accepted task, 0 before acceptance
    manifest,  \* committed manifest rows
    line,      \* line[m][p]: status of parcel p on manifest m, or "none"
    fact,      \* manifest named by each parcel's handover_completed outbox row
    tx,        \* per worker: its transaction
    seen       \* per worker: the rows it read under the manifest's lock

db   == <<version, manifest, line, fact>>
vars == <<db, tx, seen>>

-----------------------------------------------------------------------------
Active   == {"READY", "ARRIVED_AT_HUB", "IN_PROGRESS"}
Terminal == {"COMPLETED", "COMPLETED_WITH_DISCREPANCIES", "CANCELLED"}
Released == {"RECEIVED", "DISCREPANCY"}
Line     == {"none", "EXPECTED", "RECEIVED", "MISSING", "DISCREPANCY"}
Phase    == {"idle", "custody", "active", "insert", "locked"}

ManifestRow == [status: Active \cup Terminal \cup {"ABSENT"},
                expected: Nat, received: Nat, missing: Nat, discrepancy: Nat]
Transaction == [phase: Phase, manifest: Manifests \cup {None},
                listing: SUBSET Parcels, todo: SUBSET Parcels,
                parcel: Parcels \cup {None}]
Snapshot    == [manifest: ManifestRow, lines: [Parcels -> Line], version: [Parcels -> Nat]]

NoManifest  == [status |-> "ABSENT", expected |-> 0, received |-> 0,
                missing |-> 0, discrepancy |-> 0]
Idle        == [phase |-> "idle", manifest |-> None, listing |-> {}, todo |-> {},
                parcel |-> None]
NothingSeen == [manifest |-> NoManifest, lines |-> [p \in Parcels |-> "none"],
                version |-> [p \in Parcels |-> 0]]

TypeOK ==
    /\ version \in [Parcels -> Nat]
    /\ manifest \in [Manifests -> ManifestRow]
    /\ line \in [Manifests -> [Parcels -> Line]]
    /\ fact \in [Parcels -> Manifests \cup {None}]
    /\ tx \in [Workers -> Transaction]
    /\ seen \in [Workers -> Snapshot]

Init ==
    /\ version = [p \in Parcels |-> 0]
    /\ manifest = [m \in Manifests |-> NoManifest]
    /\ line = [m \in Manifests |-> [p \in Parcels |-> "none"]]
    /\ fact = [p \in Parcels |-> None]
    /\ tx = [w \in Workers |-> Idle]
    /\ seen = [w \in Workers |-> NothingSeen]

-----------------------------------------------------------------------------
Holds(w, m)     == tx[w].phase = "locked" /\ tx[w].manifest = m
OnManifest(m)   == {p \in Parcels : line[m][p] # "none"}
HasReleased(p)  == \E m \in Manifests : line[m][p] \in Released
OnActive(p)     == \E m \in Manifests : manifest[m].status \in Active /\ line[m][p] # "none"
HasOpenLine(p)  == \E m \in Manifests : line[m][p] = "EXPECTED"

(* Mutated form of NoFactYet: the outbox has no unique key. *)
MutNoFactYet(p) == TRUE

(* The outbox takes one handover fact per task. *)
NoFactYet(p)    == fact[p] = None

Count(lines, s) == Cardinality({p \in Parcels : lines[p] = s})

(* The row with its counters taken again from the lines. *)
Recounted(row, lines) ==
    [row EXCEPT !.expected = Cardinality({p \in Parcels : lines[p] # "none"}),
                !.received = Count(lines, "RECEIVED"),
                !.missing = Count(lines, "MISSING"),
                !.discrepancy = Count(lines, "DISCREPANCY")]

(* Mutated form of Completed: the last line's dispute is forgotten. *)
MutCompleted(lines) ==
    IF \A p \in Parcels : lines[p] \in Released \cup {"none"} THEN "COMPLETED"
    ELSE "IN_PROGRESS"

(* The status a receipt leaves: complete as soon as every line is received, *)
(* cleanly or in dispute.                                                   *)
Completed(lines) ==
    LET listed == {p \in Parcels : lines[p] # "none"}
    IN  IF \A p \in listed : lines[p] = "RECEIVED" THEN "COMPLETED"
        ELSE IF \A p \in listed : lines[p] \in Released
             THEN "COMPLETED_WITH_DISCREPANCIES"
             ELSE "IN_PROGRESS"

(* The transaction ends: its locks and what it read are gone. *)
End(w) ==
    /\ tx' = [tx EXCEPT ![w] = Idle]
    /\ seen' = [seen EXCEPT ![w] = NothingSeen]

Abandon(w) ==
    /\ tx[w].phase # "idle"
    /\ End(w)
    /\ UNCHANGED db

(* The driver accepts the parcel at the merchant. *)
AcceptTask(p) ==
    /\ version[p] = 0
    /\ version' = [version EXCEPT ![p] = 1]
    /\ UNCHANGED <<manifest, line, fact, tx, seen>>

-----------------------------------------------------------------------------
(* create_manifest: two queries for each parcel, then the inserts. *)
BeginListing(w, ps) ==
    /\ tx[w].phase = "idle"
    /\ ps # {}
    /\ tx' = [tx EXCEPT ![w] = [Idle EXCEPT !.phase = "custody", !.listing = ps, !.todo = ps]]
    /\ UNCHANGED <<db, seen>>

CheckCustody(w, p) ==
    /\ tx[w].phase = "custody"
    /\ p \in tx[w].todo
    /\ version[p] > 0
    /\ ~HasReleased(p)
    /\ tx' = [tx EXCEPT ![w].phase = "active", ![w].parcel = p]
    /\ UNCHANGED <<db, seen>>

CheckActive(w) ==
    LET rest == tx[w].todo \ {tx[w].parcel}
    IN  /\ tx[w].phase = "active"
        /\ ~OnActive(tx[w].parcel)
        /\ tx' = [tx EXCEPT ![w].phase = IF rest = {} THEN "insert" ELSE "custody",
                            ![w].todo = rest, ![w].parcel = None]
        /\ UNCHANGED <<db, seen>>

InsertManifest(w, m) ==
    /\ tx[w].phase = "insert"
    /\ manifest[m].status = "ABSENT"
    /\ \A p \in tx[w].listing : ~HasOpenLine(p)
    /\ manifest' = [manifest EXCEPT ![m] =
          [NoManifest EXCEPT !.status = "READY", !.expected = Cardinality(tx[w].listing)]]
    /\ line' = [line EXCEPT ![m] =
          [p \in Parcels |-> IF p \in tx[w].listing THEN "EXPECTED" ELSE "none"]]
    /\ End(w)
    /\ UNCHANGED <<version, fact>>

(* uq_pickup_handover_item_open_shipment refuses the insert. *)
DuplicateLine(w) ==
    /\ tx[w].phase = "insert"
    /\ \E p \in tx[w].listing : HasOpenLine(p)
    /\ End(w)
    /\ UNCHANGED db

-----------------------------------------------------------------------------
(* Mutated form of Lock: the manifest is read without FOR UPDATE. *)
MutLock(w, m) ==
    /\ tx[w].phase = "idle"
    /\ manifest[m].status # "ABSENT"
    /\ tx' = [tx EXCEPT ![w] = [Idle EXCEPT !.phase = "locked", !.manifest = m]]
    /\ seen' = [seen EXCEPT ![w] =
          [manifest |-> manifest[m], lines |-> line[m], version |-> version]]
    /\ UNCHANGED db

(* Every other request locks the manifest, then reads it and its lines. *)
Lock(w, m) ==
    /\ tx[w].phase = "idle"
    /\ manifest[m].status # "ABSENT"
    /\ \A v \in Workers : ~Holds(v, m)
    /\ tx' = [tx EXCEPT ![w] = [Idle EXCEPT !.phase = "locked", !.manifest = m]]
    /\ seen' = [seen EXCEPT ![w] =
          [manifest |-> manifest[m], lines |-> line[m], version |-> version]]
    /\ UNCHANGED db

ArriveAtHub(w, m) ==
    /\ Holds(w, m)
    /\ seen[w].manifest.status = "READY"
    /\ manifest' = [manifest EXCEPT ![m] = [seen[w].manifest EXCEPT !.status = "ARRIVED_AT_HUB"]]
    /\ End(w)
    /\ UNCHANGED <<version, line, fact>>

(* cancel_manifest leaves the lines as they are. *)
CancelManifest(w, m) ==
    /\ Holds(w, m)
    /\ seen[w].manifest.status \in Active
    /\ \A p \in Parcels : seen[w].lines[p] \notin Released
    /\ manifest' = [manifest EXCEPT ![m] = [seen[w].manifest EXCEPT !.status = "CANCELLED"]]
    /\ End(w)
    /\ UNCHANGED <<version, line, fact>>

(* record_hub_receipt: the line, the counters, the completion, the task's   *)
(* version (under its compare-and-set) and the fact, in one commit.         *)
RecordHubReceipt(w, m, p, s) ==
    LET lines == [seen[w].lines EXCEPT ![p] = s]
    IN  /\ Holds(w, m)
        /\ seen[w].manifest.status \in {"ARRIVED_AT_HUB", "IN_PROGRESS"}
        /\ seen[w].lines[p] \notin Released \cup {"none"}
        /\ version[p] = seen[w].version[p]
        /\ NoFactYet(p)
        /\ version' = [version EXCEPT ![p] = version[p] + 1]
        /\ fact' = [fact EXCEPT ![p] = m]
        /\ line' = [line EXCEPT ![m][p] = s]
        /\ manifest' = [manifest EXCEPT ![m] =
              [Recounted(seen[w].manifest, lines) EXCEPT !.status = Completed(lines)]]
        /\ End(w)

(* close_manifest: every line not received must be named missing. *)
CloseManifest(w, m, named) ==
    LET unreceived == {p \in Parcels : seen[w].lines[p] \notin Released \cup {"none"}}
        lines == [p \in Parcels |-> IF p \in unreceived THEN "MISSING" ELSE seen[w].lines[p]]
        row   == Recounted(seen[w].manifest, lines)
    IN  /\ Holds(w, m)
        /\ seen[w].manifest.status \in {"ARRIVED_AT_HUB", "IN_PROGRESS"}
        /\ unreceived \subseteq named
        /\ line' = [line EXCEPT ![m] =
              [p \in Parcels |-> IF p \in unreceived THEN "MISSING" ELSE line[m][p]]]
        /\ manifest' = [manifest EXCEPT ![m] =
              [row EXCEPT !.status = IF row.missing = 0 /\ row.discrepancy = 0
                                     THEN "COMPLETED" ELSE "COMPLETED_WITH_DISCREPANCIES"]]
        /\ End(w)
        /\ UNCHANGED <<version, fact>>

-----------------------------------------------------------------------------
Listing(w) ==
    \/ \E ps \in SUBSET Parcels : BeginListing(w, ps)
    \/ \E p \in Parcels : CheckCustody(w, p)
    \/ CheckActive(w)
    \/ \E m \in Manifests : InsertManifest(w, m)
    \/ DuplicateLine(w)

OnLocked(w, m) ==
    \/ Lock(w, m)
    \/ ArriveAtHub(w, m)
    \/ CancelManifest(w, m)
    \/ \E p \in Parcels, s \in Released : RecordHubReceipt(w, m, p, s)
    \/ \E named \in SUBSET Parcels : CloseManifest(w, m, named)

Next ==
    \/ \E p \in Parcels : AcceptTask(p)
    \/ \E w \in Workers :
          Listing(w) \/ Abandon(w) \/ \E m \in Manifests : OnLocked(w, m)

Spec == Init /\ [][Next]_vars

-----------------------------------------------------------------------------
(* Properties *)

(* A parcel leaves driver custody once: a line is received exactly when the *)
(* parcel's one handover_completed fact names its manifest, whatever        *)
(* manifests the parcel was listed on and however scans raced.              *)
ReleasedOnce ==
    \A p \in Parcels, m \in Manifests : line[m][p] \in Released <=> fact[p] = m

(* The counters an operator reads agree with the lines, although every      *)
(* receipt writes the whole row from what it read.                          *)
CountersAgree ==
    \A m \in Manifests :
        /\ manifest[m].expected = Cardinality(OnManifest(m))
        /\ manifest[m].received = Count(line[m], "RECEIVED")
        /\ manifest[m].missing = Count(line[m], "MISSING")
        /\ manifest[m].discrepancy = Count(line[m], "DISCREPANCY")

(* The status of a manifest is the story its lines tell.  In particular a   *)
(* manifest in progress still waits for a line, and a completed one for     *)
(* none: the last receipt, not a later request, completes it.               *)
StatusTellsLines ==
    \A m \in Manifests :
        LET some(S) == \E p \in Parcels : line[m][p] \in S
        IN  CASE manifest[m].status = "ABSENT" -> OnManifest(m) = {}
              [] manifest[m].status \in {"READY", "ARRIVED_AT_HUB", "CANCELLED"} ->
                    some({"EXPECTED"}) /\ ~some(Released \cup {"MISSING"})
              [] manifest[m].status = "IN_PROGRESS" ->
                    some({"EXPECTED"}) /\ some(Released) /\ ~some({"MISSING"})
              [] manifest[m].status = "COMPLETED" ->
                    some({"RECEIVED"}) /\ ~some({"EXPECTED", "MISSING", "DISCREPANCY"})
              [] manifest[m].status = "COMPLETED_WITH_DISCREPANCIES" ->
                    some({"MISSING", "DISCREPANCY"}) /\ ~some({"EXPECTED"})

(* A received line is never rewritten, and a terminal manifest is closed    *)
(* for good with its lines: no request that read it before it was closed    *)
(* writes it after.                                                         *)
ClosedForGood ==
    [][\A m \in Manifests :
          /\ \A p \in Parcels : line[m][p] \in Released => line'[m][p] = line[m][p]
          /\ manifest[m].status \in Terminal =>
                manifest'[m] = manifest[m] /\ line'[m] = line[m]]_vars

(* What the tests say of cancellation, and the table does not allow:        *)
(* "a cancelled manifest releases the parcel for a new manifest", so the    *)
(* index refuses a listing only for a parcel on an active manifest.         *)
CancelledReleases ==
    [][\A w \in Workers :
          DuplicateLine(w) => \E p \in tx[w].listing : OnActive(p)]_vars

(* What an operator reads of a manifest agrees with its lines, counters and *)
(* status alike, whoever else writes the row.                               *)
BooksAgree == CountersAgree /\ StatusTellsLines
=============================================================================
