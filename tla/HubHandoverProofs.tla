-------------------------- MODULE HubHandoverProofs --------------------------
(***************************************************************************)
(* The hub handover for any finite set of parcels and any number of        *)
(* manifests and concurrent requests.                                      *)
(***************************************************************************)
EXTENDS HubHandover, FiniteSetTheorems, TLAPS

(* The row lock: one request at a time works on a manifest, and what it     *)
(* read of it is what is stored.                                            *)
LocksExclusive ==
    \A v, w \in Workers, m \in Manifests : Holds(v, m) /\ Holds(w, m) => v = w

SeenIsStored ==
    \A w \in Workers, m \in Manifests : Holds(w, m) =>
        /\ manifest[m].status # "ABSENT"
        /\ seen[w].manifest = manifest[m]
        /\ seen[w].lines = line[m]

(* A listing under way names at least one parcel. *)
ListingNamesParcels ==
    \A w \in Workers : tx[w].phase \in {"custody", "active", "insert"} => tx[w].listing # {}

IInv == /\ TypeOK /\ LocksExclusive /\ SeenIsStored /\ ListingNamesParcels
        /\ ReleasedOnce /\ CountersAgree /\ StatusTellsLines

(* CountersAgree and StatusTellsLines, for one row and its lines. *)
Agrees(row, L) ==
    /\ row.expected = Cardinality({p \in Parcels : L[p] # "none"})
    /\ row.received = Count(L, "RECEIVED")
    /\ row.missing = Count(L, "MISSING")
    /\ row.discrepancy = Count(L, "DISCREPANCY")

Tells(status, L) ==
    LET some(S) == \E p \in Parcels : L[p] \in S
    IN  CASE status = "ABSENT" -> {p \in Parcels : L[p] # "none"} = {}
          [] status \in {"READY", "ARRIVED_AT_HUB", "CANCELLED"} ->
                some({"EXPECTED"}) /\ ~some(Released \cup {"MISSING"})
          [] status = "IN_PROGRESS" ->
                some({"EXPECTED"}) /\ some(Released) /\ ~some({"MISSING"})
          [] status = "COMPLETED" ->
                some({"RECEIVED"}) /\ ~some({"EXPECTED", "MISSING", "DISCREPANCY"})
          [] status = "COMPLETED_WITH_DISCREPANCIES" ->
                some({"MISSING", "DISCREPANCY"}) /\ ~some({"EXPECTED"})

LEMMA InvariantsByRow ==
  /\ CountersAgree <=> \A m \in Manifests : Agrees(manifest[m], line[m])
  /\ StatusTellsLines <=> \A m \in Manifests : Tells(manifest[m].status, line[m])
  <1>1. CountersAgree <=> \A m \in Manifests : Agrees(manifest[m], line[m])
    BY DEF CountersAgree, Agrees, OnManifest
  <1>2. StatusTellsLines <=> \A m \in Manifests : Tells(manifest[m].status, line[m])
    BY Zenon DEF StatusTellsLines, Tells, OnManifest
  <1> QED
    BY <1>1, <1>2

-----------------------------------------------------------------------------
(* Counting lines again gives a well-formed row whose counters agree. *)
LEMMA CountIsNat ==
  ASSUME NEW L, NEW s
  PROVE  Count(L, s) \in Nat /\ Cardinality({p \in Parcels : L[p] # s}) \in Nat
  <1>1. /\ IsFiniteSet({p \in Parcels : L[p] = s})
        /\ IsFiniteSet({p \in Parcels : L[p] # s})
    BY HandoverConstants, FS_Subset
  <1> QED
    BY <1>1, FS_CardinalityType DEF Count

LEMMA RecountedRow ==
  ASSUME NEW row \in ManifestRow, NEW L, NEW st \in Active \cup Terminal
  PROVE  /\ [Recounted(row, L) EXCEPT !.status = st] \in ManifestRow
         /\ Agrees([Recounted(row, L) EXCEPT !.status = st], L)
         /\ [Recounted(row, L) EXCEPT !.status = st].status = st
  <1> DEFINE e == Cardinality({p \in Parcels : L[p] # "none"})
             r == Count(L, "RECEIVED")
             x == Count(L, "MISSING")
             d == Count(L, "DISCREPANCY")
             new == [Recounted(row, L) EXCEPT !.status = st]
  <1>1. e \in Nat /\ r \in Nat /\ x \in Nat /\ d \in Nat
    BY CountIsNat
  <1>2. Recounted(row, L) = [row EXCEPT !.expected = e, !.received = r,
                                       !.missing = x, !.discrepancy = d]
    BY DEF Recounted
  <1> HIDE DEF e, r, x, d
  <1>3. new = [row EXCEPT !.expected = e, !.received = r, !.missing = x,
                         !.discrepancy = d, !.status = st]
    BY <1>2 DEF ManifestRow
  <1> HIDE DEF new
  <1>4. new \in ManifestRow
    BY <1>1, <1>3 DEF ManifestRow
  <1>5. /\ new.status = st /\ new.expected = e /\ new.received = r
        /\ new.missing = x /\ new.discrepancy = d
    BY <1>3 DEF ManifestRow
  <1>6. new \in ManifestRow /\ Agrees(new, L) /\ new.status = st
    BY <1>4, <1>5 DEF Agrees, e, r, x, d
  <1> QED
    BY <1>6 DEF new

(* The status a receipt leaves is the one the lines call for. *)
LEMMA ReceiptTells ==
  ASSUME NEW L \in [Parcels -> Line], NEW st \in {"ARRIVED_AT_HUB", "IN_PROGRESS"},
         Tells(st, L), NEW p \in Parcels, L[p] \notin Released \cup {"none"},
         NEW s \in Released
  PROVE  LET new == [L EXCEPT ![p] = s]
         IN  Completed(new) \in Active \cup Terminal /\ Tells(Completed(new), new)
  <1> DEFINE new == [L EXCEPT ![p] = s]
             listed == {q \in Parcels : new[q] # "none"}
  <1>1. \A q \in Parcels : L[q] \in {"none", "EXPECTED", "RECEIVED", "DISCREPANCY"}
    BY DEF Tells, Line, Released
  <1>2. new[p] = s /\ s \in {"RECEIVED", "DISCREPANCY"} /\ p \in listed
    BY DEF Released
  <1>3. \A q \in Parcels : new[q] \in {"none", "EXPECTED", "RECEIVED", "DISCREPANCY"}
    BY <1>1, <1>2
  <1> HIDE DEF new
  <1>4. CASE \A q \in listed : new[q] = "RECEIVED"
    <2>1. Completed(new) = "COMPLETED"
      BY <1>4 DEF Completed
    <2>2. \A q \in Parcels : new[q] \in {"none", "RECEIVED"}
      BY <1>4
    <2>3. Tells("COMPLETED", new)
      BY <1>2, <1>4, <2>2 DEF Tells
    <2> QED
      BY <2>1, <2>3 DEF Terminal, new
  <1>5. CASE /\ ~ \A q \in listed : new[q] = "RECEIVED"
             /\ \A q \in listed : new[q] \in Released
    <2>1. Completed(new) = "COMPLETED_WITH_DISCREPANCIES"
      BY <1>5 DEF Completed
    <2>2. \A q \in Parcels : new[q] \in {"none", "RECEIVED", "DISCREPANCY"}
      BY <1>5 DEF Released
    <2>3. \E q \in Parcels : new[q] = "DISCREPANCY"
      BY <1>5, <2>2
    <2>4. Tells("COMPLETED_WITH_DISCREPANCIES", new)
      BY <2>2, <2>3 DEF Tells
    <2> QED
      BY <2>1, <2>4 DEF Terminal, new
  <1>6. CASE ~ \A q \in listed : new[q] \in Released
    <2>1. ~ \A q \in listed : new[q] = "RECEIVED"
      BY <1>6 DEF Released
    <2>2. Completed(new) = "IN_PROGRESS"
      BY <1>6, <2>1 DEF Completed
    <2>3. \E q \in Parcels : new[q] = "EXPECTED"
      BY <1>3, <1>6 DEF Released
    <2>4. Tells("IN_PROGRESS", new)
      BY <1>2, <1>3, <2>3 DEF Tells, Released
    <2> QED
      BY <2>2, <2>4 DEF Active, new
  <1> QED
    BY <1>4, <1>5, <1>6

(* Closing leaves a missing line, so the manifest completes with            *)
(* discrepancies.                                                           *)
LEMMA CloseTells ==
  ASSUME NEW row \in ManifestRow, NEW L \in [Parcels -> Line],
         row.status \in {"ARRIVED_AT_HUB", "IN_PROGRESS"}, Tells(row.status, L)
  PROVE  LET new == [p \in Parcels |->
                       IF p \in {q \in Parcels : L[q] \notin Released \cup {"none"}}
                       THEN "MISSING" ELSE L[p]]
         IN  /\ new \in [Parcels -> Line]
             /\ Recounted(row, new).missing # 0
             /\ Tells("COMPLETED_WITH_DISCREPANCIES", new)
  <1> DEFINE new == [p \in Parcels |->
                       IF p \in {q \in Parcels : L[q] \notin Released \cup {"none"}}
                       THEN "MISSING" ELSE L[p]]
             lost == {p \in Parcels : new[p] = "MISSING"}
  <1>1. new \in [Parcels -> Line]
    BY DEF Line
  <1>2. PICK p \in Parcels : L[p] = "EXPECTED"
    BY Zenon DEF Tells
  <1>3. new[p] = "MISSING"
    BY <1>2 DEF Released
  <1>4. \A q \in Parcels : new[q] # "EXPECTED"
    BY DEF Released
  <1>5. Recounted(row, new).missing = Cardinality(lost)
    BY DEF Recounted, Count, ManifestRow
  <1>6. IsFiniteSet(lost) /\ lost # {}
    BY <1>3, HandoverConstants, FS_Subset
  <1>7. Cardinality(lost) # 0
    BY <1>6, FS_EmptySet
  <1> HIDE DEF new
  <1>8. Tells("COMPLETED_WITH_DISCREPANCIES", new)
    BY <1>3, <1>4 DEF Tells
  <1> QED
    BY <1>1, <1>5, <1>7, <1>8 DEF new

-----------------------------------------------------------------------------
(* A transaction that ends holds nothing and keeps the rest as it is. *)
LEMMA EndStep ==
  ASSUME TypeOK, NEW w \in Workers, End(w)
  PROVE  /\ tx' \in [Workers -> Transaction] /\ seen' \in [Workers -> Snapshot]
         /\ tx'[w] = Idle
         /\ \A v \in Workers \ {w} : tx'[v] = tx[v] /\ seen'[v] = seen[v]
  <1>1. Idle \in Transaction
    BY DEF Idle, Transaction, Phase
  <1>2. NoManifest \in ManifestRow
    BY DEF NoManifest, ManifestRow
  <1>3. NothingSeen \in Snapshot
    BY <1>2 DEF NothingSeen, Snapshot, Line
  <1> QED
    BY <1>1, <1>3 DEF End, TypeOK

LEMMA EndKeepsLocks ==
  ASSUME TypeOK, LocksExclusive, ListingNamesParcels, NEW w \in Workers, End(w)
  PROVE  /\ LocksExclusive' /\ ListingNamesParcels'
         /\ \A v \in Workers, m \in Manifests :
                Holds(v, m)' => v # w /\ Holds(v, m) /\ seen'[v] = seen[v]
  <1>1. Idle.phase = "idle"
    BY DEF Idle
  <1>2. \A v \in Workers, m \in Manifests :
           Holds(v, m)' => v # w /\ Holds(v, m) /\ seen'[v] = seen[v]
    BY <1>1, EndStep DEF Holds
  <1>3. LocksExclusive'
    BY <1>2 DEF LocksExclusive
  <1>4. ListingNamesParcels'
    BY <1>1, EndStep DEF ListingNamesParcels
  <1> QED
    BY <1>2, <1>3, <1>4

(* The commit of a request that had the manifest to itself. *)
LEMMA CommitStep ==
  ASSUME IInv, NEW w \in Workers, NEW m \in Manifests, End(w),
         NEW row \in ManifestRow, NEW L \in [Parcels -> Line],
         manifest' = [manifest EXCEPT ![m] = row], line' = [line EXCEPT ![m] = L],
         \A v \in Workers : Holds(v, m) => v = w,
         Agrees(row, L), Tells(row.status, L)
  PROVE  /\ manifest' \in [Manifests -> ManifestRow]
         /\ line' \in [Manifests -> [Parcels -> Line]]
         /\ tx' \in [Workers -> Transaction] /\ seen' \in [Workers -> Snapshot]
         /\ LocksExclusive' /\ SeenIsStored' /\ ListingNamesParcels'
         /\ CountersAgree' /\ StatusTellsLines'
  <1>1. /\ manifest'[m] = row /\ line'[m] = L
        /\ \A n \in Manifests \ {m} : manifest'[n] = manifest[n] /\ line'[n] = line[n]
    BY DEF IInv, TypeOK
  <1>2. SeenIsStored'
    <2> SUFFICES ASSUME NEW v \in Workers, NEW n \in Manifests, Holds(v, n)'
                 PROVE  /\ manifest'[n].status # "ABSENT"
                        /\ seen'[v].manifest = manifest'[n] /\ seen'[v].lines = line'[n]
      BY Zenon DEF SeenIsStored
    <2>1. v # w /\ Holds(v, n) /\ seen'[v] = seen[v]
      BY EndKeepsLocks DEF IInv
    <2>2. n # m
      BY <2>1
    <2> QED
      BY <1>1, <2>1, <2>2 DEF IInv, SeenIsStored
  <1>3. CountersAgree'
    <2>1. \A n \in Manifests : Agrees(manifest[n], line[n])
      BY InvariantsByRow DEF IInv
    <2>2. \A n \in Manifests : Agrees(manifest'[n], line'[n])
      BY <1>1, <2>1
    <2> QED
      BY <2>2 DEF CountersAgree, Agrees, OnManifest
  <1>4. StatusTellsLines'
    <2>1. \A n \in Manifests : Tells(manifest[n].status, line[n])
      BY InvariantsByRow DEF IInv
    <2>2. \A n \in Manifests : Tells(manifest'[n].status, line'[n])
      BY <1>1, <2>1
    <2> QED
      BY <2>2, Zenon DEF StatusTellsLines, Tells, OnManifest
  <1> QED
    BY <1>2, <1>3, <1>4, EndStep, EndKeepsLocks DEF IInv, TypeOK

(* A request that holds the manifest has it to itself, and saw its rows. *)
LEMMA HolderSaw ==
  ASSUME IInv, NEW w \in Workers, NEW m \in Manifests, Holds(w, m)
  PROVE  /\ \A v \in Workers : Holds(v, m) => v = w
         /\ seen[w].manifest = manifest[m] /\ seen[w].lines = line[m]
         /\ manifest[m] \in ManifestRow /\ line[m] \in [Parcels -> Line]
         /\ Agrees(manifest[m], line[m]) /\ Tells(manifest[m].status, line[m])
  BY InvariantsByRow DEF IInv, LocksExclusive, SeenIsStored, TypeOK

-----------------------------------------------------------------------------
LEMMA InitInv == Init => IInv
  <1> SUFFICES ASSUME Init PROVE IInv
    OBVIOUS
  <1>1. Idle \in Transaction /\ Idle.phase = "idle"
    BY DEF Idle, Transaction, Phase
  <1>2. NoManifest \in ManifestRow
    BY DEF NoManifest, ManifestRow
  <1>3. NothingSeen \in Snapshot
    BY <1>2 DEF NothingSeen, Snapshot, Line
  <1>4. TypeOK
    BY <1>1, <1>2, <1>3 DEF Init, TypeOK, Line
  <1>5. LocksExclusive /\ SeenIsStored /\ ListingNamesParcels
    BY <1>1 DEF Init, LocksExclusive, SeenIsStored, ListingNamesParcels, Holds
  <1>6. ReleasedOnce
    BY HandoverConstants DEF Init, ReleasedOnce, Released
  <1>7. \A m \in Manifests : Agrees(manifest[m], line[m])
    <2> SUFFICES ASSUME NEW m \in Manifests PROVE Agrees(manifest[m], line[m])
      OBVIOUS
    <2>1. \A s \in {"RECEIVED", "MISSING", "DISCREPANCY"} : {p \in Parcels : line[m][p] = s} = {}
      BY DEF Init
    <2>2. {p \in Parcels : line[m][p] # "none"} = {}
      BY DEF Init
    <2>3. Cardinality({}) = 0
      BY FS_EmptySet
    <2> QED
      BY <2>1, <2>2, <2>3 DEF Agrees, Count, Init, NoManifest
  <1>8. \A m \in Manifests : Tells(manifest[m].status, line[m])
    <2> SUFFICES ASSUME NEW m \in Manifests PROVE Tells(manifest[m].status, line[m])
      OBVIOUS
    <2>1. manifest[m].status = "ABSENT" /\ {p \in Parcels : line[m][p] # "none"} = {}
      BY DEF Init, NoManifest
    <2> QED
      BY <2>1 DEF Tells
  <1> QED
    BY <1>4, <1>5, <1>6, <1>7, <1>8, InvariantsByRow DEF IInv

-----------------------------------------------------------------------------
(* One lemma per action that writes the tables, then the step. *)
LEMMA InsertInv ==
  ASSUME IInv, NEW w \in Workers, NEW m \in Manifests, InsertManifest(w, m)
  PROVE  IInv'
  <1> DEFINE row == [NoManifest EXCEPT !.status = "READY",
                                       !.expected = Cardinality(tx[w].listing)]
             L == [p \in Parcels |-> IF p \in tx[w].listing THEN "EXPECTED" ELSE "none"]
  <1>1. tx[w].listing \in SUBSET Parcels /\ tx[w].listing # {} /\ tx[w].phase = "insert"
    BY DEF InsertManifest, IInv, TypeOK, Transaction, ListingNamesParcels
  <1>2. Cardinality(tx[w].listing) \in Nat
    BY <1>1, HandoverConstants, FS_Subset, FS_CardinalityType
  <1>3. NoManifest \in ManifestRow
    BY DEF NoManifest, ManifestRow
  <1>4. row \in ManifestRow
    BY <1>2, <1>3 DEF ManifestRow, Active
  <1>r. /\ row.status = "READY" /\ row.expected = Cardinality(tx[w].listing)
        /\ row.received = 0 /\ row.missing = 0 /\ row.discrepancy = 0
    BY DEF NoManifest
  <1>5. L \in [Parcels -> Line]
    BY DEF Line
  <1>6. Agrees(row, L)
    <2>1. {p \in Parcels : L[p] # "none"} = tx[w].listing
      BY <1>1
    <2>2. \A s \in {"RECEIVED", "MISSING", "DISCREPANCY"} : {p \in Parcels : L[p] = s} = {}
      OBVIOUS
    <2>3. Cardinality({}) = 0
      BY FS_EmptySet
    <2> QED
      BY <1>r, <2>1, <2>2, <2>3 DEF Agrees, Count
  <1>7. Tells(row.status, L)
    <2>1. \A p \in Parcels : L[p] \in {"EXPECTED", "none"}
      OBVIOUS
    <2>2. \E p \in Parcels : L[p] = "EXPECTED"
      BY <1>1
    <2> QED
      BY <1>r, <2>1, <2>2 DEF Tells, Released
  <1>8. manifest[m].status = "ABSENT" /\ Tells("ABSENT", line[m])
    BY InvariantsByRow DEF InsertManifest, IInv
  <1>9. \A v \in Workers : Holds(v, m) => v = w
    BY <1>8 DEF IInv, SeenIsStored
  <1>10. /\ manifest' = [manifest EXCEPT ![m] = row] /\ line' = [line EXCEPT ![m] = L]
         /\ End(w) /\ version' = version /\ fact' = fact
    BY DEF InsertManifest
  <1>11. ReleasedOnce'
    <2>1. \A p \in Parcels : line[m][p] = "none"
      BY <1>8 DEF Tells
    <2>2. \A p \in Parcels : fact[p] # m
      BY <2>1 DEF IInv, ReleasedOnce, Released
    <2>3. \A p \in Parcels : line'[m][p] \notin Released
      BY <1>10 DEF IInv, TypeOK, Released
    <2>4. \A n \in Manifests \ {m} : line'[n] = line[n]
      BY <1>10 DEF IInv, TypeOK
    <2> QED
      BY <1>10, <2>2, <2>3, <2>4 DEF IInv, ReleasedOnce
  <1> HIDE DEF row, L
  <1> QED
    BY <1>4, <1>5, <1>6, <1>7, <1>9, <1>10, <1>11, CommitStep DEF IInv, TypeOK

(* Arriving and cancelling change the status only. *)
LEMMA StatusInv ==
  ASSUME IInv, NEW w \in Workers, NEW m \in Manifests, Holds(w, m), End(w),
         NEW st \in {"ARRIVED_AT_HUB", "CANCELLED"},
         manifest' = [manifest EXCEPT ![m] = [seen[w].manifest EXCEPT !.status = st]],
         Tells(st, line[m]), UNCHANGED <<version, line, fact>>
  PROVE  IInv'
  <1> DEFINE row == [manifest[m] EXCEPT !.status = st]
  <1>1. seen[w].manifest = manifest[m] /\ manifest[m] \in ManifestRow
    BY HolderSaw
  <1>2. row \in ManifestRow /\ row.status = st
    BY <1>1 DEF ManifestRow, Active, Terminal
  <1>3. Agrees(row, line[m])
    <2>1. /\ row.expected = manifest[m].expected /\ row.received = manifest[m].received
          /\ row.missing = manifest[m].missing /\ row.discrepancy = manifest[m].discrepancy
      BY <1>1 DEF ManifestRow
    <2> HIDE DEF row
    <2> QED
      BY <2>1, HolderSaw DEF Agrees
  <1>4. manifest' = [manifest EXCEPT ![m] = row] /\ line' = [line EXCEPT ![m] = line[m]]
    BY <1>1 DEF IInv, TypeOK
  <1>5. ReleasedOnce'
    BY DEF IInv, ReleasedOnce
  <1> HIDE DEF row
  <1> QED
    BY <1>2, <1>3, <1>4, <1>5, HolderSaw, CommitStep DEF IInv, TypeOK

LEMMA ArriveInv ==
  ASSUME IInv, NEW w \in Workers, NEW m \in Manifests, ArriveAtHub(w, m)
  PROVE  IInv'
  <1>1. manifest[m].status = "READY"
    BY HolderSaw DEF ArriveAtHub
  <1>2. Tells("ARRIVED_AT_HUB", line[m])
    <2>1. Tells("READY", line[m])
      BY <1>1, HolderSaw DEF ArriveAtHub
    <2> QED
      BY <2>1 DEF Tells
  <1> QED
    BY <1>2, StatusInv DEF ArriveAtHub

LEMMA CancelInv ==
  ASSUME IInv, NEW w \in Workers, NEW m \in Manifests, CancelManifest(w, m)
  PROVE  IInv'
  <1>1. /\ manifest[m].status \in Active
        /\ \A p \in Parcels : line[m][p] \notin Released
    BY HolderSaw DEF CancelManifest
  <1>2. Tells("CANCELLED", line[m])
    <2>1. Tells(manifest[m].status, line[m])
      BY HolderSaw DEF CancelManifest
    <2>2. /\ \E p \in Parcels : line[m][p] = "EXPECTED"
          /\ \A p \in Parcels : line[m][p] # "MISSING"
      BY <1>1, <2>1 DEF Tells, Active
    <2> QED
      BY <1>1, <2>2 DEF Tells
  <1> QED
    BY <1>2, StatusInv DEF CancelManifest

LEMMA ReceiptInv ==
  ASSUME IInv, NEW w \in Workers, NEW m \in Manifests, NEW p \in Parcels,
         NEW s \in Released, RecordHubReceipt(w, m, p, s)
  PROVE  IInv'
  <1> DEFINE L == [line[m] EXCEPT ![p] = s]
             row == [Recounted(manifest[m], L) EXCEPT !.status = Completed(L)]
  <1>1. /\ seen[w].manifest = manifest[m] /\ seen[w].lines = line[m]
        /\ manifest[m] \in ManifestRow /\ line[m] \in [Parcels -> Line]
        /\ Tells(manifest[m].status, line[m])
        /\ \A v \in Workers : Holds(v, m) => v = w
    BY HolderSaw DEF RecordHubReceipt
  <1>2. /\ manifest[m].status \in {"ARRIVED_AT_HUB", "IN_PROGRESS"}
        /\ line[m][p] \notin Released \cup {"none"}
        /\ fact[p] = None
    BY <1>1 DEF RecordHubReceipt, NoFactYet
  <1>3. Completed(L) \in Active \cup Terminal /\ Tells(Completed(L), L)
    BY <1>1, <1>2, ReceiptTells
  <1>4. L \in [Parcels -> Line]
    BY <1>1 DEF Line, Released
  <1>5. /\ version' = [version EXCEPT ![p] = version[p] + 1]
        /\ fact' = [fact EXCEPT ![p] = m] /\ End(w)
        /\ manifest' = [manifest EXCEPT ![m] = row]
    BY <1>1 DEF RecordHubReceipt
  <1>6. line' = [line EXCEPT ![m] = L]
    BY DEF RecordHubReceipt, IInv, TypeOK
  <1>7. version' \in [Parcels -> Nat] /\ fact' \in [Parcels -> Manifests \cup {None}]
    BY <1>5 DEF IInv, TypeOK
  <1>8. ReleasedOnce'
    <2>1. line'[m][p] \in Released /\ fact'[p] = m
      BY <1>4, <1>5, <1>6 DEF IInv, TypeOK
    <2>2. \A n \in Manifests \ {m} : line'[n][p] \notin Released /\ fact'[p] # n
      <3>1. \A n \in Manifests : line[n][p] \notin Released
        BY <1>2, HandoverConstants DEF IInv, ReleasedOnce
      <3> QED
        BY <1>6, <2>1, <3>1 DEF IInv, TypeOK
    <2>3. \A q \in Parcels \ {p}, n \in Manifests :
             line'[n][q] = line[n][q] /\ fact'[q] = fact[q]
      BY <1>5, <1>6 DEF IInv, TypeOK
    <2> QED
      BY <2>1, <2>2, <2>3 DEF IInv, ReleasedOnce
  <1> HIDE DEF L
  <1>9. row \in ManifestRow /\ Agrees(row, L) /\ row.status = Completed(L)
    BY <1>1, <1>3, RecountedRow
  <1> HIDE DEF row
  <1> QED
    BY <1>1, <1>3, <1>4, <1>5, <1>6, <1>7, <1>8, <1>9, CommitStep DEF IInv, TypeOK

LEMMA CloseInv ==
  ASSUME IInv, NEW w \in Workers, NEW m \in Manifests, NEW named \in SUBSET Parcels,
         CloseManifest(w, m, named)
  PROVE  IInv'
  <1> DEFINE lost == {p \in Parcels : line[m][p] \notin Released \cup {"none"}}
             L == [p \in Parcels |-> IF p \in lost THEN "MISSING" ELSE line[m][p]]
             old == Recounted(manifest[m], L)
             row == [old EXCEPT !.status = "COMPLETED_WITH_DISCREPANCIES"]
  <1>1. /\ seen[w].manifest = manifest[m] /\ seen[w].lines = line[m]
        /\ manifest[m] \in ManifestRow /\ line[m] \in [Parcels -> Line]
        /\ Tells(manifest[m].status, line[m])
        /\ \A v \in Workers : Holds(v, m) => v = w
    BY HolderSaw DEF CloseManifest
  <1>2. manifest[m].status \in {"ARRIVED_AT_HUB", "IN_PROGRESS"}
    BY <1>1 DEF CloseManifest
  <1>3. /\ L \in [Parcels -> Line] /\ old.missing # 0
        /\ Tells("COMPLETED_WITH_DISCREPANCIES", L)
    BY <1>1, <1>2, CloseTells
  <1>4. line' = [line EXCEPT ![m] = L]
    BY <1>1 DEF CloseManifest
  <1>5. manifest' = [manifest EXCEPT ![m] =
           [old EXCEPT !.status = IF old.missing = 0 /\ old.discrepancy = 0
                                  THEN "COMPLETED" ELSE "COMPLETED_WITH_DISCREPANCIES"]]
    BY <1>1 DEF CloseManifest
  <1>6. End(w) /\ version' = version /\ fact' = fact
    BY DEF CloseManifest
  <1>7. ReleasedOnce'
    <2>1. \A p \in Parcels : L[p] \in Released <=> line[m][p] \in Released
      BY DEF Released
    <2>2. line'[m] = L /\ \A n \in Manifests \ {m} : line'[n] = line[n]
      BY <1>4 DEF IInv, TypeOK
    <2> HIDE DEF L
    <2> QED
      BY <1>6, <2>1, <2>2 DEF IInv, ReleasedOnce
  <1> HIDE DEF L
  <1>8. /\ row \in ManifestRow /\ Agrees(row, L)
        /\ row.status = "COMPLETED_WITH_DISCREPANCIES"
    BY <1>1, RecountedRow DEF Terminal
  <1> HIDE DEF old
  <1>9. manifest' = [manifest EXCEPT ![m] = row]
    BY <1>3, <1>5
  <1> HIDE DEF row
  <1> QED
    BY <1>1, <1>3, <1>4, <1>6, <1>7, <1>8, <1>9, CommitStep DEF IInv, TypeOK

(* A step of one request that leaves the tables and its own locks alone. *)
LEMMA ListingInv ==
  ASSUME IInv, NEW w \in Workers, NEW t \in Transaction, UNCHANGED <<db, seen>>,
         tx' = [tx EXCEPT ![w] = t], t.phase # "locked", t.listing # {}
  PROVE  IInv'
  <1>1. \A v \in Workers, m \in Manifests : Holds(v, m)' => Holds(v, m)
    BY DEF Holds, IInv, TypeOK
  <1>2. LocksExclusive' /\ SeenIsStored'
    BY <1>1 DEF IInv, LocksExclusive, SeenIsStored, db
  <1>3. ListingNamesParcels'
    BY DEF IInv, ListingNamesParcels, TypeOK
  <1>4. TypeOK'
    BY DEF IInv, TypeOK, db
  <1>5. ReleasedOnce' /\ CountersAgree' /\ StatusTellsLines'
    <2>1. ReleasedOnce'
      BY DEF IInv, ReleasedOnce, db
    <2>2. CountersAgree'
      BY DEF IInv, CountersAgree, OnManifest, Count, db
    <2>3. manifest' = manifest /\ line' = line /\ StatusTellsLines
      BY DEF IInv, db
    <2>4. StatusTellsLines'
      BY <2>3, Zenon DEF StatusTellsLines, OnManifest
    <2> QED
      BY <2>1, <2>2, <2>4
  <1> QED
    BY <1>2, <1>3, <1>4, <1>5 DEF IInv

LEMMA EndInv ==
  ASSUME IInv, NEW w \in Workers, End(w), UNCHANGED db
  PROVE  IInv'
  <1>1. LocksExclusive' /\ ListingNamesParcels'
    BY EndKeepsLocks DEF IInv
  <1>2. SeenIsStored'
    <2> SUFFICES ASSUME NEW v \in Workers, NEW m \in Manifests, Holds(v, m)'
                 PROVE  /\ manifest'[m].status # "ABSENT"
                        /\ seen'[v].manifest = manifest'[m] /\ seen'[v].lines = line'[m]
      BY Zenon DEF SeenIsStored
    <2>1. Holds(v, m) /\ seen'[v] = seen[v]
      BY EndKeepsLocks DEF IInv
    <2> QED
      BY <2>1 DEF IInv, SeenIsStored, db
  <1>3. TypeOK'
    BY EndStep DEF IInv, TypeOK, db
  <1>4. ReleasedOnce' /\ CountersAgree' /\ StatusTellsLines'
    <2>1. ReleasedOnce'
      BY DEF IInv, ReleasedOnce, db
    <2>2. CountersAgree'
      BY DEF IInv, CountersAgree, OnManifest, Count, db
    <2>3. manifest' = manifest /\ line' = line /\ StatusTellsLines
      BY DEF IInv, db
    <2>4. StatusTellsLines'
      BY <2>3, Zenon DEF StatusTellsLines, OnManifest
    <2> QED
      BY <2>1, <2>2, <2>4
  <1> QED
    BY <1>1, <1>2, <1>3, <1>4 DEF IInv

LEMMA LockInv ==
  ASSUME IInv, NEW w \in Workers, NEW m \in Manifests, Lock(w, m)
  PROVE  IInv'
  <1> DEFINE t == [Idle EXCEPT !.phase = "locked", !.manifest = m]
             rows == [manifest |-> manifest[m], lines |-> line[m], version |-> version]
  <1>1. t \in Transaction /\ t.phase = "locked" /\ t.manifest = m
    BY DEF Idle, Transaction, Phase
  <1>2. rows \in Snapshot /\ rows.manifest = manifest[m] /\ rows.lines = line[m]
    BY DEF IInv, TypeOK, Snapshot
  <1>3. /\ tx' = [tx EXCEPT ![w] = t] /\ seen' = [seen EXCEPT ![w] = rows]
        /\ manifest' = manifest /\ line' = line /\ version' = version /\ fact' = fact
        /\ manifest[m].status # "ABSENT"
        /\ \A v \in Workers : ~Holds(v, m)
    BY DEF Lock, db
  <1> HIDE DEF t, rows
  <1>4. tx'[w] = t /\ seen'[w] = rows
        /\ \A v \in Workers \ {w} : tx'[v] = tx[v] /\ seen'[v] = seen[v]
    BY <1>3 DEF IInv, TypeOK
  <1>5. \A v \in Workers, n \in Manifests :
           Holds(v, n)' <=> IF v = w THEN n = m ELSE Holds(v, n)
    BY <1>1, <1>4 DEF Holds
  <1>6. LocksExclusive'
    <2> SUFFICES ASSUME NEW u \in Workers, NEW v \in Workers, NEW n \in Manifests,
                        Holds(u, n)', Holds(v, n)'
                 PROVE  u = v
      BY Zenon DEF LocksExclusive
    <2> QED
      BY <1>3, <1>5 DEF IInv, LocksExclusive
  <1>7. SeenIsStored'
    <2> SUFFICES ASSUME NEW v \in Workers, NEW n \in Manifests, Holds(v, n)'
                 PROVE  /\ manifest'[n].status # "ABSENT"
                        /\ seen'[v].manifest = manifest'[n] /\ seen'[v].lines = line'[n]
      BY Zenon DEF SeenIsStored
    <2>1. CASE v = w
      BY <1>2, <1>3, <1>4, <1>5, <2>1
    <2>2. CASE v # w
      BY <1>3, <1>4, <1>5, <2>2 DEF IInv, SeenIsStored
    <2> QED
      BY <2>1, <2>2
  <1>8. ListingNamesParcels'
    BY <1>1, <1>4 DEF IInv, ListingNamesParcels
  <1>9. TypeOK'
    BY <1>1, <1>2, <1>3 DEF IInv, TypeOK
  <1>10. ReleasedOnce' /\ CountersAgree' /\ StatusTellsLines'
    <2>1. ReleasedOnce'
      BY <1>3 DEF IInv, ReleasedOnce
    <2>2. CountersAgree'
      BY <1>3 DEF IInv, CountersAgree, OnManifest, Count
    <2>3. manifest' = manifest /\ line' = line /\ StatusTellsLines
      BY <1>3 DEF IInv
    <2>4. StatusTellsLines'
      BY <2>3, Zenon DEF StatusTellsLines, OnManifest
    <2> QED
      BY <2>1, <2>2, <2>4
  <1> QED
    BY <1>6, <1>7, <1>8, <1>9, <1>10 DEF IInv

LEMMA AcceptInv ==
  ASSUME IInv, NEW p \in Parcels, AcceptTask(p)
  PROVE  IInv'
  <1>1. /\ manifest' = manifest /\ line' = line /\ fact' = fact /\ tx' = tx /\ seen' = seen
        /\ version' = [version EXCEPT ![p] = 1]
    BY DEF AcceptTask
  <1>2. TypeOK'
    BY <1>1 DEF IInv, TypeOK
  <1>3. LocksExclusive' /\ SeenIsStored' /\ ListingNamesParcels' /\ ReleasedOnce'
    BY <1>1 DEF IInv, LocksExclusive, SeenIsStored, ListingNamesParcels, ReleasedOnce, Holds
  <1>4. CountersAgree'
    BY <1>1 DEF IInv, CountersAgree, OnManifest, Count
  <1>5. StatusTellsLines'
    <2>1. manifest' = manifest /\ line' = line /\ StatusTellsLines
      BY <1>1 DEF IInv
    <2> QED
      BY <2>1, Zenon DEF StatusTellsLines, OnManifest
  <1> QED
    BY <1>2, <1>3, <1>4, <1>5 DEF IInv

LEMMA StepInv == IInv /\ [Next]_vars => IInv'
  <1> SUFFICES ASSUME IInv, [Next]_vars PROVE IInv'
    OBVIOUS
  <1>1. ASSUME NEW p \in Parcels, AcceptTask(p) PROVE IInv'
    BY <1>1, AcceptInv
  <1>2. ASSUME NEW w \in Workers, NEW ps \in SUBSET Parcels, BeginListing(w, ps) PROVE IInv'
    <2> DEFINE t == [Idle EXCEPT !.phase = "custody", !.listing = ps, !.todo = ps]
    <2>1. t \in Transaction /\ t.phase = "custody" /\ t.listing = ps /\ ps # {}
      BY <1>2 DEF BeginListing, Idle, Transaction, Phase
    <2>2. tx' = [tx EXCEPT ![w] = t] /\ UNCHANGED <<db, seen>>
      BY <1>2 DEF BeginListing
    <2> HIDE DEF t
    <2> QED
      BY <2>1, <2>2, ListingInv
  <1>3. ASSUME NEW w \in Workers, NEW p \in Parcels, CheckCustody(w, p) PROVE IInv'
    <2> DEFINE t == [tx[w] EXCEPT !.phase = "active", !.parcel = p]
    <2>1. tx[w] \in Transaction /\ tx[w].listing # {}
      BY <1>3 DEF CheckCustody, IInv, TypeOK, ListingNamesParcels
    <2>2. t \in Transaction /\ t.phase = "active" /\ t.listing # {}
      BY <2>1 DEF Transaction, Phase
    <2>3. tx' = [tx EXCEPT ![w] = t] /\ UNCHANGED <<db, seen>>
      BY <1>3 DEF CheckCustody, IInv, TypeOK
    <2> HIDE DEF t
    <2> QED
      BY <2>2, <2>3, ListingInv
  <1>4. ASSUME NEW w \in Workers, CheckActive(w) PROVE IInv'
    <2> DEFINE rest == tx[w].todo \ {tx[w].parcel}
               ph == IF rest = {} THEN "insert" ELSE "custody"
               t == [tx[w] EXCEPT !.phase = ph, !.todo = rest, !.parcel = None]
    <2>1. tx[w] \in Transaction /\ tx[w].listing # {}
      BY <1>4 DEF CheckActive, IInv, TypeOK, ListingNamesParcels
    <2>2. rest \in SUBSET Parcels /\ ph \in {"insert", "custody"}
      BY <2>1 DEF Transaction
    <2>3. tx' = [tx EXCEPT ![w] = t] /\ UNCHANGED <<db, seen>>
      BY <1>4 DEF CheckActive, IInv, TypeOK
    <2> HIDE DEF rest, ph
    <2>4. t \in Transaction /\ t.phase # "locked" /\ t.listing # {}
      BY <2>1, <2>2 DEF Transaction, Phase
    <2> HIDE DEF t
    <2> QED
      BY <2>3, <2>4, ListingInv
  <1>5. ASSUME NEW w \in Workers, NEW m \in Manifests, InsertManifest(w, m) PROVE IInv'
    BY <1>5, InsertInv
  <1>6. ASSUME NEW w \in Workers, DuplicateLine(w) \/ Abandon(w) PROVE IInv'
    BY <1>6, EndInv DEF DuplicateLine, Abandon
  <1>7. ASSUME NEW w \in Workers, NEW m \in Manifests, OnLocked(w, m) PROVE IInv'
    <2>1. CASE Lock(w, m)
      BY <2>1, LockInv
    <2>2. CASE ArriveAtHub(w, m)
      BY <2>2, ArriveInv
    <2>3. CASE CancelManifest(w, m)
      BY <2>3, CancelInv
    <2>4. ASSUME NEW p \in Parcels, NEW s \in Released, RecordHubReceipt(w, m, p, s) PROVE IInv'
      BY <2>4, ReceiptInv
    <2>5. ASSUME NEW named \in SUBSET Parcels, CloseManifest(w, m, named) PROVE IInv'
      BY <2>5, CloseInv
    <2> QED
      BY <1>7, <2>1, <2>2, <2>3, <2>4, <2>5 DEF OnLocked
  <1>8. CASE UNCHANGED vars
    <2>1. /\ version' = version /\ manifest' = manifest /\ line' = line
          /\ fact' = fact /\ tx' = tx /\ seen' = seen
      BY <1>8 DEF vars, db
    <2>2. /\ TypeOK' /\ LocksExclusive' /\ SeenIsStored' /\ ListingNamesParcels'
          /\ ReleasedOnce'
      BY <2>1 DEF IInv, TypeOK, LocksExclusive, SeenIsStored, ListingNamesParcels,
                  ReleasedOnce, Holds
    <2>3. CountersAgree'
      BY <2>1 DEF IInv, CountersAgree, OnManifest, Count
    <2>4. StatusTellsLines'
      BY <2>1, Zenon DEF IInv, StatusTellsLines, OnManifest
    <2> QED
      BY <2>2, <2>3, <2>4 DEF IInv
  <1> QED
    BY <1>1, <1>2, <1>3, <1>4, <1>5, <1>6, <1>7, <1>8 DEF Next, Listing

-----------------------------------------------------------------------------
(* The invariant of the handover, in every reachable state. *)
THEOREM HandoverInvariant == Spec => []IInv
  BY InitInv, StepInv, PTL DEF Spec

(* Every variable keeps its type. *)
THEOREM HandoverTypes == Spec => []TypeOK
  <1>1. IInv => TypeOK
    BY DEF IInv
  <1> QED
    BY <1>1, HandoverInvariant, PTL

(* record_hub_receipt releases a parcel once, with one fact. *)
THEOREM CustodyReleasedOnce == Spec => []ReleasedOnce
  <1>1. IInv => ReleasedOnce
    BY DEF IInv
  <1> QED
    BY <1>1, HandoverInvariant, PTL

(* The counters kept by _recount are those of the lines. *)
THEOREM CountersAreRight == Spec => []CountersAgree
  <1>1. IInv => CountersAgree
    BY DEF IInv
  <1> QED
    BY <1>1, HandoverInvariant, PTL

(* The status kept by receipts and closings is the one the lines call for. *)
THEOREM StatusIsRight == Spec => []StatusTellsLines
  <1>1. IInv => StatusTellsLines
    BY DEF IInv
  <1> QED
    BY <1>1, HandoverInvariant, PTL

(* No step rewrites a received line or a terminal manifest. *)
LEMMA StepCloses ==
  ASSUME IInv, [Next]_vars, NEW m \in Manifests
  PROVE  /\ \A p \in Parcels : line[m][p] \in Released => line'[m][p] = line[m][p]
         /\ manifest[m].status \in Terminal => manifest'[m] = manifest[m] /\ line'[m] = line[m]
  <1> DEFINE Kept(n) == manifest'[n] = manifest[n] /\ line'[n] = line[n]
  <1>1. CASE UNCHANGED <<manifest, line>>
    BY <1>1
  <1>2. ASSUME NEW w \in Workers, NEW n \in Manifests, InsertManifest(w, n)
        PROVE  Kept(m) \/ /\ manifest[m].status = "ABSENT"
                          /\ \A p \in Parcels : line[m][p] = "none"
    <2>1. m # n => Kept(m)
      BY <1>2 DEF InsertManifest, IInv, TypeOK
    <2>2. manifest[n].status = "ABSENT" /\ Tells(manifest[n].status, line[n])
      BY <1>2, InvariantsByRow DEF InsertManifest, IInv
    <2>3. \A p \in Parcels : line[n][p] = "none"
      BY <2>2 DEF Tells
    <2> QED
      BY <2>1, <2>2, <2>3
  <1>3. ASSUME NEW w \in Workers, NEW n \in Manifests, ArriveAtHub(w, n) \/ CancelManifest(w, n)
        PROVE  line' = line /\ (Kept(m) \/ manifest[m].status \in Active)
    <2>1. seen[w].manifest = manifest[n] /\ seen[w].manifest.status \in Active
      BY <1>3, HolderSaw DEF ArriveAtHub, CancelManifest, Active
    <2> QED
      BY <1>3, <2>1 DEF ArriveAtHub, CancelManifest, IInv, TypeOK
  <1>4. ASSUME NEW w \in Workers, NEW n \in Manifests, NEW q \in Parcels, NEW s \in Released,
               RecordHubReceipt(w, n, q, s)
        PROVE  Kept(m) \/ /\ manifest[m].status \in Active
                          /\ \A p \in Parcels : line[m][p] \in Released =>
                                line'[m][p] = line[m][p]
    <2>1. /\ manifest[n].status \in Active /\ line[n][q] \notin Released
      BY <1>4, HolderSaw DEF RecordHubReceipt, Active
    <2>2. m # n => Kept(m)
      BY <1>4 DEF RecordHubReceipt, IInv, TypeOK
    <2>3. \A p \in Parcels \ {q} : line'[n][p] = line[n][p]
      BY <1>4 DEF RecordHubReceipt, IInv, TypeOK
    <2> QED
      BY <2>1, <2>2, <2>3
  <1>5. ASSUME NEW w \in Workers, NEW n \in Manifests, NEW named \in SUBSET Parcels,
               CloseManifest(w, n, named)
        PROVE  Kept(m) \/ /\ manifest[m].status \in Active
                          /\ \A p \in Parcels : line[m][p] \in Released =>
                                line'[m][p] = line[m][p]
    <2>1. manifest[n].status \in Active /\ seen[w].lines = line[n]
      BY <1>5, HolderSaw DEF CloseManifest, Active
    <2>2. m # n => Kept(m)
      BY <1>5 DEF CloseManifest, IInv, TypeOK
    <2>3. \A p \in Parcels : line[n][p] \in Released => line'[n][p] = line[n][p]
      BY <1>5, <2>1 DEF CloseManifest, IInv, TypeOK
    <2> QED
      BY <2>1, <2>2, <2>3
  <1>6. UNCHANGED <<manifest, line>>
        \/ \E w \in Workers, n \in Manifests :
              \/ InsertManifest(w, n) \/ ArriveAtHub(w, n) \/ CancelManifest(w, n)
              \/ \E q \in Parcels, s \in Released : RecordHubReceipt(w, n, q, s)
              \/ \E named \in SUBSET Parcels : CloseManifest(w, n, named)
    BY DEF Next, Listing, OnLocked, AcceptTask, BeginListing, CheckCustody, CheckActive,
           DuplicateLine, Abandon, Lock, vars, db
  <1>7. Kept(m) \/ /\ manifest[m].status \notin Terminal
                   /\ \A p \in Parcels : line[m][p] \in Released => line'[m][p] = line[m][p]
    BY <1>1, <1>2, <1>3, <1>4, <1>5, <1>6 DEF Active, Terminal, Released
  <1> QED
    BY <1>7

(* Whoever read a manifest before it was closed writes nothing after. *)
THEOREM ClosedStaysClosed == Spec => ClosedForGood
  <1>1. IInv /\ [Next]_vars => [\A m \in Manifests :
          /\ \A p \in Parcels : line[m][p] \in Released => line'[m][p] = line[m][p]
          /\ manifest[m].status \in Terminal =>
                manifest'[m] = manifest[m] /\ line'[m] = line[m]]_vars
    BY StepCloses
  <1> QED
    BY <1>1, HandoverInvariant, PTL DEF Spec, ClosedForGood

(* Counters and status of every manifest agree with its lines. *)
THEOREM HandoverBooksAgree == Spec => []BooksAgree
  <1>1. CountersAgree /\ StatusTellsLines => BooksAgree
    BY DEF BooksAgree
  <1> QED
    BY <1>1, CountersAreRight, StatusIsRight, PTL
=============================================================================
