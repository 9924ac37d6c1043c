------------------------------- MODULE MCDesks -------------------------------
(* Model checking Desks.  The constants are as large as any place needs, and *)
(* each place is kept within bounds of its own. *)
EXTENDS Desks, TLC

CONSTANT Places

(* Two drivers' facts about one parcel and one that is malformed. *)
OneParcel == [f \in {"f1", "f2", "f3"} |-> "s1"]
OneWorker == [h \in Handlers |-> "rA"]

(* Two events of one source row and one that is malformed. *)
Observed == (1 :> "row") @@ (2 :> "row") @@ (3 :> None)

(* A parcel for an account holder, and one that sends to itself. *)
TwoTrips   == {<<"p", "q">>, <<"q", "q">>}
TwoReaches == {{}, {"APP", "WHATSAPP"}}

(* The two at work in a place, be they requests, senders, readers, handlers  *)
(* or workers, are alike.                                                    *)
Alike == Permutations(Requests)

-----------------------------------------------------------------------------
Unused(table) == \A i \in DOMAIN table : table[i] = None

OnlyFirst(table) == \A i \in DOMAIN table : i > 1 => table[i] = None

UpTo(most, table) == \A i \in DOMAIN table : table[i] # None => table[i].version <= most

(* Parcels and manifests have no order: those numbered first come first. *)
NumbersInOrder ==
    /\ \A p, q \in Parcels : p < q /\ version[q] > 0 => version[p] > 0
    /\ \A m, n \in Manifests : m < n /\ manifest[n].status # "ABSENT"
          => manifest[m].status # "ABSENT"

(* A merchant's order and a customer's, one label; one parcel that is amended. *)
SendsInBounds ==
    /\ UpTo(3, x2)
    /\ \A p \in Parcels : x2[p] # None => x2[p].details = "d1" /\ x2[p].cod \in {None, "a1"}

AmendmentsInBounds == OnlyFirst(x2) /\ x1 \subseteq {"o1"}

(* Codes and sessions; the roles of one principal. *)
CodesInBounds == Unused(x6) /\ x1 \in {None, "ACTIVE", "SUSPENDED"}
RolesInBounds == Unused(x5) /\ OnlyFirst(x2)

OfOneParcel(table) == \A i \in DOMAIN table : table[i] # None => table[i].parcel \in {1, None}

ClaimsInBounds    == Unused(x3) /\ OfOneParcel(x1) /\ UpTo(4, x1)
IncidentsInBounds == OnlyFirst(x1) /\ OnlyFirst(x3) /\ OfOneParcel(x1) /\ OfOneParcel(x3) /\ UpTo(2, x1)

(* Any fan-out; dispatches of what one request fans out, on a phone. *)
FanOutInBounds   == Unused(x6)
DispatchInBounds ==
    /\ \A p \in Phones : x1[p] <= 2
    /\ \A r, q \in Readers : x5[r] # None /\ x5[q] # None => r = q
    /\ \A r \in Readers : x5[r] # None =>
          /\ ~x5[r].twice
          /\ \A k \in x5[r].planned \cup x5[r].muted : k.to.channel = "SMS"

(* Applications and shift patterns; late starts; leave. *)
OfficeInBounds == Unused(x7) /\ Unused(x9)
StartsInBounds == OnlyFirst(x2) /\ OnlyFirst(x4) /\ OnlyFirst(x9) /\ x3 \in {None, "ACTIVE"}
LeaveInBounds  ==
    /\ x1 = 1 /\ OnlyFirst(x2) /\ OnlyFirst(x4) /\ OnlyFirst(x7)
    /\ \A r \in Requests : x10[r] # None /\ x10[r].kind = "leave" => x10[r].to = 1
    /\ \A p \in Patterns : x4[p] # None => x4[p].from = 1

(* The merchant's branches; its team; its applications. *)
BranchesInBounds == Unused(x1) /\ Unused(x4) /\ UpTo(3, x3)
TeamInBounds     == Unused(x1) /\ OnlyFirst(x3)
ApplyingInBounds == Unused(x3) /\ Unused(x4) /\ UpTo(3, x1)

(* The merchant's catalogue; its label stock. *)
ShelfInBounds == Unused(x3) /\ Unused(x4) /\ UpTo(3, x1) /\ UpTo(3, x2)
StockInBounds == Unused(x1) /\ Unused(x2) /\ UpTo(3, x3) /\ UpTo(3, x4)

(* Events of one source row and a malformed one, one of them once; two      *)
(* handlers on one store, and one event of each kind, one of them once.      *)
Delivered == x2[1] + x2[2] + x2[3]

TimelineInBounds == Delivered <= 4
LogInBounds      == x1[2] = "ready" /\ Delivered <= 3

(* Two requests at one row, one of which changes it twice.  Of each kind, it *)
(* is of the tables with most lookups: what is done by others, is by theirs. *)
RowInBounds ==
    /\ x1[2] = x1[1] /\ x1[1].after = {} /\ x2[2].version = 0
    /\ x1[1].kind # "replaced" => x1[1].own /\ x1[1].past
    /\ \A p \in Requests : x4[p][2].version = 0
    /\ \E p \in Requests : <<p, 2>> \notin x4[p][1].made \cup x5[p][1].saved

(* Two requests at two rows which are there, of the same or of two tables,   *)
(* as identity's are; what is saved was changed, once.                       *)
RowsInBounds ==
    /\ \A r \in UnitRows : x1[r].kind = "checked" /\ ~x1[r].own /\ x1[r].past /\ x2[r].version > 0
    /\ 2 \notin x1[1].after
    /\ \A p \in Requests, r \in UnitRows : x4[p][r].made \subseteq Requests \X {1}
    /\ \A p \in Requests, r \in UnitRows : x5[p][r].version # 1

InBounds ==
    CASE place = "handover"   -> NumbersInOrder
      [] place = "shared"     -> x16 = 0
      [] place = "sends"      -> SendsInBounds
      [] place = "amendments" -> AmendmentsInBounds
      [] place = "codes"      -> CodesInBounds
      [] place = "roles"      -> RolesInBounds
      [] place = "claims"     -> ClaimsInBounds
      [] place = "incidents"  -> IncidentsInBounds
      [] place = "fan-out"    -> FanOutInBounds
      [] place = "dispatch"   -> DispatchInBounds
      [] place = "office"     -> OfficeInBounds
      [] place = "starts"     -> StartsInBounds
      [] place = "leave"      -> LeaveInBounds
      [] place = "branches"   -> BranchesInBounds
      [] place = "team"       -> TeamInBounds
      [] place = "applying"   -> ApplyingInBounds
      [] place = "shelf"      -> ShelfInBounds
      [] place = "stock"      -> StockInBounds
      [] place = "book"       -> UpTo(3, x1)
      [] place = "timeline"   -> TimelineInBounds
      [] place = "log"        -> LogInBounds
      [] place = "row"        -> RowInBounds
      [] place = "rows"       -> RowsInBounds
      [] OTHER                -> TRUE

(* A request at two rows takes each once. *)
TakesOnce ==
    \A p \in Requests, r \in UnitRows :
        LET had == x4[p][r] IN LET has == x4'[p][r] IN
            had.version > 0 /\ has.version > 0 =>
                has.read = had.read /\ (had.shared => has.shared) /\ had.made \subseteq has.made

MCInit == place \in Places /\ DesksInit /\ InBounds

MCNext == DesksNext /\ (place = "rows" => TakesOnce) /\ InBounds'

MCSpec == MCInit /\ [][MCNext]_<<place, vars, desks>>
=============================================================================
