---------------------------- MODULE MerchantOffice ----------------------------
(***************************************************************************)
(* How a customer becomes a merchant, the branches a merchant sends from,  *)
(* and the team that works in them.  Approving an application makes the    *)
(* merchant; one branch at a time is where couriers collect by default;    *)
(* every change of the team advances the merchant's version, under which   *)
(* it is announced.                                                        *)
(*                                                                         *)
(* Abstractions.  One applicant and one merchant: requests never look at   *)
(* two.  A member works in one branch.  What an applicant or a branch says *)
(* is left out, and so is standing policy, whose requests touch one row    *)
(* each; label stock and catalogue are in MerchantShelf.  A request that   *)
(* looks only at the row it changes is one step, for it writes under the   *)
(* version it read.                                                        *)
(***************************************************************************)
EXTENDS Naturals, FiniteSets

CONSTANTS
    Applications, \* numbered in the order they are made, like the next two
    Stores,
    Members,
    Phones,       \* numbers that are invited
    Requests,     \* requests in flight
    None,
    MaxVersion    \* bound on the versions of a row

VARIABLES
    application,  \* the row of each application, or None
    merchants,    \* applications that made a merchant
    store,        \* the row of each branch, or None
    member,       \* the row of each membership, or None
    merchant,     \* the version of the merchant
    facts,        \* the outbox
    request       \* of each request: what it read, or None

applying == <<application, merchants>>
team     == <<member, merchant>>
vars     == <<applying, store, team, facts, request>>

-----------------------------------------------------------------------------
Status == {"DRAFT", "SUBMITTED", "CHANGES_REQUESTED", "APPROVED", "WITHDRAWN"}

ApplicationRow == [status: Status, version: 1 .. MaxVersion]

StoreRow == [default: BOOLEAN, archived: BOOLEAN, version: 1 .. MaxVersion]

MemberRow == [phone: Phones, store: Stores,
              status: {"PENDING", "ACTIVE", "DECLINED", "REMOVED"}]

\* APPLICATION_TRANSITIONS
OnwardOf(status) ==
    CASE status = "DRAFT"             -> {"SUBMITTED", "WITHDRAWN"}
      [] status = "SUBMITTED"         -> {"APPROVED", "CHANGES_REQUESTED", "WITHDRAWN"}
      [] status = "CHANGES_REQUESTED" -> {"SUBMITTED", "WITHDRAWN"}
      [] OTHER                        -> {}

IsNext(table, i) == table[i] = None /\ \A j \in DOMAIN table : j < i => table[j] # None

OpenApplications ==
    {a \in Applications : application[a] # None /\ OnwardOf(application[a].status) # {}}

Active(rows)   == {s \in DOMAIN rows : rows[s] # None /\ ~rows[s].archived}
Defaults(rows) == {s \in Active(rows) : rows[s].default}

LiveMembers(phone) ==
    {i \in Members : member[i] # None /\ member[i].phone = phone
                         /\ member[i].status \in {"PENDING", "ACTIVE"}}

Init ==
    /\ application = [a \in Applications |-> None] /\ merchants = {}
    /\ store = [s \in Stores |-> None]
    /\ member = [i \in Members |-> None] /\ merchant = 1
    /\ facts = {}
    /\ request = [r \in Requests |-> None]

-----------------------------------------------------------------------------
(* Applications *)

\* uq_merchant_application_one_open_per_applicant
StartApplication(a) ==
    /\ IsNext(application, a) /\ OpenApplications = {}
    /\ application' = [application EXCEPT ![a] = [status |-> "DRAFT", version |-> 1]]
    /\ UNCHANGED <<merchants, store, team, facts, request>>

Decided(a, status) == [kind |-> "APPLICATION", about |-> a, status |-> status, store |-> None,
                       version |-> application[a].version + 1]

\* A decision is announced; what the applicant does is not.
Transition(a, status) ==
    /\ application[a] # None /\ status \in OnwardOf(application[a].status)
    /\ application[a].version < MaxVersion
    /\ application' = [application EXCEPT ![a].status = status, ![a].version = @ + 1]
    /\ facts' = IF status \in {"APPROVED", "CHANGES_REQUESTED"}
                THEN facts \cup {Decided(a, status)} ELSE facts
    /\ merchants' = IF status = "APPROVED" THEN merchants \cup {a} ELSE merchants
    /\ UNCHANGED <<store, team, request>>

-----------------------------------------------------------------------------
(* Requests that read before they write *)

Is(r, kind) == request[r] # None /\ request[r].kind = kind

Reads(r, row) ==
    /\ request[r] = None
    /\ request' = [request EXCEPT ![r] = row]
    /\ UNCHANGED <<applying, store, team, facts>>

Over(r) == request' = [request EXCEPT ![r] = None]

\* Refused, or it found a row changed, or its process died.
GiveUp(r) ==
    /\ request[r] # None /\ Over(r)
    /\ UNCHANGED <<applying, store, team, facts>>

-----------------------------------------------------------------------------
(* Branches *)

BeginStores(r) == Reads(r, [kind |-> "stores", rows |-> store])

Version(row) == IF row = None THEN 0 ELSE row.version

(* Mutated form of Conflicts: updates do not name the versions they read. *)
MutConflicts(s, old) == old = None /\ store[s] # None

Conflicts(s, old) == Version(store[s]) # Version(old)

\* The rows that differ from what was read are written, each under its version.
\* uq_merchant_store_one_default_pickup
WriteStores(r, rows) ==
    LET old == request[r].rows
        new == [s \in Stores |-> IF rows[s] = old[s] THEN store[s]
                                 ELSE [rows[s] EXCEPT !.version = Version(old[s]) + 1]]
    IN  /\ \A s \in Stores : rows[s] # old[s] =>
              ~Conflicts(s, old[s]) /\ Version(old[s]) < MaxVersion
        /\ Cardinality(Defaults(new)) <= 1
        /\ store' = new
        /\ Over(r)
        /\ UNCHANGED <<applying, team, facts>>

Demote(rows) == [s \in DOMAIN rows |->
    IF s \in Defaults(rows) THEN [rows[s] EXCEPT !.default = FALSE] ELSE rows[s]]

\* The first branch is the default, and so is one made to be.
CreateStore(r, s, asked) ==
    /\ Is(r, "stores") /\ IsNext(store, s) /\ request[r].rows[s] = None
    /\ LET rows      == request[r].rows
           isDefault == asked \/ Active(rows) = {}
           row       == [default |-> isDefault, archived |-> FALSE, version |-> 1]
       IN  WriteStores(r, [(IF isDefault THEN Demote(rows) ELSE rows) EXCEPT ![s] = row])

SetDefaultPickup(r, s) ==
    /\ Is(r, "stores")
    /\ LET rows == request[r].rows
       IN  /\ s \in Active(rows) \ Defaults(rows)
           /\ WriteStores(r, [Demote(rows) EXCEPT ![s].default = TRUE])

\* Archiving the default branch promotes another.
ArchiveStore(r, s, promoted) ==
    /\ Is(r, "stores")
    /\ LET rows == request[r].rows
           gone == [rows EXCEPT ![s].archived = TRUE, ![s].default = FALSE]
       IN  /\ {s, promoted} \subseteq Active(rows) /\ s # promoted
           /\ WriteStores(r, IF rows[s].default THEN [gone EXCEPT ![promoted].default = TRUE]
                                                ELSE gone)

\* update_store, and choosing the default branch once more.
UpdateStore(s) ==
    /\ s \in Active(store) /\ store[s].version < MaxVersion
    /\ store' = [store EXCEPT ![s].version = @ + 1]
    /\ UNCHANGED <<applying, team, facts, request>>

-----------------------------------------------------------------------------
(* The team *)

\* The branch it names is looked at when the request reads, not again.
BeginTeam(r, s) ==
    /\ s # None => s \in Active(store)
    /\ Reads(r, [kind |-> "team", version |-> merchant, store |-> s])

(* Mutated form of Announce: the fact bears the version that was read. *)
MutAnnounce(r, i, row) ==
    /\ merchant' = merchant + 1
    /\ facts' = facts \cup {[kind |-> "TEAM", about |-> i, status |-> row.status,
                             store |-> row.store, version |-> merchant]}

Announce(r, i, row) ==
    /\ merchant' = merchant + 1
    /\ facts' = facts \cup {[kind |-> "TEAM", about |-> i, status |-> row.status,
                             store |-> row.store, version |-> merchant + 1]}

\* The membership is written with the merchant, whose version settles races.
WriteMember(r, i, row) ==
    /\ request[r].version = merchant /\ merchant < MaxVersion
    /\ member' = [member EXCEPT ![i] = row]
    /\ Announce(r, i, row)
    /\ Over(r)
    /\ UNCHANGED <<applying, store>>

\* uq_merchant_team_live_membership
Invite(r, i, phone) ==
    /\ Is(r, "team") /\ request[r].store # None
    /\ IsNext(member, i) /\ LiveMembers(phone) = {}
    /\ WriteMember(r, i, [phone |-> phone, store |-> request[r].store, status |-> "PENDING"])

\* Whatever the status of the membership.
UpdateBranches(r, i) ==
    /\ Is(r, "team") /\ request[r].store # None /\ member[i] # None
    /\ WriteMember(r, i, [member[i] EXCEPT !.store = request[r].store])

Respond(r, i, status) ==
    /\ Is(r, "team") /\ member[i] # None /\ member[i].status = "PENDING"
    /\ WriteMember(r, i, [member[i] EXCEPT !.status = status])

Remove(r, i) ==
    /\ Is(r, "team") /\ member[i] # None
    /\ WriteMember(r, i, [member[i] EXCEPT !.status = "REMOVED"])

-----------------------------------------------------------------------------
Next ==
    \/ \E a \in Applications :
          StartApplication(a) \/ \E status \in Status : Transition(a, status)
    \/ \E s \in Stores : UpdateStore(s)
    \/ \E r \in Requests :
          \/ GiveUp(r) \/ BeginStores(r)
          \/ \E s \in Stores, asked \in BOOLEAN : CreateStore(r, s, asked)
          \/ \E s \in Stores : SetDefaultPickup(r, s)
          \/ \E s, promoted \in Stores : ArchiveStore(r, s, promoted)
          \/ \E s \in Stores \cup {None} : BeginTeam(r, s)
          \/ \E i \in Members :
                \/ \E phone \in Phones : Invite(r, i, phone)
                \/ \E status \in {"ACTIVE", "DECLINED"} : Respond(r, i, status)
                \/ UpdateBranches(r, i) \/ Remove(r, i)

Spec == Init /\ [][Next]_vars

-----------------------------------------------------------------------------
(* Properties *)

\* Every variable keeps the shape of its table.
TypeOK ==
    /\ application \in [Applications -> ApplicationRow \cup {None}]
    /\ merchants \subseteq Applications
    /\ store \in [Stores -> StoreRow \cup {None}]
    /\ member \in [Members -> MemberRow \cup {None}]
    /\ merchant \in 1 .. MaxVersion
    /\ \A f \in facts : f.kind \in {"APPLICATION", "TEAM"} /\ f.version \in 1 .. MaxVersion
    /\ \A r \in Requests : request[r] # None => request[r].kind \in {"stores", "team"}

Latest(told) == {f \in told : \A g \in told : g.version <= f.version}

\* However many make, archive and choose branches at once, a merchant with open
\* branches has exactly one where couriers collect by default.  The team's facts
\* come in the order in which the team changed, one to a version, the last of
\* a member telling the member's row; and a number is on the team once.
OfficeIsInOrder ==
    /\ Active(store) # {} => Cardinality(Defaults(store)) = 1
    /\ LET team_facts == {f \in facts : f.kind = "TEAM"}
       IN  /\ {f.version : f \in team_facts} = 2 .. merchant
           /\ Cardinality(team_facts) = merchant - 1
           /\ \A i \in Members :
                 LET told == {f \in team_facts : f.about = i}
                 IN  IF member[i] = None THEN told = {}
                     ELSE {<<f.status, f.store>> : f \in Latest(told)}
                              = {<<member[i].status, member[i].store>>}
    /\ \A phone \in Phones : Cardinality(LiveMembers(phone)) <= 1
    /\ merchants = {a \in Applications : application[a] # None
                                            /\ application[a].status = "APPROVED"}
    /\ Cardinality(OpenApplications) <= 1
=============================================================================
