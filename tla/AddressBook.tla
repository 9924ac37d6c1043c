----------------------------- MODULE AddressBook -----------------------------
(***************************************************************************)
(* A customer's addresses of one kind, of which one is where couriers go   *)
(* by default.  A request reads the book and stages the rows it changes;   *)
(* the commit writes them one statement after another, each under the      *)
(* version that was read, and PostgreSQL holds every statement against the *)
(* unique index on live defaults, not the commit.                          *)
(*                                                                         *)
(* Abstractions.  Kinds and customers never meet.  What an address says is *)
(* left out, and so are profiles, contacts and accepted documents, whose   *)
(* requests touch one row each.  A request reads the book at once.         *)
(***************************************************************************)
EXTENDS Naturals, Sequences, FiniteSets

CONSTANTS
    Addresses,  \* numbered in the order they are made
    Requests,   \* requests in flight
    None,
    MaxVersion  \* bound on the versions of a row

VARIABLES
    address,    \* the row of each address, or None
    request     \* of each request: the book it read, or None

vars == <<address, request>>

-----------------------------------------------------------------------------
AddressRow == [default: BOOLEAN, archived: BOOLEAN, version: 1 .. MaxVersion]

Active(rows)   == {a \in Addresses : rows[a] # None /\ ~rows[a].archived}
Defaults(rows) == {a \in Active(rows) : rows[a].default}

Init ==
    /\ address = [a \in Addresses |-> None]
    /\ request = [r \in Requests |-> None]

Begin(r) ==
    /\ request[r] = None
    /\ request' = [request EXCEPT ![r] = address]
    /\ UNCHANGED address

Over(r) == request' = [request EXCEPT ![r] = None]

\* Refused, or it found a row changed, or its process died.
GiveUp(r) ==
    /\ request[r] # None /\ Over(r)
    /\ UNCHANGED address

-----------------------------------------------------------------------------
(* The commit: a sequence of statements, each of which writes one row. *)

Version(row) == IF row = None THEN 0 ELSE row.version

Write(a, row) == [at |-> a, row |-> [row EXCEPT !.version = @ + 1]]

\* The book after the first n statements, each of which has a row of its own.
After(statements, n) ==
    [a \in Addresses |->
        IF \E i \in 1 .. n : statements[i].at = a
        THEN statements[CHOOSE i \in 1 .. n : statements[i].at = a].row
        ELSE address[a]]

(* Mutated form of IndexHolds: nothing keeps a second default out. *)
MutIndexHolds(rows) == TRUE

\* uq_customer_addresses_one_default
IndexHolds(rows) == Cardinality(Defaults(rows)) <= 1

Commit(r, statements) ==
    /\ \A i \in DOMAIN statements :
          LET a == statements[i].at
          IN  /\ Version(address[a]) = Version(request[r][a])
              /\ Version(address[a]) < MaxVersion
    /\ \A n \in 0 .. Len(statements) : IndexHolds(After(statements, n))
    /\ address' = After(statements, Len(statements))
    /\ Over(r)

-----------------------------------------------------------------------------
(* Requests *)

Demoted(r, a) == Write(a, [request[r][a] EXCEPT !.default = FALSE])
Promoted(r, a) == Write(a, [request[r][a] EXCEPT !.default = TRUE])

\* The default it takes over from, if there is one, is written first.
Demotion(r, write) ==
    IF Defaults(request[r]) = {} THEN <<write>>
    ELSE <<Demoted(r, CHOOSE a \in Defaults(request[r]) : TRUE), write>>

\* The first address is the default, asked for or not.
CreateAddress(r, a, asked) ==
    /\ request[r] # None
    /\ address[a] = None /\ \A b \in Addresses : b < a => address[b] # None
    /\ request[r][a] = None
    /\ LET isDefault == asked \/ Defaults(request[r]) = {}
           new == [at |-> a, row |-> [default |-> isDefault, archived |-> FALSE, version |-> 1]]
       IN  Commit(r, IF isDefault THEN Demotion(r, new) ELSE <<new>>)

SetDefault(r, a) ==
    /\ request[r] # None
    /\ a \in Active(request[r]) \ Defaults(request[r])
    /\ Commit(r, Demotion(r, Promoted(r, a)))

\* The address that takes over is staged before the one that is archived, so the
\* index refuses the first statement of an archived default.
ArchiveAddress(r, a, replacement) ==
    /\ request[r] # None /\ a \in Active(request[r])
    /\ LET row == request[r][a]
           archived == Write(a, [row EXCEPT !.default = FALSE, !.archived = TRUE])
       IN  IF row.default
           THEN /\ replacement \in Active(request[r]) \ {a}
                /\ Commit(r, <<Promoted(r, replacement), archived>>)
           ELSE replacement = a /\ Commit(r, <<archived>>)

\* It never steals the default from whatever took over.
RestoreAddress(r, a) ==
    /\ request[r] # None
    /\ request[r][a] # None /\ request[r][a].archived
    /\ Commit(r, <<Write(a, [request[r][a] EXCEPT !.archived = FALSE,
                                                  !.default = Defaults(request[r]) = {}])>>)

-----------------------------------------------------------------------------
Next ==
    \E r \in Requests :
        \/ Begin(r) \/ GiveUp(r)
        \/ \E a \in Addresses :
              \/ \E asked \in BOOLEAN : CreateAddress(r, a, asked)
              \/ \E replacement \in Addresses : ArchiveAddress(r, a, replacement)
              \/ SetDefault(r, a) \/ RestoreAddress(r, a)

Spec == Init /\ [][Next]_vars

-----------------------------------------------------------------------------
(* Properties *)

\* Every variable keeps the shape of its table.
TypeOK ==
    /\ address \in [Addresses -> AddressRow \cup {None}]
    /\ \A r \in Requests : request[r] = None \/ request[r] \in [Addresses -> AddressRow \cup {None}]

\* However many make, choose, archive and restore addresses at once, a customer
\* with addresses has one default, so no courier is sent to a doubtful place.
OneDefault == Active(address) # {} => Cardinality(Defaults(address)) = 1
=============================================================================
