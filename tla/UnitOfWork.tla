----------------------------- MODULE UnitOfWork ------------------------------
(***************************************************************************)
(* A request of one of the ten newer services against its tables.  It      *)
(* reads copies of rows, changes them, and saves them into a stage of its  *)
(* own; commit writes the stage in one transaction of the database.  No    *)
(* row is locked while the request works: a changed row is written only    *)
(* over the version before its own, and otherwise the request is refused.  *)
(* Which version that is, is inferred when the copy is saved.              *)
(*                                                                         *)
(* Abstractions.  A column is a set of changes; a change is named by the   *)
(* request that made it and a number.  The database is PostgreSQL under    *)
(* READ COMMITTED, modelled from the use made of it: an UPDATE or INSERT   *)
(* that meets a row written by an open transaction waits for it; one that  *)
(* meets another's key or version fails; a COMMIT shows all its rows at    *)
(* once.  The stores differ in their tables only: ServiceTables has them.  *)
(***************************************************************************)
EXTENDS Naturals, Sequences, FiniteSets, ServiceTables

CONSTANTS
    Requests,   \* the requests in flight
    Rows,       \* keys of rows
    Services,   \* the services looked at: names of Store
    Tables,     \* which of their tables: places in the flush
    MaxChanges, \* bound on the changes a request makes to a row
    Rereads     \* whether a request takes a copy of a row again (a bound, if not)

VARIABLES
    table,      \* of each row: kind and lookups of its table, and the rows flushed before
    stored,     \* committed rows: version, 0 if there is none, and changes made to it
    phase,      \* of each request
    hand,       \* the copy of each row a request works on; version 0 if none
    staged,     \* what a request saved of each row; version 0 if nothing
    order,      \* of each request: the rows it saved, in the order of their first save
    written,    \* of each request: rows its open transaction has written
    landed      \* history: changes of each row whose request was told they are saved

vars == <<table, stored, phase, hand, staged, order, written, landed>>

-----------------------------------------------------------------------------
Change == Requests \X (1 .. MaxChanges)

\* after: the rows of tables that are flushed before this one's.
Shape == [kind: {"checked", "healed", "added", "replaced", "merged"},
          own: BOOLEAN, past: BOOLEAN, after: SUBSET Rows]

Row == [version: Nat, made: SUBSET Change]

\* read: the version it was read at; shared: it is the very object in the stage.
Copy == [version: Nat, made: SUBSET Change, read: Nat, shared: BOOLEAN]

\* before: the version the row must have to be replaced, 0 to add it; base:
\* the version it was first read at; saved: the changes saved so far; and
\* whether the save that settled before followed one change, and whether any
\* copy was saved over another.
Stage == [version: Nat, made: SUBSET Change, read: Nat, before: Nat, base: Nat,
          saved: SUBSET Change, once: BOOLEAN, careless: BOOLEAN]

NoCopy == [version |-> 0, made |-> {}, read |-> 0, shared |-> FALSE]

NoStage == [version |-> 0, made |-> {}, read |-> 0, before |-> 0, base |-> 0,
            saved |-> {}, once |-> TRUE, careless |-> FALSE]

TypeOK ==
    /\ table \in [Rows -> Shape]
    /\ stored \in [Rows -> Row]
    /\ phase \in [Requests -> {"open", "writing", "done", "stale", "gone"}]
    /\ hand \in [Requests -> [Rows -> Copy]]
    /\ staged \in [Requests -> [Rows -> Stage]]
    /\ order \in [Requests -> Seq(Rows)]
    /\ written \in [Requests -> SUBSET Rows]
    /\ landed \in [Rows -> SUBSET Change]

\* The rows lie in tables of one service.
Init ==
    /\ \E s \in Services \cap DOMAIN Store : \E at \in [Rows -> Tables \cap DOMAIN Store[s]] :
          table = [r \in Rows |->
              [kind  |-> Store[s][at[r]].kind,
               own   |-> Store[s][at[r]].own # {},
               past  |-> Store[s][at[r]].past # {},
               after |-> {q \in Rows : at[q] < at[r]}]]
    /\ stored \in [Rows -> {[version |-> v, made |-> {}] : v \in {0, 1}}]
    /\ phase = [p \in Requests |-> "open"]
    /\ hand = [p \in Requests |-> [r \in Rows |-> NoCopy]]
    /\ staged = [p \in Requests |-> [r \in Rows |-> NoStage]]
    /\ order = [p \in Requests |-> <<>>]
    /\ written = [p \in Requests |-> {}]
    /\ landed = [r \in Rows |-> {}]

-----------------------------------------------------------------------------
(* The request at work *)

Versioned(r) == table[r].kind \in {"checked", "healed"}

InHand(p) == {r \in Rows : hand[p][r].version > 0}

InStage(p) == {r \in Rows : staged[p][r].version > 0}

FromStore(r) ==
    [version |-> stored[r].version, made |-> stored[r].made,
     read |-> stored[r].version, shared |-> FALSE]

FromStage(p, r) ==
    [version |-> staged[p][r].version, made |-> staged[p][r].made,
     read |-> staged[p][r].read, shared |-> TRUE]

Take(p, r, copy) ==
    /\ phase[p] = "open"
    /\ Rereads \/ r \notin InHand(p)
    /\ hand' = [hand EXCEPT ![p][r] = copy]
    /\ UNCHANGED <<table, stored, phase, staged, order, written, landed>>

\* What it saved itself comes first.
Look(p, r) ==
    /\ table[r].own
    /\ \/ r \in InStage(p) /\ Take(p, r, FromStage(p, r))
       \/ r \notin InStage(p) /\ stored[r].version > 0 /\ Take(p, r, FromStore(r))

\* A search goes to storage, and misses what the request saved.
LookPast(p, r) ==
    /\ table[r].past
    /\ stored[r].version > 0
    /\ Take(p, r, FromStore(r))

\* Found none; or never looked.
Make(p, r) ==
    /\ r \notin InHand(p)
    /\ Take(p, r, [version |-> 1, made |-> {}, read |-> 0, shared |-> FALSE])

\* Changes of p to r, in its hand or its stage.
MadeBy(p, r) == {c \in hand[p][r].made \cup staged[p][r].saved : c[1] = p}

NextVersion(p, r) == hand[p][r].version + (IF Versioned(r) THEN 1 ELSE 0)

HandWith(p, r, c) ==
    [version |-> NextVersion(p, r), made |-> hand[p][r].made \cup {c},
     read |-> hand[p][r].read, shared |-> hand[p][r].shared]

StageWith(p, r, c) ==
    [version |-> NextVersion(p, r), made |-> staged[p][r].made \cup {c},
     read |-> staged[p][r].read, before |-> staged[p][r].before,
     base |-> staged[p][r].base, saved |-> staged[p][r].saved \cup {c},
     once |-> staged[p][r].once, careless |-> staged[p][r].careless]

\* A copy that is in the stage changes there too.
ChangeIt(p, r) ==
    /\ phase[p] = "open" /\ r \in InHand(p)
    /\ \E n \in 1 .. MaxChanges :
          /\ n = Cardinality(MadeBy(p, r)) + 1
          /\ hand' = [hand EXCEPT ![p][r] = HandWith(p, r, <<p, n>>)]
          /\ IF hand[p][r].shared
             THEN staged' = [staged EXCEPT ![p][r] = StageWith(p, r, <<p, n>>)]
             ELSE UNCHANGED staged
    /\ UNCHANGED <<table, stored, phase, order, written, landed>>

\* The version before its own, once it is past the first; kept from then on.
Before(p, r) ==
    IF ~Versioned(r) THEN IF r \in InStage(p) THEN staged[p][r].before ELSE hand[p][r].read
    ELSE IF staged[p][r].before > 0 THEN staged[p][r].before
    ELSE hand[p][r].version - 1

StageOf(p, r) ==
    LET copy  == hand[p][r]
        anew  == r \notin InStage(p)
        base  == IF anew THEN copy.read ELSE staged[p][r].base
    IN  [version  |-> copy.version, made |-> copy.made, read |-> copy.read,
         before   |-> Before(p, r),
         base     |-> base,
         saved    |-> staged[p][r].saved \cup {c \in copy.made : c[1] = p},
         once     |-> IF ~Versioned(r) \/ staged[p][r].before > 0 THEN staged[p][r].once
                      ELSE copy.version = base + 1,
         careless |-> ~anew /\ (staged[p][r].careless \/ ~copy.shared)]

Shared(copy) ==
    [version |-> copy.version, made |-> copy.made, read |-> copy.read, shared |-> TRUE]

Save(p, r) ==
    /\ phase[p] = "open" /\ r \in InHand(p)
    /\ table[r].kind = "added" => hand[p][r].read = 0
    /\ staged' = [staged EXCEPT ![p][r] = StageOf(p, r)]
    /\ order' = IF r \in InStage(p) THEN order ELSE [order EXCEPT ![p] = Append(@, r)]
    /\ hand' = [hand EXCEPT ![p][r] = Shared(hand[p][r])]
    /\ UNCHANGED <<table, stored, phase, written, landed>>

-----------------------------------------------------------------------------
(* The commit *)

Commit(p) ==
    /\ phase[p] = "open"
    /\ phase' = [phase EXCEPT ![p] = "writing"]
    /\ hand' = [hand EXCEPT ![p] = [r \in Rows |-> NoCopy]]
    /\ UNCHANGED <<table, stored, staged, order, written, landed>>

\* Rows to be replaced; a merged one is looked for when all others are.
Replacing(p) ==
    {r \in InStage(p) : /\ table[r].kind \in {"checked", "healed", "replaced"}
                        /\ staged[p][r].before > 0}

OneTable(r, q) == r \notin table[q].after /\ q \notin table[r].after

FirstSaved(p, r, q) ==
    \E i, j \in DOMAIN order[p] : i < j /\ order[p][i] = r /\ order[p][j] = q

Earlier(p, r, q) == r \in table[q].after \/ (OneTable(r, q) /\ FirstSaved(p, r, q))

\* Rows are replaced table by table, in the order they were saved; what is
\* to be added is added when no other row is left, in any order.
IsNext(p, r) ==
    /\ phase[p] = "writing" /\ r \in InStage(p) \ written[p]
    /\ IF r \in Replacing(p)
       THEN \A q \in Replacing(p) \ written[p] : ~Earlier(p, q, r)
       ELSE Replacing(p) \subseteq written[p]

Holds(q, r) == phase[q] = "writing" /\ r \in written[q]

Free(p, r) == \A q \in Requests \ {p} : ~Holds(q, r)

Write(p, r) ==
    /\ written' = [written EXCEPT ![p] = @ \cup {r}]
    /\ UNCHANGED <<table, stored, phase, hand, staged, order, landed>>

Refuse(p) ==
    /\ phase' = [phase EXCEPT ![p] = "stale"]
    /\ UNCHANGED <<table, stored, hand, staged, order, written, landed>>

Fits(p, r) == table[r].kind = "replaced" \/ stored[r].version = staged[p][r].before

\* A row that another has added but not committed is not seen.
ReplaceRow(p, r) ==
    /\ IsNext(p, r) /\ r \in Replacing(p)
    /\ stored[r].version > 0
    /\ Free(p, r)
    /\ IF Fits(p, r) THEN Write(p, r) ELSE Refuse(p)

ToAdd(p, r) ==
    [version |-> staged[p][r].version, made |-> staged[p][r].made,
     read |-> staged[p][r].read, before |-> 0, base |-> staged[p][r].base,
     saved |-> staged[p][r].saved, once |-> staged[p][r].once,
     careless |-> staged[p][r].careless]

\* "previous" cannot tell a row that was loaded and changed from one that was
\* made and changed: where a store heals, a missing row is added after all.
MissRow(p, r) ==
    /\ IsNext(p, r) /\ r \in Replacing(p)
    /\ stored[r].version = 0
    /\ IF table[r].kind = "healed"
       THEN /\ staged' = [staged EXCEPT ![p][r] = ToAdd(p, r)]
            /\ UNCHANGED <<table, stored, phase, hand, order, written, landed>>
       ELSE Refuse(p)

AddRow(p, r) ==
    /\ IsNext(p, r) /\ r \notin Replacing(p)
    /\ Free(p, r)
    /\ IF stored[r].version = 0 \/ table[r].kind = "merged" THEN Write(p, r) ELSE Refuse(p)

Publish(p) ==
    /\ phase[p] = "writing" /\ InStage(p) \subseteq written[p]
    /\ stored' = [r \in Rows |->
          IF r \in InStage(p)
          THEN [version |-> staged[p][r].version, made |-> staged[p][r].made]
          ELSE stored[r]]
    /\ landed' = [r \in Rows |-> landed[r] \cup staged[p][r].saved]
    /\ phase' = [phase EXCEPT ![p] = "done"]
    /\ UNCHANGED <<table, hand, staged, order, written>>

\* The service raised, the process died, or the database broke a deadlock.
RollBack(p) ==
    /\ phase[p] \in {"open", "writing"}
    /\ phase' = [phase EXCEPT ![p] = "gone"]
    /\ hand' = [hand EXCEPT ![p] = [r \in Rows |-> NoCopy]]
    /\ staged' = [staged EXCEPT ![p] = [r \in Rows |-> NoStage]]
    /\ order' = [order EXCEPT ![p] = <<>>]
    /\ written' = [written EXCEPT ![p] = {}]
    /\ UNCHANGED <<table, stored, landed>>

-----------------------------------------------------------------------------
Next ==
    \/ \E p \in Requests, r \in Rows :
          \/ Look(p, r) \/ LookPast(p, r) \/ Make(p, r) \/ ChangeIt(p, r) \/ Save(p, r)
          \/ ReplaceRow(p, r) \/ MissRow(p, r) \/ AddRow(p, r)
    \/ \E p \in Requests : Commit(p) \/ Publish(p) \/ RollBack(p)

Spec == Init /\ [][Next]_vars

-----------------------------------------------------------------------------
(* Properties *)

\* Saved, past its first version, with other than one change; so is one
\* that was made, saved, and then changed and saved again.
Misjudged(p, r) == ~staged[p][r].once

Protected(r) == table[r].kind \notin {"replaced", "merged"}

\* A change that its request was told is saved stays in the row, whoever
\* else changed the row at the same time.  Two habits of a service undo it:
\* where the changes of a copy do not follow its saves, the version inferred
\* for it may be another's; and one copy of a row may be saved over another.
SavedIsKept ==
    \A r \in Rows : Protected(r) =>
        \A c \in landed[r] \ stored[r].made :
            \/ staged[c[1]][r].careless
            \/ \E q \in Requests : phase[q] = "done" /\ Misjudged(q, r)

\* A request is refused only over a row that is not as it first read it, or
\* one whose changes did not follow its saves: to save a row again and again
\* is never the reason.
OnlyForAReason ==
    \A p \in Requests : phase'[p] = "stale" /\ phase[p] # "stale" =>
        \E r \in InStage(p) : Misjudged(p, r) \/ stored[r].version # staged[p][r].base

RefusedForAReason == [][OnlyForAReason]_vars

Waits(p, q, r) == p # q /\ IsNext(p, r) /\ Holds(q, r)

\* Two requests wait for each other only over rows of one table, or where
\* one of them is adding its rows.
WaitsAreInOrder ==
    \A p, q \in Requests : \A r, s \in Rows :
        Waits(p, q, r) /\ Waits(q, p, s) =>
            OneTable(r, s) \/ r \notin Replacing(p) \/ s \notin Replacing(q)
=============================================================================
