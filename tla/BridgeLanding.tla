---------------------------- MODULE BridgeLanding ----------------------------
(***************************************************************************)
(* How the bridge takes changes of the legacy database in: a tick polls a  *)
(* batch from the replication slot, lands it and its checkpoint in one     *)
(* transaction, lets the slot go on only then, and maps what is pending,   *)
(* one transaction to a row, into the outbox.  The lock under which rows   *)
(* are listed for mapping ends with the session that listed them, so two   *)
(* mappers may hold the same row.                                          *)
(*                                                                         *)
(* Abstractions.  One slot; a position is a change, and a change is a new  *)
(* row.  The slot streams on from what it sent until the connection is     *)
(* lost, then again from what it was told.  The outbox is read by a relay  *)
(* of the shape of OutboxRelay; here it is the set of its rows.            *)
(***************************************************************************)
EXTENDS Naturals

CONSTANTS
    LastChange, \* changes are 1 .. LastChange
    Allowed,    \* changes of tables that are allow-listed
    Unmappable, \* changes that no mapping succeeds for
    Mappers,    \* mapping services at work
    None,
    MaxAttempts, \* mapping_max_attempts
    MaxErrors   \* bound on database errors while mapping

VARIABLES
    slot,       \* the source forgot the changes up to here
    streamed,   \* the connection delivered the changes up to here
    landing,    \* the landed row of each change, or None
    checkpoint, \* last position landed, eligible for feedback, and fed back
    tick,       \* of the poller: the batch, and the positions to feed back
    outbox,     \* changes whose observation is in the outbox
    mapping,    \* of each mapper: the row it works on, or None
    errors

source == <<slot, streamed>>
vars   == <<source, landing, checkpoint, tick, outbox, mapping, errors>>

-----------------------------------------------------------------------------
Changes   == 1 .. LastChange
Positions == 0 .. LastChange

LandingRow == [state: {"PENDING", "MAPPED", "QUARANTINED"}, attempts: Nat]

NewRow == [state |-> "PENDING", attempts |-> 0]

Idle == [phase |-> "idle", batch |-> {}]

Init ==
    /\ slot = 0 /\ streamed = 0
    /\ landing = [c \in Changes |-> None]
    /\ checkpoint = [landed |-> 0, eligible |-> 0, advanced |-> 0]
    /\ tick = Idle
    /\ outbox = {}
    /\ mapping = [m \in Mappers |-> None]
    /\ errors = 0

-----------------------------------------------------------------------------
(* The tick *)

\* poll_batch
Poll(last) ==
    /\ tick.phase = "idle" /\ last > streamed
    /\ tick' = [phase |-> "polled", batch |-> (streamed + 1) .. last]
    /\ streamed' = last
    /\ UNCHANGED <<slot, landing, checkpoint, outbox, mapping, errors>>

(* Mutated form of InsertLanding: a change that landed before lands anew. *)
MutInsertLanding(batch) == [c \in Changes |-> IF c \in batch THEN NewRow ELSE landing[c]]

\* on_conflict_do_nothing
InsertLanding(batch) ==
    [c \in Changes |-> IF c \in batch /\ landing[c] = None THEN NewRow ELSE landing[c]]

\* What is not allow-listed is passed over, and its position with it.
LandBatch ==
    /\ tick.phase = "polled"
    /\ LET batch == tick.batch \cap Allowed
       IN  /\ landing' = InsertLanding(batch)
           /\ \/ batch = {} /\ tick' = Idle /\ UNCHANGED checkpoint
              \/ \E last \in batch :
                    /\ \A c \in batch : c <= last
                    /\ checkpoint' = [checkpoint EXCEPT !.landed = last]
                    /\ tick' = [phase |-> "feedback", batch |-> batch]
    /\ UNCHANGED <<source, outbox, mapping, errors>>

IsNextPosition(c) == c \in tick.batch /\ \A d \in tick.batch : c <= d

MarkFeedbackEligible(c) ==
    /\ tick.phase = "feedback" /\ IsNextPosition(c)
    /\ checkpoint' = [checkpoint EXCEPT !.eligible = c]
    /\ tick' = [tick EXCEPT !.phase = "eligible"]
    /\ UNCHANGED <<source, landing, outbox, mapping, errors>>

Onward(c) ==
    IF tick.batch = {c} THEN Idle ELSE [phase |-> "feedback", batch |-> tick.batch \ {c}]

\* The source is told, or cannot be; in either case the next one follows.
SendFeedback(c, told) ==
    /\ tick.phase = "eligible" /\ IsNextPosition(c)
    /\ slot' = IF told THEN c ELSE slot
    /\ tick' = IF told THEN [tick EXCEPT !.phase = "told"] ELSE Onward(c)
    /\ UNCHANGED <<streamed, landing, checkpoint, outbox, mapping, errors>>

MarkExternalSlotAdvanced(c) ==
    /\ tick.phase = "told" /\ IsNextPosition(c)
    /\ checkpoint' = [checkpoint EXCEPT !.advanced = c]
    /\ tick' = Onward(c)
    /\ UNCHANGED <<source, landing, outbox, mapping, errors>>

\* The process dies or the connection does, anywhere in a tick.
Reconnect ==
    /\ tick # Idle \/ streamed > slot
    /\ streamed' = slot
    /\ tick' = Idle
    /\ UNCHANGED <<slot, landing, checkpoint, outbox, mapping, errors>>

-----------------------------------------------------------------------------
(* Mapping *)

\* list_pending_mapping
List(m, c) ==
    /\ mapping[m] = None
    /\ landing[c] # None /\ landing[c].state = "PENDING"
    /\ mapping' = [mapping EXCEPT ![m] = [change |-> c, failed |-> FALSE, attempts |-> 0]]
    /\ UNCHANGED <<source, landing, checkpoint, tick, outbox, errors>>

\* The outbox row, found if another mapper wrote it, and the landed row.
Map(m) ==
    /\ mapping[m] # None /\ ~mapping[m].failed
    /\ LET c == mapping[m].change
       IN  /\ c \notin Unmappable
           /\ outbox' = outbox \cup {c}
           /\ landing' = [landing EXCEPT ![c].state = "MAPPED"]
    /\ mapping' = [mapping EXCEPT ![m] = None]
    /\ UNCHANGED <<source, checkpoint, tick, errors>>

\* No contract maps it, or the database fails; the attempts are read after.
Fail(m) ==
    /\ mapping[m] # None /\ ~mapping[m].failed
    /\ LET c == mapping[m].change
       IN  /\ c \notin Unmappable => errors < MaxErrors
           /\ errors' = IF c \in Unmappable THEN errors ELSE errors + 1
           /\ mapping' = [mapping EXCEPT ![m].failed = TRUE,
                                         ![m].attempts = landing[c].attempts + 1]
    /\ UNCHANGED <<source, landing, checkpoint, tick, outbox>>

(* Mutated form of StateAfter: one failure too early. *)
MutStateAfter(attempts) == IF attempts + 1 >= MaxAttempts THEN "QUARANTINED" ELSE "PENDING"

StateAfter(attempts) == IF attempts >= MaxAttempts THEN "QUARANTINED" ELSE "PENDING"

\* Whatever became of the row meanwhile.
MarkMappingFailed(m) ==
    /\ mapping[m] # None /\ mapping[m].failed
    /\ landing' = [landing EXCEPT ![mapping[m].change] =
          [state |-> StateAfter(mapping[m].attempts), attempts |-> mapping[m].attempts]]
    /\ mapping' = [mapping EXCEPT ![m] = None]
    /\ UNCHANGED <<source, checkpoint, tick, outbox, errors>>

\* The rows that were listed are listed again.
Die(m) ==
    /\ mapping[m] # None
    /\ mapping' = [mapping EXCEPT ![m] = None]
    /\ UNCHANGED <<source, landing, checkpoint, tick, outbox, errors>>

-----------------------------------------------------------------------------
Next ==
    \/ LandBatch \/ Reconnect
    \/ \E c \in Changes :
          \/ Poll(c) \/ MarkFeedbackEligible(c) \/ MarkExternalSlotAdvanced(c)
          \/ \E told \in BOOLEAN : SendFeedback(c, told)
          \/ \E m \in Mappers : List(m, c)
    \/ \E m \in Mappers : Map(m) \/ Fail(m) \/ MarkMappingFailed(m) \/ Die(m)

Spec == Init /\ [][Next]_vars

-----------------------------------------------------------------------------
(* Properties *)

\* Every variable keeps the shape of its table.
TypeOK ==
    /\ slot \in Positions /\ streamed \in Positions
    /\ landing \in [Changes -> LandingRow \cup {None}]
    /\ checkpoint \in [landed: Positions, eligible: Positions, advanced: Positions]
    /\ tick \in [phase: {"idle", "polled", "feedback", "eligible", "told"}, batch: SUBSET Changes]
    /\ outbox \subseteq Changes
    /\ \A m \in Mappers : mapping[m] # None =>
          mapping[m] \in [change: Changes, failed: BOOLEAN, attempts: Nat]
    /\ errors \in 0 .. MaxErrors

\* Whatever is polled again, refused or lost on the way, the source forgets no
\* change that should have landed, and the checkpoint claims no more than the
\* source was told.  A mapped change is in the outbox; one that is in the
\* outbox and not mapped failed in another mapper, which did not see the
\* success; and none is quarantined before its attempts are spent.
NothingIsMissed ==
    /\ \A c \in Allowed : c <= slot => landing[c] # None
    /\ checkpoint.advanced <= slot /\ checkpoint.advanced <= checkpoint.eligible
    /\ \A p \in {checkpoint.landed, checkpoint.eligible} \ {0} : landing[p] # None
    /\ \A c \in Changes : landing[c] # None =>
          /\ landing[c].state = "MAPPED" => c \in outbox
          /\ c \in outbox => landing[c].state = "MAPPED" \/ landing[c].attempts > 0
          /\ landing[c].state = "QUARANTINED" => landing[c].attempts >= MaxAttempts
    /\ outbox \subseteq {c \in Allowed \ Unmappable : landing[c] # None}
=============================================================================
