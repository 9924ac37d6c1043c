--------------------------- MODULE TimelineConsumer ---------------------------
(***************************************************************************)
(* The consumers that keep what the legacy bridge observed: tracking a     *)
(* timeline, audit a log, both with the same coordinator and store.  The   *)
(* store gathers rows in dictionaries.  Only those are asked whether an    *)
(* event is a duplicate, and begin() replaces them and the session,        *)
(* whichever handler of the worker was using them.  commit() takes the     *)
(* session that is open, merges one dictionary into it, then the other,    *)
(* as they then are, and clears what is open when it is done: with several *)
(* handlers at work (four, by default) an entry may be missing.            *)
(*                                                                         *)
(* Abstractions.  One consumer of one worker.  An event is malformed or    *)
(* observes a source row.  Postgres is its unique keys, looked at when a   *)
(* session commits.  Each loop of commit() is one step; a row added to the *)
(* dictionary in the middle of one, at which Python raises, is not shown.  *)
(* No lease of a row that is not committed runs out, so none is reclaimed. *)
(* The answers gathered for the broker may be lost, as the process may     *)
(* die, whenever it pleases; MaxDeliver bounds both.                       *)
(***************************************************************************)
EXTENDS Naturals

CONSTANTS
    Events,
    SourceOf,   \* the source row each event observed, None if it is malformed
    Handlers,   \* threads of the worker (handler_concurrency)
    None,
    MaxDeliver  \* the broker's max_deliver

VARIABLES
    msg,        \* per event: "ready", "out" or "acked"
    deliveries, \* per event: how often it was delivered
    record,     \* per event: status of its inbox row, or None
    timeline,   \* events whose entry is in the table
    store,      \* the open session and its dictionaries: statuses and entries, or None
    merged,     \* per session: rows merged and not committed; None if it must be rolled back
    handler     \* per handler: its event, step, answer and the session it commits, or None

broker   == <<msg, deliveries>>
database == <<record, timeline>>
vars     == <<broker, database, store, merged, handler>>

-----------------------------------------------------------------------------
Malformed(e) == SourceOf[e] = None

(* There is a session for each handler at most. *)
StoreSessions == Handlers

Nothing == [inbox |-> [e \in Events |-> None], entries |-> {}]

Opened(s) == [session |-> s, inbox |-> Nothing.inbox, entries |-> Nothing.entries]

Init ==
    /\ msg = [e \in Events |-> "ready"]
    /\ deliveries = [e \in Events |-> 0]
    /\ record = [e \in Events |-> None]
    /\ timeline = {}
    /\ store = None
    /\ merged = [s \in StoreSessions |-> Nothing]
    /\ handler = [h \in Handlers |-> None]

At(h, step) == handler[h] # None /\ handler[h].step = step

Goto(h, step) == handler' = [handler EXCEPT ![h].step = step]

Answer(h, action) ==
    handler' = [handler EXCEPT ![h].step = "answer", ![h].answer = action, ![h].session = None]

Unused(s) == \A h \in Handlers : handler[h] # None => handler[h].session # s

(* Mutated form of Unhandled: the worker acknowledges what failed. *)
MutUnhandled(h) == Answer(h, "ACK") /\ UNCHANGED store

\* An exception that the coordinator does not know: the worker NAKs, and the
\* store stays as it is.
Unhandled(h) == Answer(h, "NAK") /\ UNCHANGED store

Rollback ==
    /\ store' = None
    /\ merged' = [merged EXCEPT ![store.session] = Nothing]

-----------------------------------------------------------------------------
Fetch(h, e) ==
    /\ handler[h] = None
    /\ msg[e] = "ready" /\ deliveries[e] < MaxDeliver
    /\ msg' = [msg EXCEPT ![e] = "out"]
    /\ deliveries' = [deliveries EXCEPT ![e] = @ + 1]
    /\ handler' = [handler EXCEPT ![h] = [event |-> e, step |-> "begin",
                                        answer |-> None, session |-> None]]
    /\ UNCHANGED <<database, store, merged>>

Begin(h) ==
    /\ At(h, "begin")
    /\ \E s \in StoreSessions :
          /\ Unused(s)
          /\ store' = Opened(s)
          /\ merged' = [merged EXCEPT ![s] = Nothing]
    /\ Goto(h, "insert")
    /\ UNCHANGED <<broker, database>>

\* try_insert_received found nothing; _quarantine_permanent marks at once.
InsertReceived(h) ==
    /\ At(h, "insert") /\ store # None
    /\ LET e == handler[h].event
       IN  /\ store.inbox[e] = None
           /\ store' = [store EXCEPT !.inbox[e] =
                           IF Malformed(e) THEN "QUARANTINED" ELSE "PROCESSING"]
           /\ Goto(h, IF Malformed(e) THEN "commit" ELSE "project")
    /\ UNCHANGED <<broker, database, merged>>

\* It found the row of another handler with the same event.
Duplicate(h) ==
    /\ At(h, "insert") /\ store # None
    /\ LET e == handler[h].event
       IN  /\ store.inbox[e] # None
           /\ IF Malformed(e) THEN Goto(h, "commit") /\ UNCHANGED <<store, merged>>
              ELSE Rollback /\ Answer(h, IF store.inbox[e] = "PROCESSING" THEN "NAK" ELSE "ACK")
    /\ UNCHANGED <<broker, database>>

\* insert_if_absent
Project(h) ==
    /\ At(h, "project") /\ store # None
    /\ store' = [store EXCEPT !.entries = @ \cup {handler[h].event}]
    /\ Goto(h, "mark")
    /\ UNCHANGED <<broker, database, merged>>

\* A row that is not in the dictionary is a KeyError.
MarkProcessed(h) ==
    /\ At(h, "mark") /\ store # None
    /\ LET e == handler[h].event
       IN  IF store.inbox[e] = None THEN Unhandled(h)
           ELSE store' = [store EXCEPT !.inbox[e] = "PROCESSED"] /\ Goto(h, "commit")
    /\ UNCHANGED <<broker, database, merged>>

(* The first loop of commit(), which remembers the session. *)
MergeRecords(h) ==
    /\ At(h, "commit") /\ store # None
    /\ LET s == store.session
       IN  IF merged[s] = None THEN Unhandled(h) /\ UNCHANGED merged
           ELSE /\ merged' = [merged EXCEPT ![s].inbox = store.inbox]
                /\ handler' = [handler EXCEPT ![h].step = "entries", ![h].session = s]
                /\ UNCHANGED store
    /\ UNCHANGED <<broker, database>>

(* The second, of the entries that are staged by now, whoever staged them. *)
MergeEntries(h) ==
    /\ At(h, "entries") /\ store # None
    /\ LET s == handler[h].session
       IN  IF merged[s] = None THEN Unhandled(h) /\ UNCHANGED merged
           ELSE /\ merged' = [merged EXCEPT ![s].entries = @ \cup store.entries]
                /\ Goto(h, "flush")
                /\ UNCHANGED store
    /\ UNCHANGED <<broker, database>>

(* Mutated form of KeysHold: an event may be recorded any number of times. *)
MutKeysHold(rows) ==
    \A e \in rows.entries, f \in timeline \cup rows.entries :
        SourceOf[e] = SourceOf[f] => e = f

\* uq_tracking_inbox_consumer_event, for a merged row is a new one, and
\* uq_shipment_timeline_source_row; an entry that is there is updated.
KeysHold(rows) ==
    /\ \A e \in Events : rows.inbox[e] # None => record[e] = None
    /\ \A e \in rows.entries, f \in timeline \cup rows.entries :
          SourceOf[e] = SourceOf[f] => e = f

(* session.commit(): a session that fails refuses until it is rolled back;  *)
(* one that does not leaves nothing open, whatever that is by now.          *)
Commit(h) ==
    /\ At(h, "flush")
    /\ LET s    == handler[h].session
           rows == merged[s]
       IN  IF rows # None /\ KeysHold(rows)
           THEN /\ record' = [e \in Events |->
                                 IF rows.inbox[e] = None THEN record[e] ELSE rows.inbox[e]]
                /\ timeline' = timeline \cup rows.entries
                /\ merged' = [merged EXCEPT ![s] = Nothing]
                /\ store' = None
                /\ Answer(h, "ACK")
           ELSE /\ merged' = [merged EXCEPT ![s] = None]
                /\ Unhandled(h)
                /\ UNCHANGED database
    /\ UNCHANGED broker

\* Another handler committed or rolled back: RuntimeError, or AttributeError
\* in the middle of commit().
StoreGone(h) ==
    /\ handler[h] # None
    /\ handler[h].step \in {"insert", "project", "mark", "commit", "entries"}
    /\ store = None
    /\ Unhandled(h)
    /\ UNCHANGED <<broker, database, merged>>

-----------------------------------------------------------------------------
\* Deferring is a NAK with a delay.
Respond(h, lost) ==
    /\ At(h, "answer")
    /\ LET e == handler[h].event
       IN  msg' = IF lost \/ msg[e] = "acked" THEN msg
                  ELSE [msg EXCEPT ![e] = IF handler[h].answer = "ACK" THEN "acked" ELSE "ready"]
    /\ handler' = [handler EXCEPT ![h] = None]
    /\ UNCHANGED <<deliveries, database, store, merged>>

\* ack_wait passes, though a handler may still be at work.
Redeliver(e) ==
    /\ msg[e] = "out"
    /\ msg' = [msg EXCEPT ![e] = "ready"]
    /\ UNCHANGED <<deliveries, database, store, merged, handler>>

\* The process dies.
Die ==
    /\ \E h \in Handlers : handler[h] # None
    /\ store' = None
    /\ merged' = [s \in StoreSessions |-> Nothing]
    /\ handler' = [h \in Handlers |-> None]
    /\ UNCHANGED <<broker, database>>

Next ==
    \/ \E h \in Handlers :
          \/ \E e \in Events : Fetch(h, e)
          \/ Begin(h) \/ InsertReceived(h) \/ Duplicate(h) \/ Project(h)
          \/ MarkProcessed(h) \/ MergeRecords(h) \/ MergeEntries(h) \/ Commit(h) \/ StoreGone(h)
          \/ \E lost \in BOOLEAN : Respond(h, lost)
    \/ \E e \in Events : Redeliver(e)
    \/ Die

Spec == Init /\ [][Next]_vars

-----------------------------------------------------------------------------
(* Properties *)

Statuses == {"PROCESSING", "PROCESSED", "QUARANTINED"}

Steps == {"begin", "insert", "project", "mark", "commit", "entries", "flush", "answer"}

Rows == [inbox: [Events -> Statuses \cup {None}], entries: SUBSET Events]

(* Between begin() and the end of commit() or rollback(). *)
InTransaction(h) == handler[h] # None /\ handler[h].step \notin {"begin", "answer"}

\* Every variable keeps the shape of its table.
TypeOK ==
    /\ msg \in [Events -> {"ready", "out", "acked"}]
    /\ deliveries \in [Events -> 0 .. MaxDeliver]
    /\ record \in [Events -> Statuses \cup {None}]
    /\ timeline \subseteq Events
    /\ store # None => /\ store.session \in StoreSessions
                       /\ store.inbox \in [Events -> Statuses \cup {None}]
                       /\ store.entries \subseteq Events
    /\ merged \in [StoreSessions -> Rows \cup {None}]
    /\ \A h \in Handlers : handler[h] # None =>
          /\ handler[h].event \in Events
          /\ handler[h].step \in Steps
          /\ handler[h].answer \in {None, "ACK", "NAK"}
          /\ handler[h].step \in {"entries", "flush"} <=> handler[h].session # None

\* As long as no transactions of two handlers overlap, however often an event is
\* delivered and wherever the process dies: it is on the timeline when its record
\* says so and not otherwise, its source row is there once, and what the broker
\* forgets has been recorded.
TimelineTellsTheRecord ==
    /\ \A e \in Events : e \in timeline <=> record[e] = "PROCESSED"
    /\ \A e \in Events : Malformed(e) => record[e] \in {None, "QUARANTINED"}
    /\ \A e, f \in timeline : SourceOf[e] = SourceOf[f] => e = f
    /\ \A e \in Events : msg[e] = "acked" => record[e] # None

\* When they do overlap, and share the dictionaries: no record is rewritten and
\* no entry is lost, whoever commits what another staged.
RecordsStay ==
    /\ \A e \in Events : record[e] # None => record'[e] = record[e]
    /\ timeline \subseteq timeline'

RecordsAreNotRewritten == [][RecordsStay]_vars

\* An event that was recorded and is delivered again is acknowledged, as the
\* tests of the coordinator say: it is not handed out until the broker gives up.
RedeliveriesAreAcked ==
    \A h \in Handlers :
        At(h, "answer") /\ record[handler[h].event] # None => handler[h].answer = "ACK"
=============================================================================
