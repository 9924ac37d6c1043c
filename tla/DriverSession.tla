----------------------------- MODULE DriverSession -----------------------------
(***************************************************************************)
(* The window in which a driver takes pickup work, and what may keep it    *)
(* open.  Starting a session, and taking work, lock the open session of    *)
(* the driver.  Pausing, resuming and ending read the session without a    *)
(* lock, look at the workload, and then update the changed columns of the  *)
(* row by its key alone: no version is compared, the last writer wins.     *)
(*                                                                         *)
(* Abstractions.  One driver: sessions of two drivers share nothing.  The  *)
(* workload is the set of kinds of work that tie the driver.  Availability *)
(* is derived from the status in the same statement.                       *)
(***************************************************************************)
EXTENDS Naturals, FiniteSets

CONSTANTS
    Sessions,   \* sessions, numbered in the order they start
    Requests,   \* requests in flight
    None

VARIABLES
    session,    \* the row of each session, or None
    ties,       \* the kinds of work that tie the driver
    request     \* of each request: its kind, the row it read, what it knows

vars == <<session, ties, request>>

-----------------------------------------------------------------------------
\* GAP and REFUSED: preserved captures, one that came too early and one that was not applied.
Ties  == {"TASK", "CUSTODY", "MANIFEST", "GAP", "REFUSED"}
Unsynced == {"GAP", "REFUSED"}
Kinds == {"PAUSE", "RESUME", "END"}
Open  == {"ACTIVE", "PAUSED"}

\* ended: the column ended_at is set.
SessionRow == [status: Open \cup {"ENDED"}, ended: BOOLEAN]

Request == [kind: Kinds, session: Sessions, read: SessionRow, cleared: BOOLEAN]

OpenSessions == {s \in Sessions : session[s] # None /\ session[s].status \in Open}
Online       == \E s \in OpenSessions : session[s].status = "ACTIVE"

Init ==
    /\ session = [s \in Sessions |-> None]
    /\ ties = {}
    /\ request = [r \in Requests |-> None]

-----------------------------------------------------------------------------
(* Sessions *)

\* An ACTIVE session is answered again, a PAUSED one is refused.
Start(s) ==
    /\ OpenSessions = {}
    /\ session[s] = None /\ \A t \in Sessions : t < s => session[t] # None
    /\ session' = [session EXCEPT ![s] = [status |-> "ACTIVE", ended |-> FALSE]]
    /\ UNCHANGED <<ties, request>>

\* What _load_owned returns decides whether there is anything to do.
MayGoOn(kind, row) ==
    CASE kind = "PAUSE"  -> row.status = "ACTIVE"
      [] kind = "RESUME" -> row.status = "PAUSED"
      [] kind = "END"    -> row.status # "ENDED"

Begin(r, kind, s) ==
    /\ request[r] = None
    /\ session[s] # None /\ MayGoOn(kind, session[s])
    /\ request' = [request EXCEPT ![r] =
          [kind |-> kind, session |-> s, read |-> session[s], cleared |-> kind = "RESUME"]]
    /\ UNCHANGED <<session, ties>>

Blockers(kind) == CASE kind = "END"   -> ties
                    [] kind = "PAUSE" -> ties \cap Unsynced

\* The workload: a break needs no handover of what the driver carries.
CheckWorkload(r) ==
    /\ request[r] # None /\ ~request[r].cleared
    /\ request' = [request EXCEPT ![r] =
          IF Blockers(@.kind) = {} THEN [@ EXCEPT !.cleared = TRUE] ELSE None]
    /\ UNCHANGED <<session, ties>>

(* Mutated form of OneOpenAfter: the table has no partial unique index. *)
MutOneOpenAfter(s) == TRUE

\* uq_pickup_work_session_open_driver
OneOpenAfter(s) == OpenSessions \subseteq {s}

\* merge() writes the columns that differ from what was read.
Write(r, status) ==
    LET s == request[r].session
    IN  /\ status \in Open => OneOpenAfter(s)
        /\ session' = [session EXCEPT ![s] =
              [status |-> status, ended |-> @.ended \/ status = "ENDED"]]

Finish(r, kind, status) ==
    /\ request[r] # None /\ request[r].kind = kind /\ request[r].cleared
    /\ Write(r, status)
    /\ request' = [request EXCEPT ![r] = None]
    /\ UNCHANGED ties

Pause(r)  == Finish(r, "PAUSE", "PAUSED")
Resume(r) == Finish(r, "RESUME", "ACTIVE")
End(r)    == Finish(r, "END", "ENDED")

\* The index refuses the update, or the process is gone: all is rolled back.
Abort(r) ==
    /\ request[r] # None
    /\ request' = [request EXCEPT ![r] = None]
    /\ UNCHANGED <<session, ties>>

-----------------------------------------------------------------------------
(* Work *)

\* _require_online locks the session until the task is written.
Acknowledge ==
    /\ Online
    /\ ties' = ties \cup {"TASK"}
    /\ UNCHANGED <<session, request>>

\* Custody starts; no session is asked for.
AcceptParcel ==
    /\ "TASK" \in ties
    /\ ties' = (ties \ {"TASK"}) \cup {"CUSTODY"}
    /\ UNCHANGED <<session, request>>

\* Failed, cancelled or taken over by somebody else.
DropTask ==
    /\ "TASK" \in ties
    /\ ties' = ties \ {"TASK"}
    /\ UNCHANGED <<session, request>>

DeclareManifest ==
    /\ "CUSTODY" \in ties
    /\ ties' = ties \cup {"MANIFEST"}
    /\ UNCHANGED <<session, request>>

\* A hub received all, or some parcels are missing and stay with the driver.
CloseManifest(received) ==
    /\ "MANIFEST" \in ties
    /\ ties' = ties \ (IF received THEN {"MANIFEST", "CUSTODY"} ELSE {"MANIFEST"})
    /\ UNCHANGED <<session, request>>

PreserveCapture ==
    /\ \E kind \in Unsynced : ties' = ties \cup {kind}
    /\ UNCHANGED <<session, request>>

\* The missing captures arrive, and the early one is applied after them.
FillGap ==
    /\ "GAP" \in ties
    /\ ties' = ties \ {"GAP"}
    /\ UNCHANGED <<session, request>>

\* Operations close the case; the capture keeps RECONCILIATION_REQUIRED, which
\* is what the workload counts.
ResolveCase ==
    /\ Unsynced \cap ties # {}
    /\ UNCHANGED vars

-----------------------------------------------------------------------------
Next ==
    \/ \E s \in Sessions : Start(s)
    \/ \E r \in Requests :
          \/ \E kind \in Kinds, s \in Sessions : Begin(r, kind, s)
          \/ CheckWorkload(r) \/ Pause(r) \/ Resume(r) \/ End(r) \/ Abort(r)
    \/ Acknowledge \/ AcceptParcel \/ DropTask
    \/ DeclareManifest \/ \E received \in BOOLEAN : CloseManifest(received)
    \/ PreserveCapture \/ FillGap \/ ResolveCase

Spec == Init /\ [][Next]_vars

-----------------------------------------------------------------------------
(* Properties *)

\* Every variable keeps the shape of its table.
TypeOK ==
    /\ session \in [Sessions -> SessionRow \cup {None}]
    /\ ties \subseteq Ties
    /\ request \in [Requests -> Request \cup {None}]

\* A driver has one open session, although a pause or a resume that read its
\* session before the end of it can open that session again after the driver
\* has started another; and a session that was never ended says so.
OneOpenSession ==
    /\ Cardinality(OpenSessions) <= 1
    /\ \A s \in Sessions : session[s] # None /\ session[s].status = "ENDED" => session[s].ended
=============================================================================
