------------------------------ MODULE Workforce ------------------------------
(***************************************************************************)
(* One driver's file: the application and the office visit that makes it a *)
(* profile, the shifts worked, the start of each shift, the block that a   *)
(* late start opens, leave, and who may be given work.                     *)
(*                                                                         *)
(* Abstractions.  One person: no request looks at two.  A request that     *)
(* looks only at the row it changes is one step, for it writes under the   *)
(* version it read; the others read first and write later.  Every pattern  *)
(* has a shift every day, and a start is late or not.  Nothing of an       *)
(* application but its status is kept, and leave is for whole days.        *)
(***************************************************************************)
EXTENDS Naturals, FiniteSets

CONSTANTS
    Applications, \* numbered in the order they are made, like the next three
    Patterns,
    Blocks,
    Leaves,
    Requests,     \* requests in flight
    Statuses,     \* a driver's, as operators set it
    None,
    LastDay       \* bound on the days that pass

VARIABLES
    today,
    application,  \* status of each application, or None
    driver,       \* status of the profile, or None
    pattern,      \* the row of each shift pattern, or None
    started,      \* days whose shift was started
    late,         \* and those of them that were started late
    block,        \* the row of each block, or None
    asked,        \* blocks the driver asked support to look at
    leave,        \* the row of each leave request, or None
    request       \* of each request: what it read, or None

attendance == <<started, late>>
file == <<application, driver, pattern, attendance, block, asked, leave>>
vars == <<today, file, request>>

-----------------------------------------------------------------------------
Days == 1 .. LastDay + 1

\* Open-ended patterns end after the last day.
PatternRow == [from: Days, to: Days]

BlockRow == [day: Days, status: {"ACTIVE", "CLEARED"}]

LeaveRow == [from: Days, to: Days, status: {"PENDING", "APPROVED", "DECLINED", "WITHDRAWN"}]

IsNext(table, i) == table[i] = None /\ \A j \in DOMAIN table : j < i => table[j] # None

AppliesOn(row, day) == row.from <= day /\ day <= row.to

\* The latest to begin of those that apply; the query does not tell ties apart.
CurrentFor(day) ==
    LET apply == {p \in Patterns : pattern[p] # None /\ AppliesOn(pattern[p], day)}
    IN  {p \in apply : \A q \in apply : pattern[q].from <= pattern[p].from}

Protecting(day) ==
    {l \in Leaves : leave[l] # None /\ AppliesOn(leave[l], day)
                        /\ leave[l].status \in {"PENDING", "APPROVED"}}

\* find_covering orders by the status, descending: pending comes first.
FindCovering(day) ==
    IF \E l \in Protecting(day) : leave[l].status = "PENDING" THEN "PENDING"
    ELSE IF Protecting(day) # {} THEN "APPROVED" ELSE None

ActiveBlocks == {b \in Blocks : block[b] # None /\ block[b].status = "ACTIVE"}

Open == {a \in Applications : application[a] = "AWAITING_OFFICE_VERIFICATION"}

Init ==
    /\ today = 1
    /\ application = [a \in Applications |-> None]
    /\ driver = None
    /\ pattern = [p \in Patterns |-> None]
    /\ started = {} /\ late = {}
    /\ block = [b \in Blocks |-> None] /\ asked = {}
    /\ leave = [l \in Leaves |-> None]
    /\ request = [r \in Requests |-> None]

NextDay ==
    /\ today < LastDay
    /\ today' = today + 1
    /\ UNCHANGED <<file, request>>

-----------------------------------------------------------------------------
(* Requests that read before they write *)

Is(r, kind) == request[r] # None /\ request[r].kind = kind

Reads(r, row) ==
    /\ request[r] = None /\ driver # None
    /\ request' = [request EXCEPT ![r] = row]
    /\ UNCHANGED <<today, file>>

Over(r) == request' = [request EXCEPT ![r] = None]

\* Refused, or it found a row changed, or its process died.
GiveUp(r) ==
    /\ request[r] # None /\ Over(r)
    /\ UNCHANGED <<today, file>>

-----------------------------------------------------------------------------
(* Applications and the profile *)

\* uq_driver_application_open_per_principal
SubmitApplication(a) ==
    /\ IsNext(application, a) /\ Open = {}
    /\ application' = [application EXCEPT ![a] = "AWAITING_OFFICE_VERIFICATION"]
    /\ UNCHANGED <<today, driver, pattern, attendance, block, asked, leave, request>>

Decide(a, status) ==
    /\ a \in Open
    /\ application' = [application EXCEPT ![a] = status]

CloseApplication(a, status) ==
    /\ Decide(a, status)
    /\ UNCHANGED <<today, driver, pattern, attendance, block, asked, leave, request>>

(* Mutated form of IsNewDriver: a person may have two profiles. *)
MutIsNewDriver == TRUE

\* uq_driver_principal
IsNewDriver == driver = None

\* The shifts of the application hold from a day the operator may name.
RecordOfficeVerification(a, p, from) ==
    /\ Decide(a, "VERIFIED") /\ IsNewDriver
    /\ driver' = "ACTIVE"
    /\ IsNext(pattern, p)
    /\ pattern' = [pattern EXCEPT ![p] = [from |-> from, to |-> LastDay + 1]]
    /\ UNCHANGED <<today, attendance, block, asked, leave, request>>

SetDriverStatus(status) ==
    /\ driver # None
    /\ driver' = status
    /\ UNCHANGED <<today, application, pattern, attendance, block, asked, leave, request>>

-----------------------------------------------------------------------------
(* Shift patterns *)

BeginPattern(r) ==
    \E found \in IF CurrentFor(today) = {} THEN {None} ELSE CurrentFor(today) :
        Reads(r, [kind |-> "pattern", day |-> today, found |-> found,
                  row |-> IF found = None THEN None ELSE pattern[found]])

(* Mutated form of EffectiveFrom: the change holds at once. *)
MutEffectiveFrom(day) == day

\* Changes apply from tomorrow.
EffectiveFrom(day) == day + 1

\* What applied is closed at the end of the day the request saw.
SetShiftPattern(r, p) ==
    /\ Is(r, "pattern") /\ IsNext(pattern, p)
    /\ LET day == request[r].day  found == request[r].found
       IN  /\ found # None => pattern[found] = request[r].row
           /\ pattern' = [q \in Patterns |->
                 IF q = p THEN [from |-> EffectiveFrom(day), to |-> LastDay + 1]
                 ELSE IF q = found THEN [pattern[q] EXCEPT !.to = day]
                 ELSE pattern[q]]
    /\ Over(r)
    /\ UNCHANGED <<today, application, driver, attendance, block, asked, leave>>

-----------------------------------------------------------------------------
(* Starting a shift *)

BeginShift(r, isLate) ==
    /\ CurrentFor(today) # {} /\ today \notin started
    /\ Reads(r, [kind |-> "shift", day |-> today, late |-> isLate,
                 covered |-> FindCovering(today) # None,
                 blocked |-> ActiveBlocks # {}])

\* uq_attendance_driver_day
Attend(r) ==
    /\ Is(r, "shift") /\ request[r].day \notin started
    /\ started' = started \cup {request[r].day}
    /\ late' = IF request[r].late THEN late \cup {request[r].day} ELSE late
    /\ Over(r)
    /\ UNCHANGED <<today, application, driver, pattern, asked, leave>>

Penalised(r) == request[r].late /\ ~request[r].covered /\ ~request[r].blocked

StartShift(r) ==
    /\ Attend(r) /\ ~Penalised(r)
    /\ UNCHANGED block

\* uq_lateness_block_one_active
StartShiftLate(r, b) ==
    /\ Attend(r) /\ Penalised(r)
    /\ ActiveBlocks = {} /\ IsNext(block, b)
    /\ block' = [block EXCEPT ![b] = [day |-> request[r].day, status |-> "ACTIVE"]]

RequestUnblock(b) ==
    /\ b \in ActiveBlocks \ asked
    /\ asked' = asked \cup {b}
    /\ UNCHANGED <<today, application, driver, pattern, attendance, block, leave, request>>

ClearBlock(b) ==
    /\ b \in ActiveBlocks
    /\ block' = [block EXCEPT ![b].status = "CLEARED"]
    /\ UNCHANGED <<today, application, driver, pattern, attendance, asked, leave, request>>

-----------------------------------------------------------------------------
(* Leave *)

\* It clashes only with a pending request that covers its first day.
BeginLeave(r, from, to) ==
    /\ from <= to /\ FindCovering(from) # "PENDING"
    /\ Reads(r, [kind |-> "leave", from |-> from, to |-> to])

RequestLeave(r, l) ==
    /\ Is(r, "leave") /\ IsNext(leave, l)
    /\ leave' = [leave EXCEPT ![l] =
          [from |-> request[r].from, to |-> request[r].to, status |-> "PENDING"]]
    /\ Over(r)
    /\ UNCHANGED <<today, application, driver, pattern, attendance, block, asked>>

\* approve, decline, withdraw
DecideLeave(l, status) ==
    /\ leave[l] # None /\ leave[l].status = "PENDING"
    /\ leave' = [leave EXCEPT ![l].status = status]
    /\ UNCHANGED <<today, application, driver, pattern, attendance, block, asked, request>>

-----------------------------------------------------------------------------
(* Eligibility *)

\* for_principal, asked about today.
Eligible ==
    /\ driver = "ACTIVE"
    /\ ActiveBlocks = {}
    /\ FindCovering(today) # "APPROVED"
    /\ CurrentFor(today) # {}
    /\ today \in started

-----------------------------------------------------------------------------
Next ==
    \/ NextDay
    \/ \E a \in Applications :
          \/ SubmitApplication(a)
          \/ \E status \in {"REJECTED", "WITHDRAWN"} : CloseApplication(a, status)
          \/ \E p \in Patterns, from \in 1 .. LastDay : RecordOfficeVerification(a, p, from)
    \/ \E status \in Statuses : SetDriverStatus(status)
    \/ \E r \in Requests :
          \/ GiveUp(r) \/ BeginPattern(r) \/ StartShift(r)
          \/ \E p \in Patterns : SetShiftPattern(r, p)
          \/ \E isLate \in BOOLEAN : BeginShift(r, isLate)
          \/ \E b \in Blocks : StartShiftLate(r, b)
          \/ \E from, to \in 1 .. LastDay : BeginLeave(r, from, to)
          \/ \E l \in Leaves : RequestLeave(r, l)
    \/ \E b \in Blocks : RequestUnblock(b) \/ ClearBlock(b)
    \/ \E l \in Leaves, status \in {"APPROVED", "DECLINED", "WITHDRAWN"} : DecideLeave(l, status)

Spec == Init /\ [][Next]_vars

-----------------------------------------------------------------------------
(* Properties *)

\* Every variable keeps the shape of its table.
TypeOK ==
    /\ today \in 1 .. LastDay
    /\ application \in [Applications ->
          {None, "AWAITING_OFFICE_VERIFICATION", "VERIFIED", "REJECTED", "WITHDRAWN"}]
    /\ driver \in Statuses \cup {"ACTIVE", None}
    /\ pattern \in [Patterns -> PatternRow \cup {None}]
    /\ late \subseteq started /\ started \subseteq Days
    /\ block \in [Blocks -> BlockRow \cup {None}]
    /\ asked \subseteq Blocks
    /\ leave \in [Leaves -> LeaveRow \cup {None}]
    /\ \A r \in Requests : request[r] # None => request[r].kind \in {"pattern", "shift", "leave"}

\* Whatever is decided at once, a profile stems from the one application that
\* an office verified; a late start is answered by a block, of that day or still
\* open from an earlier one, unless leave was asked for; a driver has one block
\* at a time; and who may be given work has approved leave for the day only if
\* another request for it is pending.
WhoMayWork ==
    /\ Cardinality(Open) <= 1 /\ Cardinality(ActiveBlocks) <= 1
    /\ Cardinality({a \in Applications : application[a] = "VERIFIED"})
          = (IF driver = None THEN 0 ELSE 1)
    /\ \A day \in late :
          \/ \E b \in Blocks : block[b] # None /\ block[b].day <= day
          \/ \E l \in Leaves : leave[l] # None /\ AppliesOn(leave[l], day)
    /\ Eligible =>
          \A l \in Protecting(today) : leave[l].status = "APPROVED" =>
              \E k \in Protecting(today) : leave[k].status = "PENDING"

\* The shift of a day that has begun stays what the driver was told, whoever
\* changes patterns meanwhile, but for a change read before midnight and
\* written after it.
DaysStay ==
    pattern' # pattern /\ driver # None =>
        \A day \in 1 .. today :
            \/ CurrentFor(day)' = CurrentFor(day)
            \/ \E r \in Requests : Is(r, "pattern") /\ request'[r] = None
                                      /\ request[r].day < day

DaysAreNotRewritten == [][DaysStay]_vars
=============================================================================
