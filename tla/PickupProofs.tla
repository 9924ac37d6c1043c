---------------------------- MODULE PickupProofs ----------------------------
(***************************************************************************)
(* Proofs about the pickup service: the attempts of a parcel, the courier  *)
(* ceremony, driver sessions and offline streams, each by an inductive     *)
(* invariant of its own, and then the whole service.                       *)
(***************************************************************************)
EXTENDS Pickup, TLAPS, FiniteSetTheorems, WellFoundedInduction

-----------------------------------------------------------------------------
(* Attempts.  They form one chain and the parcel is accepted at most once,   *)
(* for any number of attempts, requests and keys.                            *)
(*                                                                           *)
(* The two are proved together.  An acceptance or a recovery needs an open   *)
(* attempt; the version it compares makes the row it read the row it         *)
(* overwrites (SeenIsPast); an open attempt has not been replaced, and by    *)
(* the chain only the newest has not; so once the newest is accepted there   *)
(* is no open attempt left for anything to act on.                           *)

\* A version names one state of a row: a request that read the version the
\* row still has read the row as it is.
SeenIsPast ==
    \A q \in Requests : request[q] # None =>
        /\ Exists(request[q].task)
        /\ request[q].seen.version <= row[request[q].task].version
        /\ request[q].seen.version = row[request[q].task].version
              => request[q].seen = row[request[q].task]

IInv == TypeOK /\ SeenIsPast /\ LineageIsAChain /\ AcceptedOnce

-----------------------------------------------------------------------------
(* Facts about rows *)

LEMMA NewRow ==
    ASSUME NEW n \in Nat, NEW p \in Attempts \cup {None}
    PROVE  NewAttempt(n, p) \in AttemptRow
  BY DEF NewAttempt, AttemptRow, Status, Progression, Assessment, StopOutcome

LEMMA WrittenRow ==
    ASSUME NEW r \in AttemptRow
    PROVE  /\ Written(r) \in AttemptRow
           /\ Written(r).version = r.version + 1
           /\ Written(r).status = r.status /\ Written(r).assignment = r.assignment
           /\ Written(r).accepted = r.accepted /\ Written(r).attempt = r.attempt
           /\ Written(r).parent = r.parent /\ Written(r).supersededBy = r.supersededBy
<1>1. PICK n \in Nat : n = r.version + 1
  BY DEF AttemptRow
<1>2. Written(r) = [r EXCEPT !.version = n]
  BY <1>1 DEF Written
<1>. QED  BY <1>1, <1>2 DEF AttemptRow

\* What a request that is current read is what is there.
LEMMA CurrentRow ==
    ASSUME IInv, NEW q \in Requests, Current(q)
    PROVE  /\ request[q].task \in Attempts
           /\ request[q].seen \in AttemptRow
           /\ row[request[q].task] = request[q].seen
           /\ Exists(request[q].task)
<1>1. request[q] \in [task: Attempts, seen: AttemptRow]
  BY DEF Current, IInv, TypeOK
<1>. QED  BY <1>1 DEF Current, IInv, SeenIsPast

\* An attempt that is not replaced is the newest one.
LEMMA OneTip ==
    ASSUME LineageIsAChain, NEW t \in Known, NEW u \in Known,
           row[t].supersededBy = None, row[u].supersededBy = None
    PROVE  t = u
  BY DEF LineageIsAChain

\* An open attempt has not been replaced.
LEMMA OpenIsTip ==
    ASSUME LineageIsAChain, NEW t \in Known, IsOpen(row[t])
    PROVE  row[t].supersededBy = None
  BY DEF LineageIsAChain, IsOpen, IsTerminal, Closed

\* While an attempt is open none is accepted.
LEMMA OpenMeansNotAccepted ==
    ASSUME IInv, NEW t \in Known, IsOpen(row[t])
    PROVE  Accepted = {} /\ outbox = {}
<1>1. ASSUME NEW f \in outbox PROVE FALSE
  <2>1. f.task \in Accepted /\ f.task \in Known /\ row[f.task].accepted
    BY <1>1 DEF IInv, AcceptedOnce, Accepted
  <2>2. row[f.task].supersededBy = None
    BY <1>1 DEF IInv, AcceptedOnce
  <2>3. row[t].supersededBy = None
    BY OpenIsTip DEF IInv
  <2>4. f.task = t
    BY <2>1, <2>2, <2>3, OneTip DEF IInv
  <2>. QED  BY <2>1, <2>4 DEF IsOpen
<1>. QED  BY <1>1 DEF IInv, AcceptedOnce

-----------------------------------------------------------------------------
(* Driver steps *)

\* A step on an attempt that is not accepted, which changes neither its place
\* in the chain nor whether it was superseded.
Harmless(r, new) ==
    /\ new \in AttemptRow
    /\ ~r.accepted /\ ~new.accepted
    /\ new.version = r.version
    /\ new.attempt = r.attempt /\ new.parent = r.parent
    /\ new.supersededBy = r.supersededBy
    /\ (new.status = "SUPERSEDED") <=> (r.status = "SUPERSEDED")

LEMMA StepKeepsIInv ==
    ASSUME IInv, NEW q \in Requests, NEW new, Step(q, new), Harmless(request[q].seen, new)
    PROVE  IInv'
<1> DEFINE t == request[q].task
           w == Written(new)
<1>1. /\ t \in Attempts /\ Exists(t) /\ row[t] = request[q].seen /\ row[t] \in AttemptRow
  BY CurrentRow DEF Step
<1>2. /\ w \in AttemptRow /\ w # None /\ w.version = row[t].version + 1
      /\ ~w.accepted /\ w.attempt = row[t].attempt /\ w.parent = row[t].parent
      /\ w.supersededBy = row[t].supersededBy
      /\ (w.status = "SUPERSEDED") <=> (row[t].status = "SUPERSEDED")
  BY <1>1, WrittenRow, NoneIsNoRow DEF Harmless
<1>3. /\ row' = [row EXCEPT ![t] = w]
      /\ request' = [request EXCEPT ![q] = None]
      /\ UNCHANGED <<history, recoveryKeys, acceptKeys, outbox, answers>>
  BY DEF Step, End
<1>4. row \in [Attempts -> AttemptRow \cup {None}]
  BY DEF IInv, TypeOK
<1>5. /\ row'[t] = w
      /\ \A u \in Attempts : u # t => row'[u] = row[u]
      /\ Known' = Known
  BY <1>1, <1>2, <1>3, <1>4 DEF Known, Exists
<1> HIDE DEF w
<1>6. TypeOK'
  BY <1>2, <1>3, <1>4 DEF IInv, TypeOK
<1>7. SeenIsPast'
  <2> SUFFICES ASSUME NEW p \in Requests, request'[p] # None
               PROVE  /\ row'[request'[p].task] # None
                      /\ request'[p].seen.version <= row'[request'[p].task].version
                      /\ request'[p].seen.version = row'[request'[p].task].version
                            => request'[p].seen = row'[request'[p].task]
    BY DEF SeenIsPast, Exists
  <2>1. p # q /\ request'[p] = request[p] /\ request[p] \in [task: Attempts, seen: AttemptRow]
    BY <1>3 DEF IInv, TypeOK
  <2>2. /\ Exists(request[p].task)
        /\ request[p].seen.version <= row[request[p].task].version
        /\ request[p].seen.version = row[request[p].task].version
              => request[p].seen = row[request[p].task]
    BY <2>1 DEF IInv, SeenIsPast
  <2>3. CASE request[p].task = t
    BY <1>1, <1>2, <1>5, <2>1, <2>2, <2>3 DEF AttemptRow
  <2>4. CASE request[p].task # t
    BY <1>5, <2>1, <2>2, <2>4 DEF Exists
  <2>. QED  BY <2>3, <2>4
<1>8. \A u \in Known : /\ row'[u].supersededBy = row[u].supersededBy
                       /\ row'[u].parent = row[u].parent
                       /\ row'[u].attempt = row[u].attempt
                       /\ row'[u].accepted <=> row[u].accepted
                       /\ (row'[u].status = "SUPERSEDED") <=> (row[u].status = "SUPERSEDED")
  BY <1>1, <1>2, <1>5 DEF Known, Harmless
<1>9. LineageIsAChain'
  BY <1>5, <1>8 DEF IInv, LineageIsAChain
<1>10. AcceptedOnce'
  <2>1. Accepted' = Accepted
    BY <1>5, <1>8 DEF Accepted
  <2>2. t \notin Accepted
    BY <1>1 DEF Accepted, Harmless
  <2>3. \A f \in outbox : f.task # t /\ f.task \in Attempts
    BY <2>2 DEF IInv, AcceptedOnce, Accepted, Known
  <2>. QED  BY <1>3, <1>5, <2>1, <2>3 DEF IInv, AcceptedOnce
<1>. QED  BY <1>6, <1>7, <1>9, <1>10 DEF IInv

LEMMA DriverStepKeepsIInv ==
    ASSUME IInv, NEW q \in Requests, DriverStep(q)
    PROVE  IInv'
<1>1. Current(q)
  BY DEF DriverStep, Acknowledge, Decline, Arrive, Scan, CaptureProof, ReportException, Fail,
         RecordStop, Step
<1> DEFINE r == request[q].seen
<1>2. r \in AttemptRow /\ row[request[q].task] = r /\ request[q].task \in Known
  BY <1>1, CurrentRow DEF Known
<1>3. ASSUME r.assignment = "OFFERED" PROVE ~r.accepted
  BY <1>2, <1>3 DEF IInv, AcceptedOnce, Accepted
<1> HIDE DEF r
<1>4. CASE Acknowledge(q)
  <2>1. Harmless(r, [r EXCEPT !.assignment = "ACKNOWLEDGED"])
    BY <1>2, <1>3, <1>4 DEF Harmless, AttemptRow, Acknowledge, r
  <2>. QED  BY <1>4, <2>1, StepKeepsIInv DEF Acknowledge, r
<1>5. CASE Decline(q)
  <2>1. Harmless(r, [r EXCEPT !.assignment = "DECLINED"])
    BY <1>2, <1>3, <1>5 DEF Harmless, AttemptRow, Decline, r
  <2>. QED  BY <1>5, <2>1, StepKeepsIInv DEF Decline, r
<1>8. ASSUME NEW s \in Progression \cup {"EXCEPTION_REPORTED", "FAILED"}, Underway(r)
      PROVE  Harmless(r, [r EXCEPT !.status = s])
  BY <1>2, <1>8 DEF Harmless, AttemptRow, Underway, IsOpen, IsTerminal, Closed, Status, Progression
<1>9. CASE Arrive(q)
  BY <1>8, <1>9, StepKeepsIInv DEF Arrive, CanAdvance, r, Progression
<1>10. CASE Scan(q)
  BY <1>8, <1>10, StepKeepsIInv DEF Scan, CanAdvance, r, Progression
<1>11. ASSUME NEW a \in Assessment, CaptureProof(q, a) PROVE IInv'
  <2>1. Harmless(r, [r EXCEPT !.status = "PROOF_CAPTURED", !.packaging = a])
    BY <1>2, <1>11 DEF CaptureProof, CanAdvance, Harmless, AttemptRow, Underway, IsOpen, IsTerminal,
       Closed, Status, Progression, r
  <2>. QED  BY <1>11, <2>1, StepKeepsIInv DEF CaptureProof, r
<1>12. CASE ReportException(q)
  BY <1>8, <1>12, StepKeepsIInv DEF ReportException, r
<1>13. CASE Fail(q)
  BY <1>8, <1>13, StepKeepsIInv DEF Fail, r
<1>14. ASSUME NEW o \in StopOutcome, RecordStop(q, o) PROVE IInv'
  <2>1. Harmless(r, [r EXCEPT !.status = "FAILED", !.stop = o])
    BY <1>2, <1>14 DEF RecordStop, Harmless, AttemptRow, Underway, IsOpen, IsTerminal,
       Closed, Status, Progression, r
  <2>. QED  BY <1>14, <2>1, StepKeepsIInv DEF RecordStop, r
<1>. QED  BY <1>4, <1>5, <1>9, <1>10, <1>11, <1>12, <1>13, <1>14 DEF DriverStep

-----------------------------------------------------------------------------
(* Acceptance and recovery *)

\* Changing one row to the next version keeps what the other requests read in
\* the past, whatever else is opened at the same time.
LEMMA WriteKeepsSeen ==
    ASSUME IInv, NEW q \in Requests, Current(q), NEW w \in AttemptRow,
           w.version = request[q].seen.version + 1,
           request' = [request EXCEPT ![q] = None],
           row'[request[q].task] = w,
           \A u \in Known : u # request[q].task => row'[u] = row[u]
    PROVE  SeenIsPast'
<1> DEFINE t == request[q].task
<1>1. t \in Known /\ row[t] = request[q].seen /\ row[t] \in AttemptRow
  BY CurrentRow DEF Known
<1> SUFFICES ASSUME NEW p \in Requests, request'[p] # None
             PROVE  /\ row'[request'[p].task] # None
                    /\ request'[p].seen.version <= row'[request'[p].task].version
                    /\ request'[p].seen.version = row'[request'[p].task].version
                          => request'[p].seen = row'[request'[p].task]
  BY DEF SeenIsPast, Exists
<1>2. p # q /\ request'[p] = request[p] /\ request[p] \in [task: Attempts, seen: AttemptRow]
  BY DEF IInv, TypeOK
<1>3. /\ request[p].task \in Known
      /\ request[p].seen.version <= row[request[p].task].version
      /\ request[p].seen.version = row[request[p].task].version
            => request[p].seen = row[request[p].task]
  BY <1>2 DEF IInv, SeenIsPast, Known
<1>4. CASE request[p].task = t
  BY <1>1, <1>2, <1>3, <1>4, NoneIsNoRow DEF AttemptRow
<1>5. CASE request[p].task # t
  BY <1>2, <1>3, <1>5 DEF Known, Exists
<1>. QED  BY <1>4, <1>5

LEMMA AcceptKeepsIInv ==
    ASSUME IInv, NEW q \in Requests, NEW k \in Keys, Accept(q, k)
    PROVE  IInv'
<1> DEFINE t == request[q].task
           w == Written([request[q].seen EXCEPT !.accepted = TRUE])
<1>1. /\ Current(q) /\ Acceptable(request[q].seen)
      /\ row' = [row EXCEPT ![t] = w]
      /\ outbox' = outbox \cup {[task |-> t, version |-> w.version]}
      /\ acceptKeys' = [acceptKeys EXCEPT ![k] = t]
      /\ request' = [request EXCEPT ![q] = None]
      /\ UNCHANGED <<history, recoveryKeys, answers>>
  BY DEF Accept, End
<1>2. /\ t \in Known /\ t \in Attempts /\ row[t] = request[q].seen /\ row[t] \in AttemptRow
  BY <1>1, CurrentRow DEF Known
<1>3. [row[t] EXCEPT !.accepted = TRUE] \in AttemptRow
  BY <1>2 DEF AttemptRow
<1>4. /\ w \in AttemptRow /\ w # None /\ w.version = row[t].version + 1
      /\ w.accepted /\ w.attempt = row[t].attempt /\ w.parent = row[t].parent
      /\ w.supersededBy = row[t].supersededBy
      /\ w.status = row[t].status /\ w.assignment = row[t].assignment
  BY <1>2, <1>3, WrittenRow, NoneIsNoRow DEF AttemptRow
<1>5. row \in [Attempts -> AttemptRow \cup {None}]
  BY DEF IInv, TypeOK
<1> HIDE DEF w
<1>6. /\ row'[t] = w
      /\ \A u \in Attempts : u # t => row'[u] = row[u]
      /\ Known' = Known
  BY <1>1, <1>2, <1>4, <1>5 DEF Known, Exists
<1>7. TypeOK'
  <2>1. w.version \in Nat
    BY <1>4 DEF AttemptRow
  <2>. QED  BY <1>1, <1>2, <1>4, <1>5, <2>1 DEF IInv, TypeOK
<1>8. SeenIsPast'
  <2>1. w.version = request[q].seen.version + 1
    BY <1>2, <1>4
  <2>2. \A u \in Known : u # t => row'[u] = row[u]
    BY <1>6 DEF Known
  <2>. QED  BY <1>1, <1>4, <1>6, <2>1, <2>2, WriteKeepsSeen
<1>9. \A u \in Known : /\ row'[u].supersededBy = row[u].supersededBy
                       /\ row'[u].parent = row[u].parent
                       /\ row'[u].attempt = row[u].attempt
                       /\ row'[u].status = row[u].status
  BY <1>4, <1>6 DEF Known
<1>10. LineageIsAChain'
  BY <1>6, <1>9 DEF IInv, LineageIsAChain
<1>11. AcceptedOnce'
  <2>1. IsOpen(row[t])
    BY <1>1, <1>2 DEF Acceptable
  <2>2. Accepted = {} /\ outbox = {}
    BY <1>2, <2>1, OpenMeansNotAccepted
  <2>3. Accepted' = {t} /\ outbox' = {[task |-> t, version |-> w.version]}
    BY <1>1, <1>2, <1>4, <1>6, <2>2 DEF Accepted
  <2>4. row'[t].supersededBy = None
    BY <1>2, <1>9, <2>1, OpenIsTip DEF IInv
  <2>5. row'[t].status = "PROOF_CAPTURED" /\ row'[t].assignment = "ACKNOWLEDGED"
    BY <1>1, <1>2, <1>4, <1>6 DEF Acceptable
  <2>. QED  BY <1>6, <2>3, <2>4, <2>5 DEF AcceptedOnce
<1>. QED  BY <1>7, <1>8, <1>10, <1>11 DEF IInv

LEMMA CancelKeepsIInv ==
    ASSUME IInv, NEW q \in Requests, NEW k \in Keys, "CANCEL" \in Recoveries, CancelPickup(q, k)
    PROVE  IInv'
<1> DEFINE t == request[q].task
           w == Written([request[q].seen EXCEPT !.status = "CANCELLED"])
<1>1. /\ Current(q) /\ IsOpen(request[q].seen)
      /\ row' = [row EXCEPT ![t] = w]
      /\ history' = history \cup {[task |-> t, replacement |-> None, key |-> k]}
      /\ recoveryKeys' = [recoveryKeys EXCEPT ![k] =
                             [task |-> t, action |-> "CANCEL", result |-> t]]
      /\ answers' = answers \cup {[key |-> k, task |-> t, action |-> "CANCEL", result |-> t]}
      /\ request' = [request EXCEPT ![q] = None]
      /\ UNCHANGED <<acceptKeys, outbox>>
  BY DEF CancelPickup, Record, Answer, End
<1>2. /\ t \in Known /\ t \in Attempts /\ row[t] = request[q].seen /\ row[t] \in AttemptRow
  BY <1>1, CurrentRow DEF Known
<1>3. [row[t] EXCEPT !.status = "CANCELLED"] \in AttemptRow
  BY <1>2 DEF AttemptRow, Status, Closed
<1>4. /\ w \in AttemptRow /\ w # None /\ w.version = row[t].version + 1
      /\ ~w.accepted /\ w.attempt = row[t].attempt /\ w.parent = row[t].parent
      /\ w.supersededBy = row[t].supersededBy /\ w.status = "CANCELLED"
  BY <1>1, <1>2, <1>3, WrittenRow, NoneIsNoRow DEF AttemptRow, IsOpen
<1>5. row \in [Attempts -> AttemptRow \cup {None}]
  BY DEF IInv, TypeOK
<1> HIDE DEF w
<1>6. /\ row'[t] = w
      /\ \A u \in Attempts : u # t => row'[u] = row[u]
      /\ Known' = Known
  BY <1>1, <1>2, <1>4, <1>5 DEF Known, Exists
<1>7. TypeOK'
  BY <1>1, <1>2, <1>4, <1>5 DEF IInv, TypeOK, KeyRecord
<1>8. SeenIsPast'
  <2>1. w.version = request[q].seen.version + 1
    BY <1>2, <1>4
  <2>2. \A u \in Known : u # t => row'[u] = row[u]
    BY <1>6 DEF Known
  <2>. QED  BY <1>1, <1>4, <1>6, <2>1, <2>2, WriteKeepsSeen
<1>9. row[t].status # "SUPERSEDED"
  BY <1>1, <1>2 DEF IsOpen, IsTerminal, Closed
<1>10. \A u \in Known : /\ row'[u].supersededBy = row[u].supersededBy
                        /\ row'[u].parent = row[u].parent
                        /\ row'[u].attempt = row[u].attempt
                        /\ (row'[u].status = "SUPERSEDED") <=> (row[u].status = "SUPERSEDED")
  BY <1>4, <1>6, <1>9 DEF Known
<1>11. LineageIsAChain'
  BY <1>6, <1>10 DEF IInv, LineageIsAChain
<1>12. AcceptedOnce'
  <2>1. Accepted = {} /\ outbox = {}
    BY <1>1, <1>2, OpenMeansNotAccepted
  <2>2. ASSUME NEW u \in Known PROVE ~row'[u].accepted
    <3>1. CASE u = t
      BY <1>4, <1>6, <3>1
    <3>2. CASE u # t
      BY <1>6, <2>1, <3>2 DEF Accepted, Known
    <3>. QED  BY <3>1, <3>2
  <2>3. Accepted' = {}
    BY <1>6, <2>2 DEF Accepted
  <2>. QED  BY <1>1, <2>1, <2>3 DEF AcceptedOnce
<1>. QED  BY <1>7, <1>8, <1>11, <1>12 DEF IInv

\* The rows a replacement writes, and who is in the chain afterwards.
LEMMA ReplaceRows ==
    ASSUME IInv, NEW q \in Requests, NEW k \in Keys, NEW action \in Recoveries,
           Replace(q, k, action)
    PROVE  LET t == request[q].task IN
           /\ Current(q) /\ t \in Known /\ IsOpen(row[t])
           /\ \A u \in Known : row[u].attempt # row[t].attempt + 1
           /\ UNCHANGED <<acceptKeys, outbox>>
           /\ request' = [request EXCEPT ![q] = None]
           /\ \E new \in Attempts \ Known :
                 /\ Known' = Known \cup {new}
                 /\ \A u \in Known : u # t => row'[u] = row[u]
                 /\ row'[t] \in AttemptRow
                 /\ row'[t].version = row[t].version + 1
                 /\ row'[t].status = "SUPERSEDED" /\ row'[t].supersededBy = new
                 /\ row'[t].attempt = row[t].attempt /\ row'[t].parent = row[t].parent
                 /\ ~row'[t].accepted
                 /\ row'[new] = NewAttempt(row[t].attempt + 1, t)
                 /\ row'[new] \in AttemptRow
                 /\ row' \in [Attempts -> AttemptRow \cup {None}]
                 /\ history' = history \cup {[task |-> t, replacement |-> new, key |-> k]}
                 /\ recoveryKeys' = [recoveryKeys EXCEPT ![k] =
                                       [task |-> t, action |-> action, result |-> new]]
                 /\ answers' = answers \cup
                                 {[key |-> k, task |-> t, action |-> action, result |-> new]}
<1> DEFINE t == request[q].task
<1>1. Current(q) /\ IsOpen(request[q].seen) /\ UNCHANGED <<acceptKeys, outbox>>
      /\ request' = [request EXCEPT ![q] = None]
  BY DEF Replace, Record, End
<1>2. /\ t \in Known /\ t \in Attempts /\ row[t] = request[q].seen /\ row[t] \in AttemptRow
      /\ row[t].attempt \in Nat
  BY <1>1, CurrentRow DEF Known, AttemptRow
<1>3. \A u \in Known : row[u].attempt # row[t].attempt + 1
  BY <1>2 DEF Replace, Known
<1>4. PICK new \in Attempts :
         /\ ~Exists(new)
         /\ row' = [row EXCEPT
               ![t] = Written([row[t] EXCEPT !.status = "SUPERSEDED", !.supersededBy = new]),
               ![new] = NewAttempt(row[t].attempt + 1, t)]
         /\ history' = history \cup {[task |-> t, replacement |-> new, key |-> k]}
         /\ recoveryKeys' = [recoveryKeys EXCEPT ![k] =
                               [task |-> t, action |-> action, result |-> new]]
         /\ answers' = answers \cup
                         {[key |-> k, task |-> t, action |-> action, result |-> new]}
  BY <1>2 DEF Replace, Record, Answer
<1> DEFINE w == Written([row[t] EXCEPT !.status = "SUPERSEDED", !.supersededBy = new])
           n == NewAttempt(row[t].attempt + 1, t)
<1>5. [row[t] EXCEPT !.status = "SUPERSEDED", !.supersededBy = new] \in AttemptRow
  BY <1>2 DEF AttemptRow, Status, Closed
<1>6. /\ w \in AttemptRow /\ w # None /\ w.version = row[t].version + 1
      /\ w.status = "SUPERSEDED" /\ w.supersededBy = new
      /\ w.attempt = row[t].attempt /\ w.parent = row[t].parent
      /\ ~w.accepted
  BY <1>1, <1>2, <1>5, WrittenRow, NoneIsNoRow DEF AttemptRow, IsOpen
<1>7. n \in AttemptRow /\ n # None
  BY <1>2, NewRow, NoneIsNoRow
<1> HIDE DEF w, n
<1>8. row' = [row EXCEPT ![t] = w, ![new] = n] /\ new # t
  BY <1>2, <1>4 DEF w, n, Known
<1>9. row \in [Attempts -> AttemptRow \cup {None}]
  BY DEF IInv, TypeOK
<1>10. /\ row'[t] = w /\ row'[new] = n
       /\ \A u \in Attempts : u # t /\ u # new => row'[u] = row[u]
       /\ row' \in [Attempts -> AttemptRow \cup {None}]
  BY <1>2, <1>6, <1>7, <1>8, <1>9
<1>11. Known' = Known \cup {new} /\ new \in Attempts \ Known
  BY <1>2, <1>4, <1>6, <1>7, <1>10 DEF Known, Exists
<1>12. \A u \in Known : u # t => row'[u] = row[u]
  BY <1>10, <1>11 DEF Known
<1>13. IsOpen(row[t])
  BY <1>1, <1>2
<1>14. row'[t] \in AttemptRow /\ row'[new] \in AttemptRow
       /\ row'[new] = NewAttempt(row[t].attempt + 1, t)
  BY <1>6, <1>7, <1>10 DEF n
<1>15. /\ row'[t].version = row[t].version + 1
       /\ row'[t].status = "SUPERSEDED" /\ row'[t].supersededBy = new
       /\ row'[t].attempt = row[t].attempt /\ row'[t].parent = row[t].parent
       /\ ~row'[t].accepted
  BY <1>6, <1>10
<1>. QED  BY <1>1, <1>2, <1>3, <1>4, <1>10, <1>11, <1>12, <1>13, <1>14, <1>15

LEMMA ReplaceKeepsIInv ==
    ASSUME IInv, NEW q \in Requests, NEW k \in Keys, NEW action \in Recoveries,
           Replace(q, k, action)
    PROVE  IInv'
<1> DEFINE t == request[q].task
<1>1. /\ Current(q) /\ t \in Known /\ IsOpen(row[t])
      /\ \A u \in Known : row[u].attempt # row[t].attempt + 1
      /\ UNCHANGED <<acceptKeys, outbox>>
      /\ request' = [request EXCEPT ![q] = None]
  BY ReplaceRows
<1>2. PICK new \in Attempts \ Known :
         /\ Known' = Known \cup {new}
         /\ \A u \in Known : u # t => row'[u] = row[u]
         /\ row'[t] \in AttemptRow
         /\ row'[t].version = row[t].version + 1
         /\ row'[t].status = "SUPERSEDED" /\ row'[t].supersededBy = new
         /\ row'[t].attempt = row[t].attempt /\ row'[t].parent = row[t].parent
         /\ ~row'[t].accepted
         /\ row'[new] = NewAttempt(row[t].attempt + 1, t)
         /\ row'[new] \in AttemptRow
         /\ row' \in [Attempts -> AttemptRow \cup {None}]
         /\ history' = history \cup {[task |-> t, replacement |-> new, key |-> k]}
         /\ recoveryKeys' = [recoveryKeys EXCEPT ![k] =
                               [task |-> t, action |-> action, result |-> new]]
         /\ answers' = answers \cup
                         {[key |-> k, task |-> t, action |-> action, result |-> new]}
  BY ReplaceRows
<1>3. row[t] = request[q].seen /\ row[t] \in AttemptRow /\ t \in Attempts
  BY <1>1, CurrentRow DEF Known
<1>4. TypeOK'
  BY <1>1, <1>2, <1>3 DEF IInv, TypeOK, KeyRecord
<1>5. SeenIsPast'
  <2>1. row'[t].version = request[q].seen.version + 1
    BY <1>2, <1>3
  <2>. QED  BY <1>1, <1>2, <2>1, WriteKeepsSeen
<1>6. /\ row'[new].supersededBy = None /\ row'[new].parent = t
      /\ row'[new].attempt = row[t].attempt + 1 /\ row'[new].status = "PENDING"
      /\ ~row'[new].accepted
  BY <1>2 DEF NewAttempt
<1>7. row[t].supersededBy = None /\ \A u \in Known : row[u].supersededBy = None => u = t
  <2>1. row[t].supersededBy = None
    BY <1>1, OpenIsTip DEF IInv
  <2>. QED  BY <1>1, <2>1, OneTip DEF IInv
<1>8. LineageIsAChain'
  <2>1. \A u \in Known' : row'[u].supersededBy # None =>
           /\ row'[u].supersededBy \in Known'
           /\ row'[row'[u].supersededBy].parent = u
           /\ row'[row'[u].supersededBy].attempt = row'[u].attempt + 1
    <3> SUFFICES ASSUME NEW u \in Known, u # t, row[u].supersededBy # None
                 PROVE  /\ row[u].supersededBy \in Known
                        /\ row'[row[u].supersededBy].parent = u
                        /\ row'[row[u].supersededBy].attempt = row[u].attempt + 1
      BY <1>2, <1>6
    <3>1. /\ row[u].supersededBy \in Known
          /\ row[row[u].supersededBy].parent = u
          /\ row[row[u].supersededBy].attempt = row[u].attempt + 1
      BY DEF IInv, LineageIsAChain
    <3>. QED  BY <1>2, <3>1
  <2>2. \A u \in Known' : row'[u].parent # None =>
           /\ row'[u].parent \in Known'
           /\ row'[row'[u].parent].supersededBy = u
    <3> SUFFICES ASSUME NEW u \in Known, row[u].parent # None
                 PROVE  /\ row[u].parent \in Known
                        /\ row'[row[u].parent].supersededBy = u
      BY <1>1, <1>2, <1>6
    <3>1. row[u].parent \in Known /\ row[row[u].parent].supersededBy = u
      BY DEF IInv, LineageIsAChain
    <3>2. u # None
      BY <1>1, AttemptConstants DEF Known
    <3>. QED  BY <1>2, <1>7, <3>1, <3>2
  <2>3. \A u \in Known' : (row'[u].status = "SUPERSEDED") <=> (row'[u].supersededBy # None)
    <3>1. new # None
      BY AttemptConstants
    <3>. QED  BY <1>2, <1>6, <3>1 DEF IInv, LineageIsAChain
  <2>4. \A u, v \in Known' : row'[u].attempt = row'[v].attempt => u = v
    BY <1>1, <1>2, <1>6 DEF IInv, LineageIsAChain
  <2>5. \A u \in Known' : row'[u].supersededBy = None <=> u = new
    <3>1. new # None
      BY AttemptConstants
    <3>. QED  BY <1>2, <1>6, <1>7, <3>1
  <2>. QED  BY <1>2, <2>1, <2>2, <2>3, <2>4, <2>5 DEF LineageIsAChain
<1>9. AcceptedOnce'
  <2>1. Accepted = {} /\ outbox = {}
    BY <1>1, OpenMeansNotAccepted
  <2>2. ASSUME NEW u \in Known' PROVE ~row'[u].accepted
    <3>1. CASE u = t
      BY <1>2, <3>1
    <3>2. CASE u = new
      BY <1>6, <3>2
    <3>3. CASE u # t /\ u # new
      BY <1>2, <2>1, <3>3 DEF Accepted
    <3>. QED  BY <3>1, <3>2, <3>3
  <2>3. Accepted' = {}
    BY <2>2 DEF Accepted
  <2>. QED  BY <1>1, <2>1, <2>3 DEF AcceptedOnce
<1>. QED  BY <1>4, <1>5, <1>8, <1>9 DEF IInv

-----------------------------------------------------------------------------
(* The inductive invariant *)

LEMMA InitHolds == Init => IInv
<1> SUFFICES ASSUME Init PROVE IInv
  OBVIOUS
<1>1. PICK t \in Attempts, r \in FirstAttempt : row = [u \in Attempts |-> IF u = t THEN r ELSE None]
  BY DEF Init
<1>2. /\ r \in AttemptRow /\ r # None /\ r.supersededBy = None /\ r.parent = None /\ ~r.accepted
      /\ r.status # "SUPERSEDED"
  <2>1. NewAttempt(1, None) \in AttemptRow
    BY NewRow
  <2>2. CASE r = NewAttempt(1, None)
    BY <2>1, <2>2, NoneIsNoRow DEF NewAttempt
  <2>3. CASE r = [NewAttempt(1, None) EXCEPT !.status = "PROOF_CAPTURED",
                     !.assignment = "ACKNOWLEDGED", !.packaging = "GOOD"]
    <3>1. r \in AttemptRow
      BY <2>1, <2>3 DEF AttemptRow, Status, Progression, Assessment
    <3>. QED  BY <2>3, <3>1, NoneIsNoRow DEF NewAttempt
  <2>. QED  BY <1>1, <2>2, <2>3 DEF FirstAttempt
<1>3. Known = {t} /\ row[t] = r
  BY <1>1, <1>2 DEF Known, Exists
<1>4. TypeOK
  BY <1>1, <1>2 DEF Init, TypeOK
<1>5. SeenIsPast
  BY DEF Init, SeenIsPast
<1>6. LineageIsAChain
  BY <1>2, <1>3 DEF LineageIsAChain
<1>7. AcceptedOnce
  BY <1>2, <1>3 DEF Init, AcceptedOnce, Accepted
<1>. QED  BY <1>4, <1>5, <1>6, <1>7 DEF IInv

\* A step that leaves the rows and the outbox alone and reads no future.
LEMMA ReadKeepsIInv ==
    ASSUME IInv, TypeOK', SeenIsPast', UNCHANGED <<row, outbox>>
    PROVE  IInv'
<1>1. Known' = Known /\ Accepted' = Accepted
  BY DEF Known, Accepted, Exists
<1>. QED  BY <1>1 DEF IInv, LineageIsAChain, AcceptedOnce

LEMMA StepHolds == IInv /\ [Next]_vars => IInv'
<1> SUFFICES ASSUME IInv, [Next]_vars PROVE IInv'
  OBVIOUS
<1>1. ASSUME NEW q \in Requests, Begin(q) PROVE IInv'
  <2>1. PICK t \in Attempts : Exists(t) /\ request' = [request EXCEPT ![q] = [task |-> t, seen |-> row[t]]]
    BY <1>1 DEF Begin
  <2>2. row[t] \in AttemptRow /\ UNCHANGED <<db, answers>>
    BY <1>1, <2>1 DEF IInv, TypeOK, Exists, Begin
  <2>3. TypeOK'
    BY <2>1, <2>2 DEF IInv, TypeOK, db
  <2>4. SeenIsPast'
    <3> SUFFICES ASSUME NEW p \in Requests, request'[p] # None
                 PROVE  /\ Exists(request'[p].task)
                        /\ request'[p].seen.version <= row[request'[p].task].version
                        /\ request'[p].seen.version = row[request'[p].task].version
                              => request'[p].seen = row[request'[p].task]
      BY <2>2 DEF SeenIsPast, Exists, db
    <3>1. request \in [Requests -> [task: Attempts, seen: AttemptRow] \cup {None}]
      BY DEF IInv, TypeOK
    <3>2. CASE p = q
      BY <2>1, <2>2, <3>1, <3>2 DEF AttemptRow
    <3>3. CASE p # q
      BY <2>1, <3>1, <3>3 DEF IInv, SeenIsPast
    <3>. QED  BY <3>2, <3>3
  <2>. QED  BY <2>2, <2>3, <2>4, ReadKeepsIInv DEF db
<1>2. ASSUME NEW q \in Requests, GiveUp(q) PROVE IInv'
  <2>1. request' = [request EXCEPT ![q] = None] /\ UNCHANGED <<db, answers>>
    BY <1>2 DEF GiveUp, End
  <2>2. TypeOK'
    BY <2>1 DEF IInv, TypeOK, db
  <2>3. SeenIsPast'
    BY <2>1 DEF IInv, TypeOK, SeenIsPast, Exists, db
  <2>. QED  BY <2>1, <2>2, <2>3, ReadKeepsIInv DEF db
<1>3. ASSUME NEW q \in Requests, DriverStep(q) PROVE IInv'
  BY <1>3, DriverStepKeepsIInv
<1>4. ASSUME NEW q \in Requests, Recovery(q) PROVE IInv'
  BY <1>4, CancelKeepsIInv, ReplaceKeepsIInv DEF Recovery
<1>5. ASSUME NEW q \in Requests, NEW k \in Keys, Accept(q, k) PROVE IInv'
  BY <1>5, AcceptKeepsIInv
<1>7. ASSUME NEW k \in Keys, NEW t \in Attempts, NEW a \in Recoveries, ReplayRecovery(k, t, a)
      PROVE IInv'
  <2>1. /\ UNCHANGED <<db, request>> /\ recoveryKeys[k] # None
        /\ answers' = answers \cup
              {[key |-> k, task |-> t, action |-> a, result |-> recoveryKeys[k].result]}
    BY <1>7 DEF ReplayRecovery, Answer
  <2>2. recoveryKeys[k].result \in Attempts
    BY <2>1 DEF IInv, TypeOK, KeyRecord
  <2>3. TypeOK' /\ SeenIsPast'
    BY <2>1, <2>2 DEF IInv, TypeOK, KeyRecord, SeenIsPast, Exists, db
  <2>. QED  BY <2>1, <2>3, ReadKeepsIInv DEF db
<1>8. CASE UNCHANGED vars
  <2>1. TypeOK' /\ SeenIsPast'
    BY <1>8 DEF vars, db, IInv, TypeOK, SeenIsPast, Exists
  <2>. QED  BY <1>8, <2>1, ReadKeepsIInv DEF vars, db
<1>. QED  BY <1>1, <1>2, <1>3, <1>4, <1>5, <1>7, <1>8 DEF Next

\* Attempts, keys, transactions and answers keep their shape and the
\* invariants of the lineage hold, whatever requests run at the same time.
THEOREM AttemptInvariant == Spec => []IInv
<1>. QED  BY InitHolds, StepHolds, PTL DEF Spec

THEOREM AttemptTypes == Spec => []TypeOK
<1>1. IInv => TypeOK
  BY DEF IInv
<1>. QED  BY <1>1, AttemptInvariant, PTL

\* Racing recoveries never fork the chain of attempts of a parcel.
THEOREM AttemptsFormAChain == Spec => []LineageIsAChain
<1>1. IInv => LineageIsAChain
  BY DEF IInv
<1>. QED  BY <1>1, AttemptInvariant, PTL

\* The parcel enters custody at most once, with one fact that carries the
\* version the acceptance wrote.
THEOREM ParcelIsAcceptedOnce == Spec => []AcceptedOnce
<1>1. IInv => AcceptedOnce
  BY DEF IInv
<1>. QED  BY <1>1, AttemptInvariant, PTL

-----------------------------------------------------------------------------
(* Acceptance is final *)

\* After an acceptance the only step that writes an attempt is an answer to
\* the offer of one that was never answered.
LEMMA FinalStep ==
    ASSUME IInv, [Next]_vars, Accepted # {}
    PROVE  /\ \A t \in Accepted : row'[t] = row[t]
           /\ \A t \in Attempts : ~Exists(t) => row'[t] = None
           /\ \A t \in Known : row'[t].status = row[t].status
<1>1. ASSUME NEW q \in Requests, Current(q), IsOpen(request[q].seen) PROVE FALSE
  <2>1. request[q].task \in Known /\ IsOpen(row[request[q].task])
    BY <1>1, CurrentRow DEF Known
  <2>. QED  BY <2>1, OpenMeansNotAccepted
<1>2. ASSUME NEW q \in Requests, NEW answer \in {"ACKNOWLEDGED", "DECLINED"},
             request[q].seen.assignment = "OFFERED",
             Step(q, [request[q].seen EXCEPT !.assignment = answer])
      PROVE  /\ \A t \in Accepted : row'[t] = row[t]
             /\ \A t \in Attempts : ~Exists(t) => row'[t] = None
             /\ \A t \in Known : row'[t].status = row[t].status
  <2> DEFINE t == request[q].task
             w == Written([row[t] EXCEPT !.assignment = answer])
  <2>1. t \in Known /\ row[t] = request[q].seen /\ row[t] \in AttemptRow
    BY <1>2, CurrentRow DEF Step, Known
  <2>2. [row[t] EXCEPT !.assignment = answer] \in AttemptRow
    BY <2>1 DEF AttemptRow
  <2>3. w.status = row[t].status
    BY <2>1, <2>2, WrittenRow DEF AttemptRow
  <2> HIDE DEF w
  <2>4. row' = [row EXCEPT ![t] = w]
    BY <1>2, <2>1 DEF Step, w
  <2>5. t \notin Accepted
    BY <1>2, <2>1 DEF IInv, AcceptedOnce, Accepted
  <2>6. row'[t] = w /\ \A u \in Attempts : u # t => row'[u] = row[u]
    BY <2>1, <2>4 DEF IInv, TypeOK, Known
  <2>. QED  BY <2>1, <2>3, <2>5, <2>6 DEF Known, Accepted, Exists
<1>3. ASSUME NEW q \in Requests, DriverStep(q)
      PROVE  \/ Acknowledge(q) \/ Decline(q)
             \/ Current(q) /\ IsOpen(request[q].seen)
  BY <1>3 DEF DriverStep, Arrive, Scan, CaptureProof, ReportException, Fail, RecordStop, CanAdvance,
     Underway, Step
<1>4. ASSUME NEW q \in Requests, Acknowledge(q) \/ Decline(q)
      PROVE  /\ \A t \in Accepted : row'[t] = row[t]
             /\ \A t \in Attempts : ~Exists(t) => row'[t] = None
             /\ \A t \in Known : row'[t].status = row[t].status
  BY <1>2, <1>4 DEF Acknowledge, Decline
<1>5. ASSUME NEW q \in Requests, NEW k \in Keys,
             \/ CancelPickup(q, k)
             \/ \E action \in Recoveries : Replace(q, k, action)
             \/ Accept(q, k)
      PROVE  FALSE
  BY <1>1, <1>5 DEF CancelPickup, Replace, Accept, Acceptable
<1>6. CASE UNCHANGED row
  BY <1>6 DEF Exists
<1>. QED  BY <1>1, <1>3, <1>4, <1>5, <1>6 DEF Next, Recovery, Begin, GiveUp,
     ReplayRecovery, vars, db

\* Acceptance is the end of the lineage: nothing is opened or closed after it
\* and the accepted attempt is never written again.
THEOREM AcceptanceIsFinal == Spec => AcceptedIsFinal
<1>1. IInv /\ [Next]_vars =>
         [Accepted # {} =>
            /\ \A t \in Accepted : row'[t] = row[t]
            /\ \A t \in Attempts : ~Exists(t) => row'[t] = None
            /\ \A t \in Known : row'[t].status = row[t].status]_vars
  BY FinalStep
<1>. QED  BY <1>1, AttemptInvariant, PTL DEF Spec, AcceptedIsFinal

-----------------------------------------------------------------------------
(* What the records of operations say *)

\* A driver step neither opens nor closes an attempt, leaves its place in the
\* chain alone and keeps the outcome its stop recorded.
Gentle(r, new) ==
    /\ new \in AttemptRow
    /\ new.status \in Closed <=> r.status \in Closed
    /\ new.supersededBy = r.supersededBy
    /\ r.stop # None => new.stop = r.stop

LEMMA DriverStepIsGentle ==
    ASSUME IInv, NEW q \in Requests, DriverStep(q)
    PROVE  \E new : Step(q, new) /\ Gentle(request[q].seen, new)
<1>1. Current(q)
  BY DEF DriverStep, Acknowledge, Decline, Arrive, Scan, CaptureProof, ReportException, Fail,
         RecordStop, Step
<1> DEFINE r == request[q].seen
<1>2. r \in AttemptRow
  BY <1>1, CurrentRow
<1> HIDE DEF r
<1>3. CASE Acknowledge(q)
  <2>1. Gentle(r, [r EXCEPT !.assignment = "ACKNOWLEDGED"])
    BY <1>2 DEF Gentle, AttemptRow
  <2>. QED  BY <1>3, <2>1 DEF Acknowledge, r
<1>4. CASE Decline(q)
  <2>1. Gentle(r, [r EXCEPT !.assignment = "DECLINED"])
    BY <1>2 DEF Gentle, AttemptRow
  <2>. QED  BY <1>4, <2>1 DEF Decline, r
<1>5. ASSUME NEW s \in Progression \cup {"EXCEPTION_REPORTED", "FAILED"}, Underway(r)
      PROVE  Gentle(r, [r EXCEPT !.status = s])
  BY <1>2, <1>5 DEF Gentle, AttemptRow, Underway, IsOpen, IsTerminal, Closed, Status, Progression
<1>6. CASE Arrive(q)
  BY <1>5, <1>6 DEF Arrive, CanAdvance, r, Progression
<1>7. CASE Scan(q)
  BY <1>5, <1>7 DEF Scan, CanAdvance, r, Progression
<1>8. ASSUME NEW a \in Assessment, CaptureProof(q, a)
      PROVE  \E new : Step(q, new) /\ Gentle(request[q].seen, new)
  <2>1. Gentle(r, [r EXCEPT !.status = "PROOF_CAPTURED", !.packaging = a])
    BY <1>2, <1>8 DEF CaptureProof, CanAdvance, Gentle, AttemptRow, Underway, IsOpen, IsTerminal,
       Closed, Status, Progression, r
  <2>. QED  BY <1>8, <2>1 DEF CaptureProof, r
<1>9. CASE ReportException(q)
  BY <1>5, <1>9 DEF ReportException, r
<1>10. CASE Fail(q)
  BY <1>5, <1>10 DEF Fail, r
<1>11. ASSUME NEW o \in StopOutcome, RecordStop(q, o)
       PROVE  \E new : Step(q, new) /\ Gentle(request[q].seen, new)
  <2>1. Gentle(r, [r EXCEPT !.status = "FAILED", !.stop = o])
    BY <1>2, <1>11 DEF RecordStop, Gentle, AttemptRow, Underway, IsOpen, IsTerminal,
       Closed, Status, Progression, r
  <2>. QED  BY <1>11, <2>1 DEF RecordStop, r
<1>. QED  BY <1>3, <1>4, <1>6, <1>7, <1>8, <1>9, <1>10, <1>11 DEF DriverStep

\* The steps that write one row and record nothing: driver steps, acceptances.
LEMMA GentleRows ==
    ASSUME IInv, NEW q \in Requests, NEW new, Current(q), Gentle(request[q].seen, new),
           row' = [row EXCEPT ![request[q].task] = Written(new)]
    PROVE  /\ Known' = Known
           /\ \A t \in Known : /\ IsTerminal(row'[t]) <=> IsTerminal(row[t])
                               /\ row'[t].supersededBy = row[t].supersededBy
                               /\ row[t].stop # None => row'[t].stop = row[t].stop
<1> DEFINE t == request[q].task
           w == Written(new)
<1>1. /\ t \in Attempts /\ Exists(t) /\ row[t] = request[q].seen
      /\ row \in [Attempts -> AttemptRow \cup {None}]
  BY CurrentRow DEF IInv, TypeOK
<1>2. /\ w \in AttemptRow /\ w # None
      /\ w.status = new.status /\ w.supersededBy = new.supersededBy
  BY WrittenRow, NoneIsNoRow DEF Gentle
<1>3. w.stop = new.stop
  BY DEF Written, Gentle, AttemptRow
<1> HIDE DEF w
<1>4. row' = [row EXCEPT ![t] = w]
  BY DEF w
<1>5. row'[t] = w /\ \A u \in Attempts : u # t => row'[u] = row[u]
  BY <1>1, <1>4
<1>6. Known' = Known
  BY <1>1, <1>2, <1>5 DEF Known, Exists
<1>. QED  BY <1>1, <1>2, <1>3, <1>5, <1>6 DEF Known, Gentle, IsTerminal

\* Every recovery a request was answered with is on record under its key.
AnswersOnRecord ==
    \A a \in answers :
        recoveryKeys[a.key] = [task |-> a.task, action |-> a.action, result |-> a.result]

HistoryKnown == \A h \in history : Exists(h.task)

RecordInv == HistoryIsComplete /\ HistoryKnown /\ AnswersOnRecord

LEMMA RecordsKept ==
    ASSUME RecordInv, UNCHANGED <<history, recoveryKeys, answers>>, Known' = Known,
           \A t \in Known : /\ IsTerminal(row'[t]) <=> IsTerminal(row[t])
                            /\ row'[t].supersededBy = row[t].supersededBy,
           TypeOK
    PROVE  RecordInv'
<1>1. \A h \in history : h.task \in Known
  BY DEF RecordInv, HistoryKnown, TypeOK, Known
<1>2. HistoryKnown'
  BY <1>1 DEF HistoryKnown, Known
<1>3. HistoryIsComplete'
  BY <1>1 DEF RecordInv, HistoryIsComplete
<1>. QED  BY <1>2, <1>3 DEF RecordInv, AnswersOnRecord

\* The steps that close an attempt and record it: the recoveries.
LEMMA RecordsRecovery ==
    ASSUME IInv, RecordInv, NEW t \in Known, NEW k \in Keys, NEW action \in Recoveries,
           NEW replacement \in Attempts \cup {None}, NEW result \in Attempts,
           result = IF replacement = None THEN t ELSE replacement,
           ~IsTerminal(row[t]), IsTerminal(row'[t]), row'[t].supersededBy = replacement,
           Known \subseteq Known', \A u \in Known : u # t => row'[u] = row[u],
           \A u \in Known' \ Known : ~IsTerminal(row'[u]),
           recoveryKeys[k] = None,
           history' = history \cup {[task |-> t, replacement |-> replacement, key |-> k]},
           recoveryKeys' = [recoveryKeys EXCEPT ![k] =
                               [task |-> t, action |-> action, result |-> result]],
           answers' = answers \cup
               {[key |-> k, task |-> t, action |-> action, result |-> result]}
    PROVE  RecordInv'
<1> DEFINE new == [task |-> t, replacement |-> replacement, key |-> k]
           rec == [task |-> t, action |-> action, result |-> result]
<1>1. t \in Attempts /\ rec \in KeyRecord /\ rec # None
  BY NoneIsNoRow DEF Known, KeyRecord
<1>2. /\ recoveryKeys'[k] = rec
      /\ \A j \in Keys : j # k => recoveryKeys'[j] = recoveryKeys[j]
  BY DEF IInv, TypeOK
<1>3. \A h \in history : /\ h.task \in Known /\ h.task # t
                         /\ h.key \in Keys /\ h.key # k
  BY DEF IInv, TypeOK, RecordInv, HistoryIsComplete, HistoryKnown, Known
<1>4. HistoryKnown'
  <2>1. \A h \in history' : h.task \in Known
    BY <1>3
  <2>. QED  BY <2>1 DEF HistoryKnown, Known
<1>5. \A u \in Known' : IsTerminal(row'[u]) <=> \E h \in history' : h.task = u
  <2> SUFFICES ASSUME NEW u \in Known'
               PROVE  IsTerminal(row'[u]) <=> \E h \in history' : h.task = u
    OBVIOUS
  <2>1. CASE u = t
    <3>1. new \in history' /\ new.task = t
      OBVIOUS
    <3>. QED  BY <2>1, <3>1
  <2>2. CASE u \in Known /\ u # t
    <3>1. (\E h \in history' : h.task = u) <=> (\E h \in history : h.task = u)
      BY <2>2
    <3>2. IsTerminal(row[u]) <=> \E h \in history : h.task = u
      BY <2>2 DEF RecordInv, HistoryIsComplete
    <3>3. IsTerminal(row'[u]) <=> IsTerminal(row[u])
      BY <2>2
    <3>. QED  BY <3>1, <3>2, <3>3
  <2>3. CASE u \notin Known
    <3>1. \A h \in history' : h.task \in Known
      BY <1>3
    <3>. QED  BY <2>3, <3>1
  <2>. QED  BY <2>1, <2>2, <2>3
<1>6. \A h, g \in history' : h.task = g.task \/ h.key = g.key => h = g
  BY <1>3 DEF RecordInv, HistoryIsComplete
<1>7. ASSUME NEW h \in history'
      PROVE  /\ h.replacement = row'[h.task].supersededBy
             /\ recoveryKeys'[h.key] # None
             /\ recoveryKeys'[h.key].task = h.task
             /\ recoveryKeys'[h.key].result = IF h.replacement = None THEN h.task ELSE h.replacement
  <2>1. CASE h = new
    BY <1>1, <1>2, <2>1
  <2>2. CASE h \in history
    BY <1>2, <1>3, <2>2 DEF RecordInv, HistoryIsComplete
  <2>. QED  BY <1>7, <2>1, <2>2
<1>8. HistoryIsComplete'
  BY <1>5, <1>6, <1>7 DEF HistoryIsComplete
<1>9. AnswersOnRecord'
  <2> SUFFICES ASSUME NEW a \in answers'
               PROVE  recoveryKeys'[a.key] =
                         [task |-> a.task, action |-> a.action, result |-> a.result]
    BY DEF AnswersOnRecord
  <2>1. CASE a \in answers
    <3>1. a.key \in Keys /\ recoveryKeys[a.key] =
                         [task |-> a.task, action |-> a.action, result |-> a.result]
      BY <2>1 DEF IInv, TypeOK, RecordInv, AnswersOnRecord
    <3>2. [task |-> a.task, action |-> a.action, result |-> a.result] \in KeyRecord
      BY <2>1 DEF IInv, TypeOK, KeyRecord
    <3>3. a.key # k
      BY <3>1, <3>2, NoneIsNoRow
    <3>. QED  BY <1>2, <3>1, <3>3
  <2>2. CASE a = [key |-> k, task |-> t, action |-> action, result |-> result]
    BY <1>2, <2>2
  <2>. QED  BY <2>1, <2>2
<1>. QED  BY <1>4, <1>8, <1>9 DEF RecordInv

LEMMA RecordInit == Init => RecordInv
<1> SUFFICES ASSUME Init PROVE RecordInv
  OBVIOUS
<1>1. PICK t \in Attempts, r \in FirstAttempt : row = [u \in Attempts |-> IF u = t THEN r ELSE None]
  BY DEF Init
<1>2. \A u \in Known : ~IsTerminal(row[u])
  <2>1. Known \subseteq {t} /\ row[t] = r
    BY <1>1 DEF Known, Exists
  <2>2. ~IsTerminal(r)
    <3>1. CASE r = NewAttempt(1, None)
      BY <3>1 DEF NewAttempt, IsTerminal, Closed
    <3>2. CASE r = [NewAttempt(1, None) EXCEPT !.status = "PROOF_CAPTURED",
                        !.assignment = "ACKNOWLEDGED", !.packaging = "GOOD"]
      BY <3>2 DEF NewAttempt, IsTerminal, Closed
    <3>. QED  BY <3>1, <3>2 DEF FirstAttempt
  <2>. QED  BY <2>1, <2>2
<1>3. history = {} /\ answers = {}
  BY DEF Init
<1>. QED  BY <1>2, <1>3 DEF RecordInv, HistoryIsComplete, HistoryKnown, AnswersOnRecord

LEMMA RecordStep == IInv /\ RecordInv /\ [Next]_vars => RecordInv'
<1> SUFFICES ASSUME IInv, RecordInv, [Next]_vars PROVE RecordInv'
  OBVIOUS
<1>0. TypeOK
  BY DEF IInv
<1>1. ASSUME UNCHANGED <<row, history, recoveryKeys, answers>> PROVE RecordInv'
  BY <1>0, <1>1, RecordsKept DEF Known, Exists
<1>2. ASSUME NEW q \in Requests, DriverStep(q) PROVE RecordInv'
  <2>1. PICK new : Step(q, new) /\ Gentle(request[q].seen, new)
    BY <1>2, DriverStepIsGentle
  <2>. QED  BY <1>0, <2>1, GentleRows, RecordsKept DEF Step
<1>3. ASSUME NEW q \in Requests, NEW k \in Keys, Accept(q, k) PROVE RecordInv'
  <2> DEFINE new == [request[q].seen EXCEPT !.accepted = TRUE]
  <2>1. Gentle(request[q].seen, new)
    BY <1>3, CurrentRow DEF Accept, Gentle, AttemptRow
  <2>2. /\ Current(q) /\ row' = [row EXCEPT ![request[q].task] = Written(new)]
        /\ UNCHANGED <<history, recoveryKeys, answers>>
    BY <1>3 DEF Accept
  <2> HIDE DEF new
  <2>. QED  BY <1>0, <2>1, <2>2, GentleRows, RecordsKept
<1>4. ASSUME NEW q \in Requests, NEW k \in Keys, "CANCEL" \in Recoveries, CancelPickup(q, k)
      PROVE  RecordInv'
  <2> DEFINE t == request[q].task
             w == Written([request[q].seen EXCEPT !.status = "CANCELLED"])
  <2>1. /\ Current(q) /\ IsOpen(request[q].seen) /\ recoveryKeys[k] = None
        /\ row' = [row EXCEPT ![t] = w]
        /\ history' = history \cup {[task |-> t, replacement |-> None, key |-> k]}
        /\ recoveryKeys' = [recoveryKeys EXCEPT ![k] =
                               [task |-> t, action |-> "CANCEL", result |-> t]]
        /\ answers' = answers \cup {[key |-> k, task |-> t, action |-> "CANCEL", result |-> t]}
    BY <1>4 DEF CancelPickup, Record, Answer
  <2>2. /\ t \in Known /\ t \in Attempts /\ row[t] = request[q].seen /\ row[t] \in AttemptRow
        /\ ~IsTerminal(row[t]) /\ row[t].supersededBy = None
    BY <2>1, CurrentRow, OpenIsTip DEF Known, IInv, IsOpen
  <2>3. [row[t] EXCEPT !.status = "CANCELLED"] \in AttemptRow
    BY <2>2 DEF AttemptRow, Status, Closed
  <2>4. w \in AttemptRow /\ w # None /\ w.status = "CANCELLED" /\ w.supersededBy = None
    BY <2>2, <2>3, WrittenRow, NoneIsNoRow DEF AttemptRow
  <2> HIDE DEF w
  <2>5. /\ row'[t] = w /\ \A u \in Attempts : u # t => row'[u] = row[u]
        /\ Known' = Known
    BY <2>1, <2>2, <2>4 DEF IInv, TypeOK, Known, Exists
  <2>6. IsTerminal(row'[t]) /\ row'[t].supersededBy = None
    BY <2>4, <2>5 DEF IsTerminal, Closed
  <2> HIDE DEF t
  <2>7. \A u \in Known : u # t => row'[u] = row[u]
    BY <2>5 DEF Known
  <2>. QED  BY <1>4, <2>1, <2>2, <2>5, <2>6, <2>7, RecordsRecovery
<1>5. ASSUME NEW q \in Requests, NEW k \in Keys, NEW action \in Recoveries, Replace(q, k, action)
      PROVE  RecordInv'
  <2> DEFINE t == request[q].task
  <2>1. /\ t \in Known /\ IsOpen(row[t])
        /\ \E new \in Attempts \ Known :
              /\ Known' = Known \cup {new}
              /\ \A u \in Known : u # t => row'[u] = row[u]
              /\ row'[t].status = "SUPERSEDED" /\ row'[t].supersededBy = new
              /\ row'[new] = NewAttempt(row[t].attempt + 1, t)
              /\ history' = history \cup {[task |-> t, replacement |-> new, key |-> k]}
              /\ recoveryKeys' = [recoveryKeys EXCEPT ![k] =
                                    [task |-> t, action |-> action, result |-> new]]
              /\ answers' = answers \cup
                              {[key |-> k, task |-> t, action |-> action, result |-> new]}
    BY <1>5, ReplaceRows
  <2>2. PICK new \in Attempts \ Known :
              /\ Known' = Known \cup {new}
              /\ \A u \in Known : u # t => row'[u] = row[u]
              /\ row'[t].status = "SUPERSEDED" /\ row'[t].supersededBy = new
              /\ row'[new] = NewAttempt(row[t].attempt + 1, t)
              /\ history' = history \cup {[task |-> t, replacement |-> new, key |-> k]}
              /\ recoveryKeys' = [recoveryKeys EXCEPT ![k] =
                                    [task |-> t, action |-> action, result |-> new]]
              /\ answers' = answers \cup
                              {[key |-> k, task |-> t, action |-> action, result |-> new]}
    BY <2>1
  <2>3. recoveryKeys[k] = None
    BY <1>5 DEF Replace, Record
  <2>4. /\ ~IsTerminal(row[t]) /\ IsTerminal(row'[t]) /\ new # None
        /\ \A u \in Known' \ Known : ~IsTerminal(row'[u])
    BY <2>1, <2>2, AttemptConstants DEF IsOpen, IsTerminal, Closed, NewAttempt
  <2> HIDE DEF t
  <2>. QED  BY <2>1, <2>2, <2>3, <2>4, RecordsRecovery
<1>6. ASSUME NEW k \in Keys, NEW t \in Attempts, NEW a \in Recoveries, ReplayRecovery(k, t, a)
      PROVE  RecordInv'
  <2>1. /\ UNCHANGED <<row, history, recoveryKeys>> /\ recoveryKeys[k] # None
        /\ recoveryKeys[k].task = t /\ recoveryKeys[k].action = a
        /\ answers' = answers \cup
              {[key |-> k, task |-> t, action |-> a, result |-> recoveryKeys[k].result]}
    BY <1>6 DEF ReplayRecovery, Answer, db
  <2>2. recoveryKeys[k] = [task |-> t, action |-> a, result |-> recoveryKeys[k].result]
    BY <1>0, <2>1 DEF TypeOK, KeyRecord
  <2>3. AnswersOnRecord'
    <3> SUFFICES ASSUME NEW b \in answers'
                 PROVE  recoveryKeys[b.key] =
                           [task |-> b.task, action |-> b.action, result |-> b.result]
      BY <2>1, Zenon DEF AnswersOnRecord
    <3>1. CASE b \in answers
      BY <3>1, Zenon DEF RecordInv, AnswersOnRecord
    <3>2. CASE b = [key |-> k, task |-> t, action |-> a, result |-> recoveryKeys[k].result]
      BY <2>2, <3>2
    <3>. QED  BY <2>1, <3>1, <3>2
  <2>4. HistoryIsComplete' /\ HistoryKnown'
    BY <2>1 DEF RecordInv, HistoryIsComplete, HistoryKnown, Known, Exists
  <2>. QED  BY <2>3, <2>4 DEF RecordInv
<1>7. ASSUME NEW q \in Requests, Begin(q) \/ GiveUp(q) PROVE RecordInv'
  BY <1>1, <1>7 DEF Begin, GiveUp, db
<1>8. CASE UNCHANGED vars
  BY <1>1, <1>8 DEF vars, db
<1>. QED  BY <1>2, <1>3, <1>4, <1>5, <1>6, <1>7, <1>8 DEF Next, Recovery

\* The records of operations agree with the attempts and with the answers.
THEOREM RecordInvariant == Spec => [](IInv /\ RecordInv)
<1>. QED  BY InitHolds, StepHolds, RecordInit, RecordStep, PTL DEF Spec

\* One history entry for each attempt a recovery closed, and none besides,
\* for any number of attempts, requests and keys.
THEOREM HistoryTellsAll == Spec => []HistoryIsComplete
<1>1. RecordInv => HistoryIsComplete
  BY DEF RecordInv
<1>. QED  BY <1>1, RecordInvariant, PTL

\* A recovery key answers one command, always with the same result.
THEOREM KeysAnswerOnce == Spec => []KeyAnswersOneCommand
<1>1. IInv /\ RecordInv => KeyAnswersOneCommand
  <2> SUFFICES ASSUME IInv, RecordInv, NEW a \in answers, NEW b \in answers, a.key = b.key
               PROVE  a = b
    BY DEF KeyAnswersOneCommand
  <2>1. [task |-> a.task, action |-> a.action, result |-> a.result]
           = [task |-> b.task, action |-> b.action, result |-> b.result]
    BY DEF RecordInv, AnswersOnRecord
  <2>2. a.task = b.task /\ a.action = b.action /\ a.result = b.result
    BY <2>1
  <2>. QED  BY <2>2 DEF IInv, TypeOK
<1>. QED  BY <1>1, RecordInvariant, PTL

-----------------------------------------------------------------------------
(* Stop outcomes *)

LEMMA StopStep ==
    ASSUME IInv, [Next]_vars, NEW t \in Known, row[t].stop # None
    PROVE  row'[t].stop = row[t].stop
<1>1. ASSUME NEW q \in Requests, DriverStep(q) PROVE row'[t].stop = row[t].stop
  <2>1. PICK new : Step(q, new) /\ Gentle(request[q].seen, new)
    BY <1>1, DriverStepIsGentle
  <2>. QED  BY <2>1, GentleRows DEF Step
<1>2. ASSUME NEW q \in Requests, NEW k \in Keys, Accept(q, k) PROVE row'[t].stop = row[t].stop
  <2> DEFINE new == [request[q].seen EXCEPT !.accepted = TRUE]
  <2>1. Gentle(request[q].seen, new)
    BY <1>2, CurrentRow DEF Accept, Gentle, AttemptRow
  <2>2. Current(q) /\ row' = [row EXCEPT ![request[q].task] = Written(new)]
    BY <1>2 DEF Accept
  <2> HIDE DEF new
  <2>. QED  BY <2>1, <2>2, GentleRows
<1>3. ASSUME NEW q \in Requests, NEW w, Current(q), w.stop = request[q].seen.stop,
             row'[request[q].task] = w,
             \A u \in Known : u # request[q].task => row'[u] = row[u]
      PROVE  row'[t].stop = row[t].stop
  BY <1>3, CurrentRow
<1>4. ASSUME NEW q \in Requests, NEW k \in Keys, CancelPickup(q, k)
      PROVE  row'[t].stop = row[t].stop
  <2> DEFINE w == Written([request[q].seen EXCEPT !.status = "CANCELLED"])
  <2>1. Current(q) /\ row' = [row EXCEPT ![request[q].task] = w]
    BY <1>4 DEF CancelPickup
  <2>2. w.stop = request[q].seen.stop
    BY <2>1, CurrentRow DEF Written, AttemptRow
  <2> HIDE DEF w
  <2>3. /\ row'[request[q].task] = w
        /\ \A u \in Known : u # request[q].task => row'[u] = row[u]
    BY <2>1, CurrentRow DEF IInv, TypeOK, Known
  <2>. QED  BY <1>3, <2>1, <2>2, <2>3
<1>5. ASSUME NEW q \in Requests, NEW k \in Keys, NEW action \in Recoveries, Replace(q, k, action)
      PROVE  row'[t].stop = row[t].stop
  <2>1. PICK new \in Attempts :
           /\ ~Exists(new)
           /\ row' = [row EXCEPT
                 ![request[q].task] = Written([request[q].seen EXCEPT
                     !.status = "SUPERSEDED", !.supersededBy = new]),
                 ![new] = NewAttempt(request[q].seen.attempt + 1, request[q].task)]
    BY <1>5 DEF Replace
  <2> DEFINE w == Written([request[q].seen EXCEPT !.status = "SUPERSEDED", !.supersededBy = new])
  <2>2. Current(q)
    BY <1>5 DEF Replace
  <2>3. w.stop = request[q].seen.stop
    BY <2>2, CurrentRow DEF Written, AttemptRow
  <2> HIDE DEF w
  <2>4. /\ row'[request[q].task] = w
        /\ \A u \in Known : u # request[q].task => row'[u] = row[u]
    BY <2>1, <2>2, CurrentRow DEF IInv, TypeOK, Known, w
  <2>. QED  BY <1>3, <2>2, <2>3, <2>4
<1>6. CASE UNCHANGED row
  BY <1>6
<1>. QED  BY <1>1, <1>2, <1>4, <1>5, <1>6 DEF Next, Recovery, Begin, GiveUp, ReplayRecovery, vars, db

\* The outcome a stop recorded is kept, whatever races with it.
THEOREM StopOutcomesLast == Spec => StopOutcomeIsKept
<1>1. IInv /\ [Next]_vars =>
         [\A t \in Known : row[t].stop # None => row'[t].stop = row[t].stop]_vars
  BY StopStep
<1>. QED  BY <1>1, AttemptInvariant, PTL DEF Spec, StopOutcomeIsKept

\* Chain, history and keys agree, for any number of racing recoveries.
THEOREM RecoveriesAlwaysAgree == Spec => []RecoveriesAgree
<1>1. LineageIsAChain /\ HistoryIsComplete /\ KeyAnswersOneCommand => RecoveriesAgree
  BY DEF RecoveriesAgree
<1>. QED  BY <1>1, AttemptsFormAChain, HistoryTellsAll, KeysAnswerOnce, PTL

\* No later write takes back an acceptance or a stop outcome.
THEOREM RecordedForGood == Spec => NothingIsTakenBack
  BY AcceptanceIsFinal, StopOutcomesLast DEF NothingIsTakenBack

-----------------------------------------------------------------------------
(* Sets *)

LEMMA LeastNumber ==
    ASSUME NEW S, \A i \in S : i \in Nat, S # {}
    PROVE  \E i \in S : \A j \in S : ~ (j < i)
<1>1. IsWellFoundedOn(OpToRel(<, Nat), Nat)
  BY NatLessThanWellFounded
<1>2. S \subseteq Nat
  OBVIOUS
<1>3. PICK i \in S : \A j \in S : ~ (<<j, i>> \in OpToRel(<, Nat))
  BY <1>1, <1>2, WFMin
<1>4. ASSUME NEW j \in S PROVE ~ (j < i)
  BY <1>3 DEF OpToRel
<1>. QED  BY <1>4

LEMMA OneMember ==
    ASSUME NEW S, NEW x \in S, \A y \in S : y = x
    PROVE  Cardinality(S) = 1
<1>1. S = {x}
  OBVIOUS
<1>. QED  BY <1>1, FS_Singleton

LEMMA AtMostOne ==
    ASSUME NEW S, \A x, y \in S : x = y
    PROVE  Cardinality(S) <= 1
<1>1. CASE S = {}
  BY <1>1, FS_EmptySet
<1>2. CASE S # {}
  <2>1. PICK x \in S : TRUE
    BY <1>2
  <2>2. Cardinality(S) = 1
    BY <2>1, OneMember
  <2>. QED  BY <2>2
<1>. QED  BY <1>1, <1>2

-----------------------------------------------------------------------------
(* The courier ceremony.  Issuing and submitting close what is open, and an *)
(* acceptance needs the task as it was read, not yet accepted: so at most   *)
(* one challenge and one manifest are open, and nothing is burnt before     *)
(* the acceptance or after it.                                              *)

LEMMA OneFree ==
    ASSUME NEW ids, \A i \in ids : i \in Nat, NEW r, Ceremony!Free(r, ids)
    PROVE  Ceremony!NextFree(r, ids) \in ids /\ r[Ceremony!NextFree(r, ids)] = None
<1>. DEFINE S == {i \in ids : r[i] = None}
<1>1. S # {} /\ \A i \in S : i \in Nat
  BY DEF Ceremony!Free
<1>2. PICK i \in S : \A j \in S : ~ (j < i)
  <2>. HIDE DEF S
  <2>. QED  BY <1>1, LeastNumber
<1>3. \E k \in ids : r[k] = None /\ \A j \in ids : j < k => r[j] # None
  BY <1>2
<1>. QED  BY <1>3 DEF Ceremony!NextFree

LEMMA CeremonyFacts ==
    /\ 0 \in 0 .. MaxGuesses
    /\ \A n \in 0 .. MaxGuesses : n # MaxGuesses => n + 1 \in 0 .. MaxGuesses
    /\ \A n \in 0 .. MaxGuesses : ~ (n < MaxGuesses) => n = MaxGuesses
    /\ None \notin Ceremony!ChallengeRow /\ None \notin Ceremony!ManifestRow
    /\ \A sender \in Senders : sender # None
    /\ \A id \in Identifiers : id # None
<1>1. MaxGuesses \in Nat
  BY CeremonyConstants
<1>2. /\ None \notin Ceremony!ChallengeRow /\ None \notin Ceremony!ManifestRow
      /\ \A sender \in Senders : sender # None
      /\ \A id \in Identifiers : id # None
  BY CeremonyConstants
<1>. QED  BY <1>1, <1>2

\* A verification names its verifier and is never locked.
ChallengesAreSound ==
    /\ \A c, d \in Ceremony!OpenChallenges : c = d
    /\ \A c \in Challenges : cChallenge[c] # None =>
          /\ cChallenge[c].status \in {"VERIFIED", "CONSUMED"} => cChallenge[c].verifier # None
          /\ cChallenge[c].status = "VERIFIED" => ~cChallenge[c].locked

ManifestsAreSound == \A m, n \in Ceremony!OpenManifests : m = n

BurntChallenges == Ceremony!Burnt(cChallenge, Challenges)
BurntManifests  == Ceremony!Burnt(cManifest, Manifests)

NothingBurnt == BurntChallenges = {} /\ BurntManifests = {}

BurntOnce ==
    /\ \E c \in BurntChallenges : \A d \in BurntChallenges : d = c
    /\ \E m \in BurntManifests : /\ \A n \in BurntManifests : n = m
                                 /\ cManifest[m].digest = cTask.accepted

CeremonyInv ==
    /\ Ceremony!TypeOK
    /\ ChallengesAreSound /\ ManifestsAreSound
    /\ IF cTask.accepted = None THEN NothingBurnt ELSE BurntOnce

\* The modules of the parts count as this one does.
LEMMA CountOfCeremony == \A S : Ceremony!Cardinality(S) = Cardinality(S)
  BY Zenon DEF Ceremony!Cardinality, Cardinality, Ceremony!IsFiniteSet, IsFiniteSet

LEMMA CeremonyTells == CeremonyInv => Ceremony!OneCeremonyOneAcceptance
<1>. SUFFICES ASSUME CeremonyInv PROVE Ceremony!OneCeremonyOneAcceptance
  OBVIOUS
<1>1. Cardinality(BurntChallenges) = IF cTask.accepted = None THEN 0 ELSE 1
  <2>1. CASE cTask.accepted = None
    BY <2>1, FS_EmptySet DEF CeremonyInv, NothingBurnt
  <2>2. CASE cTask.accepted # None
    <3>1. PICK c \in BurntChallenges : \A d \in BurntChallenges : d = c
      BY <2>2 DEF CeremonyInv, BurntOnce
    <3>. QED  BY <2>2, <3>1, OneMember
  <2>. QED  BY <2>1, <2>2
<1>2. Cardinality(BurntManifests) = IF cTask.accepted = None THEN 0 ELSE 1
  <2>1. CASE cTask.accepted = None
    BY <2>1, FS_EmptySet DEF CeremonyInv, NothingBurnt
  <2>2. CASE cTask.accepted # None
    <3>1. PICK m \in BurntManifests : \A n \in BurntManifests : n = m
      BY <2>2 DEF CeremonyInv, BurntOnce
    <3>. QED  BY <2>2, <3>1, OneMember
  <2>. QED  BY <2>1, <2>2
<1>3. \A c \in BurntChallenges : cChallenge[c].verifier # None
  BY DEF CeremonyInv, ChallengesAreSound, BurntChallenges, Ceremony!Burnt
<1>4. \A m \in BurntManifests : cManifest[m].digest = cTask.accepted
  BY DEF CeremonyInv, NothingBurnt, BurntOnce
<1>5. Cardinality(Ceremony!OpenChallenges) <= 1 /\ Cardinality(Ceremony!OpenManifests) <= 1
  BY AtMostOne DEF CeremonyInv, ChallengesAreSound, ManifestsAreSound
<1>6. /\ Cardinality(Ceremony!Burnt(cChallenge, Challenges)) = IF cTask.accepted = None THEN 0 ELSE 1
      /\ Cardinality(Ceremony!Burnt(cManifest, Manifests)) = IF cTask.accepted = None THEN 0 ELSE 1
  BY <1>1, <1>2 DEF BurntChallenges, BurntManifests
<1>7. /\ \A c \in Ceremony!Burnt(cChallenge, Challenges) : cChallenge[c].verifier # None
      /\ \A m \in Ceremony!Burnt(cManifest, Manifests) : cManifest[m].digest = cTask.accepted
  BY <1>3, <1>4 DEF BurntChallenges, BurntManifests
<1>. QED  BY <1>5, <1>6, <1>7, CountOfCeremony DEF Ceremony!OneCeremonyOneAcceptance

LEMMA CeremonyInit == Ceremony!Init => CeremonyInv
<1>. SUFFICES ASSUME Ceremony!Init PROVE CeremonyInv
  OBVIOUS
<1>1. /\ cTask = [status |-> "ARRIVED", scanned |-> None, accepted |-> None]
      /\ cChallenge = [c \in Challenges |-> None]
      /\ cManifest = [m \in Manifests |-> None]
      /\ cRequest = [r \in Requests |-> None]
  BY DEF Ceremony!Init
<1>2. Ceremony!TypeOK
  BY <1>1 DEF Ceremony!TypeOK, Ceremony!TaskRow
<1>3. ChallengesAreSound /\ ManifestsAreSound
  BY <1>1 DEF ChallengesAreSound, ManifestsAreSound, Ceremony!OpenChallenges, Ceremony!OpenManifests
<1>4. cTask.accepted = None /\ NothingBurnt
  BY <1>1 DEF NothingBurnt, BurntChallenges, BurntManifests, Ceremony!Burnt
<1>. QED  BY <1>2, <1>3, <1>4 DEF CeremonyInv

\* What a request that is answered leaves of the requests.
LEMMA CeremonyAnswered ==
    ASSUME CeremonyInv, NEW r \in Requests, Ceremony!Answered(r)
    PROVE  cRequest' \in [Requests -> Ceremony!TaskRow \cup {None}]
  BY DEF Ceremony!Answered, CeremonyInv, Ceremony!TypeOK

\* The task changes and is not accepted by it.
LEMMA TaskMoves ==
    ASSUME CeremonyInv, NEW new \in Ceremony!TaskRow, cTask' = new,
           new.accepted = cTask.accepted, UNCHANGED <<cChallenge, cManifest, cRequest>>
    PROVE  CeremonyInv'
<1>1. Ceremony!TypeOK'
  BY DEF CeremonyInv, Ceremony!TypeOK
<1>2. ChallengesAreSound' /\ ManifestsAreSound'
  BY DEF CeremonyInv, ChallengesAreSound, ManifestsAreSound, Ceremony!OpenChallenges,
         Ceremony!OpenManifests
<1>3. (IF cTask.accepted = None THEN NothingBurnt ELSE BurntOnce)'
  BY DEF CeremonyInv, NothingBurnt, BurntOnce, BurntChallenges, BurntManifests, Ceremony!Burnt
<1>. QED  BY <1>1, <1>2, <1>3 DEF CeremonyInv

\* Challenges change, none is burnt by it.
LEMMA ChallengesMove ==
    ASSUME CeremonyInv, UNCHANGED <<cTask, cManifest>>,
           cRequest' \in [Requests -> Ceremony!TaskRow \cup {None}],
           cChallenge' \in [Challenges -> Ceremony!ChallengeRow \cup {None}],
           ChallengesAreSound',
           \A c \in Challenges :
              (cChallenge'[c] # None /\ cChallenge'[c].status = "CONSUMED")
              <=> (cChallenge[c] # None /\ cChallenge[c].status = "CONSUMED")
    PROVE  CeremonyInv'
<1>1. Ceremony!TypeOK'
  BY DEF CeremonyInv, Ceremony!TypeOK
<1>2. ManifestsAreSound'
  BY DEF CeremonyInv, ManifestsAreSound, Ceremony!OpenManifests
<1>3. BurntChallenges' = BurntChallenges /\ BurntManifests' = BurntManifests
  BY DEF BurntChallenges, BurntManifests, Ceremony!Burnt
<1>4. (IF cTask.accepted = None THEN NothingBurnt ELSE BurntOnce)'
  BY <1>3 DEF CeremonyInv, NothingBurnt, BurntOnce
<1>. QED  BY <1>1, <1>2, <1>4 DEF CeremonyInv

\* Manifests change, none is burnt by it and none of another parcel appears.
LEMMA ManifestsMove ==
    ASSUME CeremonyInv, UNCHANGED <<cTask, cChallenge>>,
           cRequest' \in [Requests -> Ceremony!TaskRow \cup {None}],
           cManifest' \in [Manifests -> Ceremony!ManifestRow \cup {None}],
           ManifestsAreSound',
           \A m \in Manifests :
              /\ (cManifest'[m] # None /\ cManifest'[m].status = "CONSUMED")
                 <=> (cManifest[m] # None /\ cManifest[m].status = "CONSUMED")
              /\ cManifest[m] # None => cManifest'[m].digest = cManifest[m].digest
    PROVE  CeremonyInv'
<1>1. Ceremony!TypeOK'
  BY DEF CeremonyInv, Ceremony!TypeOK
<1>2. ChallengesAreSound'
  BY DEF CeremonyInv, ChallengesAreSound, Ceremony!OpenChallenges
<1>3. BurntChallenges' = BurntChallenges /\ BurntManifests' = BurntManifests
  BY DEF BurntChallenges, BurntManifests, Ceremony!Burnt
<1>4. \A m \in BurntManifests : cManifest'[m].digest = cManifest[m].digest
  BY DEF BurntManifests, Ceremony!Burnt
<1>5. (IF cTask.accepted = None THEN NothingBurnt ELSE BurntOnce)'
  BY <1>3, <1>4 DEF CeremonyInv, NothingBurnt, BurntOnce
<1>. QED  BY <1>1, <1>2, <1>5 DEF CeremonyInv

-----------------------------------------------------------------------------
(* The steps of a ceremony *)

LEMMA IssueKeeps ==
    ASSUME CeremonyInv, NEW r \in Requests, Ceremony!IssueChallenge(r)
    PROVE  CeremonyInv'
<1>. DEFINE k == Ceremony!NextFree(cChallenge, Challenges)
            new == [status |-> "ISSUED", verifier |-> None, guesses |-> 0,
                    locked |-> FALSE, lapsed |-> FALSE]
            dead(c) == [cChallenge[c] EXCEPT !.status = "INVALIDATED"]
<1>1. /\ UNCHANGED <<cTask, cManifest>>
      /\ cRequest' \in [Requests -> Ceremony!TaskRow \cup {None}]
  BY CeremonyAnswered DEF Ceremony!IssueChallenge
<1>2. k \in Challenges /\ cChallenge[k] = None
  <2>1. \A c \in Challenges : c \in Nat
    BY CeremonyConstants
  <2>. QED  BY <2>1, OneFree DEF Ceremony!IssueChallenge
<1>3. /\ cChallenge' = [c \in Challenges |->
            IF c = k THEN new
            ELSE IF c \in Ceremony!OpenChallenges THEN dead(c) ELSE cChallenge[c]]
      /\ \A c \in Ceremony!OpenChallenges : cChallenge[c].status # "VERIFIED"
  BY DEF Ceremony!IssueChallenge, Ceremony!IsLiveVerified
<1>4. new \in Ceremony!ChallengeRow /\ new # None /\ new.status = "ISSUED"
  <2>1. 0 \in 0 .. MaxGuesses
    BY CeremonyFacts
  <2>2. new \in Ceremony!ChallengeRow /\ new.status = "ISSUED"
    BY <2>1 DEF Ceremony!ChallengeRow
  <2>. HIDE DEF new
  <2>. QED  BY <2>2, CeremonyFacts
<1>5. \A c \in Ceremony!OpenChallenges :
         /\ c \in Challenges /\ c # k
         /\ cChallenge[c] # None /\ cChallenge[c].status = "ISSUED"
         /\ dead(c) \in Ceremony!ChallengeRow /\ dead(c) # None
         /\ dead(c).status = "INVALIDATED"
  <2>. SUFFICES ASSUME NEW c \in Ceremony!OpenChallenges
                PROVE  /\ c \in Challenges /\ c # k
                       /\ cChallenge[c] # None /\ cChallenge[c].status = "ISSUED"
                       /\ dead(c) \in Ceremony!ChallengeRow /\ dead(c) # None
                       /\ dead(c).status = "INVALIDATED"
    OBVIOUS
  <2>1. c \in Challenges /\ cChallenge[c] # None /\ cChallenge[c].status = "ISSUED" /\ c # k
    BY <1>2, <1>3 DEF Ceremony!OpenChallenges
  <2>2. cChallenge[c] \in Ceremony!ChallengeRow
    BY <2>1 DEF CeremonyInv, Ceremony!TypeOK
  <2>3. dead(c) \in Ceremony!ChallengeRow /\ dead(c).status = "INVALIDATED"
    BY <2>2 DEF Ceremony!ChallengeRow
  <2>. QED  BY <2>1, <2>3, CeremonyFacts
<1>. HIDE DEF k, new, dead
<1>6. cChallenge \in [Challenges -> Ceremony!ChallengeRow \cup {None}]
  BY DEF CeremonyInv, Ceremony!TypeOK
<1>7. \A c \in Challenges :
         \/ c = k /\ cChallenge[c] = None /\ cChallenge'[c] = new
         \/ c # k /\ c \in Ceremony!OpenChallenges /\ cChallenge'[c] = dead(c)
         \/ c # k /\ c \notin Ceremony!OpenChallenges /\ cChallenge'[c] = cChallenge[c]
  BY <1>2, <1>3
<1>8. cChallenge' \in [Challenges -> Ceremony!ChallengeRow \cup {None}]
  BY <1>3, <1>4, <1>5, <1>6
<1>9. ChallengesAreSound'
  <2>1. \A c \in Challenges : cChallenge'[c] # None
           /\ cChallenge'[c].status \in {"ISSUED", "VERIFIED"} => c = k
    BY <1>4, <1>5, <1>7 DEF Ceremony!OpenChallenges
  <2>2. \A c, d \in Ceremony!OpenChallenges' : c = d
    BY <2>1 DEF Ceremony!OpenChallenges
  <2>3. \A c \in Challenges : cChallenge'[c] # None =>
           /\ cChallenge'[c].status \in {"VERIFIED", "CONSUMED"} => cChallenge'[c].verifier # None
           /\ cChallenge'[c].status = "VERIFIED" => ~cChallenge'[c].locked
    BY <1>4, <1>5, <1>7 DEF CeremonyInv, ChallengesAreSound
  <2>. QED  BY <2>2, <2>3 DEF ChallengesAreSound
<1>10. \A c \in Challenges :
          (cChallenge'[c] # None /\ cChallenge'[c].status = "CONSUMED")
          <=> (cChallenge[c] # None /\ cChallenge[c].status = "CONSUMED")
  BY <1>4, <1>5, <1>7
<1>. QED  BY <1>1, <1>8, <1>9, <1>10, ChallengesMove

\* One challenge changes: what it must be for the others' sake.
LEMMA OneChallengeMoves ==
    ASSUME CeremonyInv, UNCHANGED <<cTask, cManifest>>,
           cRequest' \in [Requests -> Ceremony!TaskRow \cup {None}],
           NEW c \in Ceremony!OpenChallenges, NEW new \in Ceremony!ChallengeRow,
           cChallenge' = [cChallenge EXCEPT ![c] = new],
           new.status # "CONSUMED",
           new.status = "VERIFIED" => new.verifier # None /\ ~new.locked
    PROVE  CeremonyInv'
<1>1. /\ c \in Challenges /\ cChallenge[c] # None
      /\ cChallenge[c].status \in {"ISSUED", "VERIFIED"}
      /\ cChallenge \in [Challenges -> Ceremony!ChallengeRow \cup {None}]
  BY DEF Ceremony!OpenChallenges, CeremonyInv, Ceremony!TypeOK
<1>2. cChallenge' \in [Challenges -> Ceremony!ChallengeRow \cup {None}]
  BY <1>1
<1>3. cChallenge'[c] = new /\ \A d \in Challenges : d # c => cChallenge'[d] = cChallenge[d]
  BY <1>1
<1>4. Ceremony!OpenChallenges' \subseteq Ceremony!OpenChallenges
  BY <1>3 DEF Ceremony!OpenChallenges
<1>5. ChallengesAreSound'
  <2>1. \A d, e \in Ceremony!OpenChallenges' : d = e
    BY <1>4 DEF CeremonyInv, ChallengesAreSound
  <2>2. \A d \in Challenges : cChallenge'[d] # None =>
           /\ cChallenge'[d].status \in {"VERIFIED", "CONSUMED"} => cChallenge'[d].verifier # None
           /\ cChallenge'[d].status = "VERIFIED" => ~cChallenge'[d].locked
    BY <1>3 DEF CeremonyInv, ChallengesAreSound
  <2>. QED  BY <2>1, <2>2 DEF ChallengesAreSound
<1>6. \A d \in Challenges :
         (cChallenge'[d] # None /\ cChallenge'[d].status = "CONSUMED")
         <=> (cChallenge[d] # None /\ cChallenge[d].status = "CONSUMED")
  BY <1>1, <1>3
<1>. QED  BY <1>2, <1>5, <1>6, ChallengesMove

LEMMA VerifyKeeps ==
    ASSUME CeremonyInv, NEW r \in Requests, NEW c \in Challenges, NEW right \in BOOLEAN,
           NEW sender \in Senders, Ceremony!VerifyChallenge(r, c, right, sender)
    PROVE  CeremonyInv'
<1>. DEFINE expired == [cChallenge[c] EXCEPT !.status = "EXPIRED"]
            new == CASE cChallenge[c].lapsed -> expired
                     [] ~cChallenge[c].lapsed /\ ~right -> Ceremony!Guessed(c)
                     [] OTHER -> Ceremony!VerifiedBy(c, sender)
<1>1. /\ UNCHANGED <<cTask, cManifest>>
      /\ cRequest' \in [Requests -> Ceremony!TaskRow \cup {None}]
  BY CeremonyAnswered DEF Ceremony!VerifyChallenge
<1>2. /\ cChallenge[c] # None /\ cChallenge[c].status = "ISSUED"
      /\ c \in Ceremony!OpenChallenges
  BY DEF Ceremony!VerifyChallenge, Ceremony!OpenChallenges
<1>3. cChallenge[c] \in Ceremony!ChallengeRow
  BY <1>2 DEF CeremonyInv, Ceremony!TypeOK
<1>4. cChallenge' = [cChallenge EXCEPT ![c] = new]
  <2>1. cChallenge \in [Challenges -> Ceremony!ChallengeRow \cup {None}]
    BY DEF CeremonyInv, Ceremony!TypeOK
  <2>. QED  BY <2>1 DEF Ceremony!VerifyChallenge
<1>5. expired \in Ceremony!ChallengeRow /\ expired.status = "EXPIRED"
  BY <1>3 DEF Ceremony!ChallengeRow
<1>6. Ceremony!Guessed(c) \in Ceremony!ChallengeRow /\ Ceremony!Guessed(c).status = "ISSUED"
  <2>. DEFINE count == IF cChallenge[c].guesses < MaxGuesses
                       THEN cChallenge[c].guesses + 1 ELSE MaxGuesses
  <2>1. cChallenge[c].guesses \in 0 .. MaxGuesses
    BY <1>3 DEF Ceremony!ChallengeRow
  <2>2. count \in 0 .. MaxGuesses
    BY <2>1, CeremonyFacts
  <2>3. Ceremony!Guessed(c) = [cChallenge[c] EXCEPT !.guesses = count,
                                                    !.locked = (count = MaxGuesses)]
    BY DEF Ceremony!Guessed
  <2>. HIDE DEF count
  <2>. QED  BY <1>2, <1>3, <2>2, <2>3 DEF Ceremony!ChallengeRow
<1>7. /\ Ceremony!VerifiedBy(c, sender) \in Ceremony!ChallengeRow
      /\ Ceremony!VerifiedBy(c, sender).status = "VERIFIED"
      /\ Ceremony!VerifiedBy(c, sender).verifier = sender /\ sender # None
      /\ ~Ceremony!VerifiedBy(c, sender).locked
  BY <1>3, CeremonyFacts DEF Ceremony!VerifiedBy, Ceremony!ChallengeRow
<1>8. new \in {expired, Ceremony!Guessed(c), Ceremony!VerifiedBy(c, sender)}
  OBVIOUS
<1>. HIDE DEF expired, new
<1>9. /\ new \in Ceremony!ChallengeRow /\ new.status # "CONSUMED"
      /\ new.status = "VERIFIED" => new.verifier # None /\ ~new.locked
  BY <1>5, <1>6, <1>7, <1>8
<1>. QED  BY <1>1, <1>2, <1>4, <1>9, OneChallengeMoves

LEMMA LapseKeeps ==
    ASSUME CeremonyInv, NEW c \in Challenges,
           Ceremony!ChallengeLapses(c) \/ Ceremony!LockoutEnds(c)
    PROVE  CeremonyInv'
<1>1. /\ UNCHANGED <<cTask, cManifest, cRequest>>
      /\ c \in Ceremony!OpenChallenges
      /\ cRequest' \in [Requests -> Ceremony!TaskRow \cup {None}]
  BY DEF Ceremony!ChallengeLapses, Ceremony!LockoutEnds, CeremonyInv, Ceremony!TypeOK
<1>2. /\ cChallenge[c] # None /\ cChallenge[c].status \in {"ISSUED", "VERIFIED"}
      /\ cChallenge[c].status = "VERIFIED" =>
            cChallenge[c].verifier # None /\ ~cChallenge[c].locked
  BY <1>1 DEF Ceremony!OpenChallenges, CeremonyInv, ChallengesAreSound
<1>3. cChallenge[c] \in Ceremony!ChallengeRow
  BY <1>2 DEF CeremonyInv, Ceremony!TypeOK
<1>4. CASE Ceremony!ChallengeLapses(c)
  <2>. DEFINE new == [cChallenge[c] EXCEPT !.lapsed = TRUE]
  <2>1. cChallenge' = [cChallenge EXCEPT ![c] = new]
    BY <1>4 DEF Ceremony!ChallengeLapses
  <2>2. /\ new \in Ceremony!ChallengeRow /\ new.status = cChallenge[c].status
        /\ new.verifier = cChallenge[c].verifier /\ new.locked = cChallenge[c].locked
    BY <1>3 DEF Ceremony!ChallengeRow
  <2>. HIDE DEF new
  <2>. QED  BY <1>1, <1>2, <2>1, <2>2, OneChallengeMoves
<1>5. CASE Ceremony!LockoutEnds(c)
  <2>. DEFINE new == [cChallenge[c] EXCEPT !.locked = FALSE]
  <2>1. cChallenge' = [cChallenge EXCEPT ![c] = new]
    BY <1>5 DEF Ceremony!LockoutEnds
  <2>2. /\ new \in Ceremony!ChallengeRow /\ new.status = cChallenge[c].status
        /\ new.verifier = cChallenge[c].verifier /\ ~new.locked
    BY <1>3 DEF Ceremony!ChallengeRow
  <2>. HIDE DEF new
  <2>. QED  BY <1>1, <1>2, <2>1, <2>2, OneChallengeMoves
<1>. QED  BY <1>4, <1>5

LEMMA SubmitKeeps ==
    ASSUME CeremonyInv, NEW r \in Requests, NEW id \in Identifiers,
           Ceremony!SubmitManifest(r, id)
    PROVE  CeremonyInv'
<1>. DEFINE k == Ceremony!NextFree(cManifest, Manifests)
            new == [status |-> "SUBMITTED", digest |-> id, lapsed |-> FALSE]
            dead(m) == [cManifest[m] EXCEPT !.status = "INVALIDATED"]
<1>1. /\ UNCHANGED <<cTask, cChallenge>>
      /\ cRequest' \in [Requests -> Ceremony!TaskRow \cup {None}]
  BY CeremonyAnswered DEF Ceremony!SubmitManifest
<1>2. k \in Manifests /\ cManifest[k] = None
  <2>1. \A m \in Manifests : m \in Nat
    BY CeremonyConstants
  <2>. QED  BY <2>1, OneFree DEF Ceremony!SubmitManifest
<1>3. cManifest' = [m \in Manifests |->
          IF m = k THEN new ELSE IF m \in Ceremony!OpenManifests THEN dead(m) ELSE cManifest[m]]
  BY DEF Ceremony!SubmitManifest
<1>4. new \in Ceremony!ManifestRow /\ new # None /\ new.status = "SUBMITTED"
  <2>1. new \in Ceremony!ManifestRow /\ new.status = "SUBMITTED"
    BY DEF Ceremony!ManifestRow
  <2>. HIDE DEF new
  <2>. QED  BY <2>1, CeremonyFacts
<1>5. \A m \in Ceremony!OpenManifests :
         /\ m \in Manifests /\ m # k
         /\ cManifest[m] # None /\ cManifest[m].status \in {"SUBMITTED", "CONFIRMED"}
         /\ dead(m) \in Ceremony!ManifestRow /\ dead(m) # None
         /\ dead(m).status = "INVALIDATED" /\ dead(m).digest = cManifest[m].digest
  <2>. SUFFICES ASSUME NEW m \in Ceremony!OpenManifests
                PROVE  /\ m \in Manifests /\ m # k
                       /\ cManifest[m] # None /\ cManifest[m].status \in {"SUBMITTED", "CONFIRMED"}
                       /\ dead(m) \in Ceremony!ManifestRow /\ dead(m) # None
                       /\ dead(m).status = "INVALIDATED" /\ dead(m).digest = cManifest[m].digest
    OBVIOUS
  <2>1. /\ m \in Manifests /\ m # k
        /\ cManifest[m] # None /\ cManifest[m].status \in {"SUBMITTED", "CONFIRMED"}
    BY <1>2 DEF Ceremony!OpenManifests
  <2>2. cManifest[m] \in Ceremony!ManifestRow
    BY <2>1 DEF CeremonyInv, Ceremony!TypeOK
  <2>3. /\ dead(m) \in Ceremony!ManifestRow /\ dead(m).status = "INVALIDATED"
        /\ dead(m).digest = cManifest[m].digest
    BY <2>2 DEF Ceremony!ManifestRow
  <2>. QED  BY <2>1, <2>3, CeremonyFacts
<1>. HIDE DEF k, new, dead
<1>6. cManifest \in [Manifests -> Ceremony!ManifestRow \cup {None}]
  BY DEF CeremonyInv, Ceremony!TypeOK
<1>7. \A m \in Manifests :
         \/ m = k /\ cManifest[m] = None /\ cManifest'[m] = new
         \/ m # k /\ m \in Ceremony!OpenManifests /\ cManifest'[m] = dead(m)
         \/ m # k /\ m \notin Ceremony!OpenManifests /\ cManifest'[m] = cManifest[m]
  BY <1>2, <1>3
<1>8. cManifest' \in [Manifests -> Ceremony!ManifestRow \cup {None}]
  BY <1>3, <1>4, <1>5, <1>6
<1>9. ManifestsAreSound'
  <2>1. \A m \in Manifests : cManifest'[m] # None
           /\ cManifest'[m].status \in {"SUBMITTED", "CONFIRMED"} => m = k
    BY <1>4, <1>5, <1>7 DEF Ceremony!OpenManifests
  <2>. QED  BY <2>1 DEF ManifestsAreSound, Ceremony!OpenManifests
<1>10. \A m \in Manifests :
          /\ (cManifest'[m] # None /\ cManifest'[m].status = "CONSUMED")
             <=> (cManifest[m] # None /\ cManifest[m].status = "CONSUMED")
          /\ cManifest[m] # None => cManifest'[m].digest = cManifest[m].digest
  BY <1>4, <1>5, <1>7
<1>. QED  BY <1>1, <1>8, <1>9, <1>10, ManifestsMove

\* One open manifest is confirmed, or its confirmation lapses.
LEMMA OneManifestMoves ==
    ASSUME CeremonyInv, UNCHANGED <<cTask, cChallenge>>,
           cRequest' \in [Requests -> Ceremony!TaskRow \cup {None}],
           NEW m \in Ceremony!OpenManifests, NEW new \in Ceremony!ManifestRow,
           cManifest' = [cManifest EXCEPT ![m] = new],
           new.status # "CONSUMED", new.digest = cManifest[m].digest
    PROVE  CeremonyInv'
<1>1. /\ m \in Manifests /\ cManifest[m] # None
      /\ cManifest[m].status \in {"SUBMITTED", "CONFIRMED"}
      /\ cManifest \in [Manifests -> Ceremony!ManifestRow \cup {None}]
  BY DEF Ceremony!OpenManifests, CeremonyInv, Ceremony!TypeOK
<1>2. cManifest' \in [Manifests -> Ceremony!ManifestRow \cup {None}]
  BY <1>1
<1>3. cManifest'[m] = new /\ \A n \in Manifests : n # m => cManifest'[n] = cManifest[n]
  BY <1>1
<1>4. ManifestsAreSound'
  <2>1. Ceremony!OpenManifests' \subseteq Ceremony!OpenManifests
    BY <1>3 DEF Ceremony!OpenManifests
  <2>. QED  BY <2>1 DEF CeremonyInv, ManifestsAreSound
<1>5. \A n \in Manifests :
         /\ (cManifest'[n] # None /\ cManifest'[n].status = "CONSUMED")
            <=> (cManifest[n] # None /\ cManifest[n].status = "CONSUMED")
         /\ cManifest[n] # None => cManifest'[n].digest = cManifest[n].digest
  BY <1>1, <1>3
<1>. QED  BY <1>2, <1>4, <1>5, ManifestsMove

LEMMA ConfirmKeeps ==
    ASSUME CeremonyInv, NEW m \in Manifests,
           \/ \E r \in Requests : Ceremony!ConfirmManifest(r, m)
           \/ Ceremony!ConfirmationLapses(m)
    PROVE  CeremonyInv'
<1>1. /\ UNCHANGED <<cTask, cChallenge>>
      /\ m \in Ceremony!OpenManifests
      /\ cRequest' \in [Requests -> Ceremony!TaskRow \cup {None}]
  <2>1. CASE Ceremony!ConfirmationLapses(m)
    BY <2>1 DEF Ceremony!ConfirmationLapses, CeremonyInv, Ceremony!TypeOK
  <2>2. CASE \E r \in Requests : Ceremony!ConfirmManifest(r, m)
    BY <2>2, CeremonyAnswered DEF Ceremony!ConfirmManifest
  <2>. QED  BY <2>1, <2>2
<1>2. /\ cManifest[m] \in Ceremony!ManifestRow
      /\ cManifest[m].status \in {"SUBMITTED", "CONFIRMED"}
  BY <1>1 DEF CeremonyInv, Ceremony!TypeOK, Ceremony!OpenManifests
<1>3. CASE \E r \in Requests : Ceremony!ConfirmManifest(r, m)
  <2>. DEFINE new == [cManifest[m] EXCEPT !.status = "CONFIRMED"]
  <2>1. cManifest' = [cManifest EXCEPT ![m] = new]
    BY <1>3 DEF Ceremony!ConfirmManifest
  <2>2. /\ new \in Ceremony!ManifestRow /\ new.status = "CONFIRMED"
        /\ new.digest = cManifest[m].digest
    BY <1>2 DEF Ceremony!ManifestRow
  <2>. HIDE DEF new
  <2>. QED  BY <1>1, <2>1, <2>2, OneManifestMoves
<1>4. CASE Ceremony!ConfirmationLapses(m)
  <2>. DEFINE new == [cManifest[m] EXCEPT !.lapsed = TRUE]
  <2>1. cManifest' = [cManifest EXCEPT ![m] = new]
    BY <1>4 DEF Ceremony!ConfirmationLapses
  <2>2. /\ new \in Ceremony!ManifestRow /\ new.status = cManifest[m].status
        /\ new.digest = cManifest[m].digest
    BY <1>2 DEF Ceremony!ManifestRow
  <2>. HIDE DEF new
  <2>. QED  BY <1>1, <1>2, <2>1, <2>2, OneManifestMoves
<1>. QED  BY <1>3, <1>4

\* The acceptance: it finds the task as its request read it, not accepted, so
\* nothing is burnt before, and it burns one challenge and one manifest.
LEMMA CeremonyAcceptKeeps ==
    ASSUME CeremonyInv, NEW r \in Requests, NEW id \in Identifiers, Ceremony!Accept(r, id)
    PROVE  CeremonyInv'
<1>1. PICK c \in Challenges, m \in Manifests :
         /\ Ceremony!ReadyForAcceptance(c, m, id)
         /\ cChallenge' = [cChallenge EXCEPT ![c].status = "CONSUMED"]
         /\ cManifest' = [cManifest EXCEPT ![m].status = "CONSUMED"]
  BY DEF Ceremony!Accept
<1>2. /\ cTask.accepted = None /\ cTask' = [cTask EXCEPT !.accepted = id]
      /\ cRequest' \in [Requests -> Ceremony!TaskRow \cup {None}]
  BY CeremonyAnswered DEF Ceremony!Accept, Ceremony!CeremonyOpen
<1>3. /\ c \in Ceremony!OpenChallenges /\ cChallenge[c] # None
      /\ cChallenge[c] \in Ceremony!ChallengeRow
      /\ cChallenge[c].status = "VERIFIED" /\ cChallenge[c].verifier # None
  BY <1>1 DEF Ceremony!ReadyForAcceptance, Ceremony!Verified, Ceremony!IsLiveVerified,
              Ceremony!OpenChallenges, CeremonyInv, ChallengesAreSound, Ceremony!TypeOK
<1>4. /\ m \in Ceremony!OpenManifests /\ cManifest[m] # None
      /\ cManifest[m] \in Ceremony!ManifestRow
      /\ cManifest[m].status = "CONFIRMED" /\ cManifest[m].digest = id
  BY <1>1 DEF Ceremony!ReadyForAcceptance, Ceremony!OpenManifests, CeremonyInv, Ceremony!TypeOK
<1>. DEFINE newC == [cChallenge[c] EXCEPT !.status = "CONSUMED"]
            newM == [cManifest[m] EXCEPT !.status = "CONSUMED"]
<1>5. /\ cChallenge' = [cChallenge EXCEPT ![c] = newC]
      /\ cManifest' = [cManifest EXCEPT ![m] = newM]
  BY <1>1
<1>6. /\ newC \in Ceremony!ChallengeRow /\ newC.status = "CONSUMED"
      /\ newC.verifier = cChallenge[c].verifier
  BY <1>3 DEF Ceremony!ChallengeRow
<1>7. newM \in Ceremony!ManifestRow /\ newM.status = "CONSUMED" /\ newM.digest = id
  BY <1>4 DEF Ceremony!ManifestRow
<1>. HIDE DEF newC, newM
<1>8. /\ cChallenge \in [Challenges -> Ceremony!ChallengeRow \cup {None}]
      /\ cManifest \in [Manifests -> Ceremony!ManifestRow \cup {None}]
      /\ cTask \in Ceremony!TaskRow
  BY DEF CeremonyInv, Ceremony!TypeOK
<1>9. newC # None /\ newM # None /\ id # None
  BY <1>6, <1>7, CeremonyFacts
<1>10. /\ cChallenge'[c] = newC /\ \A d \in Challenges : d # c => cChallenge'[d] = cChallenge[d]
       /\ cManifest'[m] = newM /\ \A n \in Manifests : n # m => cManifest'[n] = cManifest[n]
  BY <1>5, <1>8
<1>11. /\ cTask' \in Ceremony!TaskRow /\ cTask'.accepted = id
       /\ cChallenge' \in [Challenges -> Ceremony!ChallengeRow \cup {None}]
       /\ cManifest' \in [Manifests -> Ceremony!ManifestRow \cup {None}]
  <2>1. cTask' \in Ceremony!TaskRow /\ cTask'.accepted = id
    BY <1>2, <1>8 DEF Ceremony!TaskRow
  <2>2. cChallenge' \in [Challenges -> Ceremony!ChallengeRow \cup {None}]
    BY <1>5, <1>6, <1>8
  <2>3. cManifest' \in [Manifests -> Ceremony!ManifestRow \cup {None}]
    BY <1>5, <1>7, <1>8
  <2>. QED  BY <2>1, <2>2, <2>3
<1>12. Ceremony!TypeOK'
  BY <1>2, <1>11 DEF Ceremony!TypeOK
<1>13. ChallengesAreSound'
  <2>1. Ceremony!OpenChallenges' \subseteq Ceremony!OpenChallenges
    BY <1>6, <1>10 DEF Ceremony!OpenChallenges
  <2>2. \A d \in Challenges : cChallenge'[d] # None =>
           /\ cChallenge'[d].status \in {"VERIFIED", "CONSUMED"} => cChallenge'[d].verifier # None
           /\ cChallenge'[d].status = "VERIFIED" => ~cChallenge'[d].locked
    BY <1>3, <1>6, <1>10 DEF CeremonyInv, ChallengesAreSound
  <2>. QED  BY <2>1, <2>2 DEF CeremonyInv, ChallengesAreSound
<1>14. ManifestsAreSound'
  <2>1. Ceremony!OpenManifests' \subseteq Ceremony!OpenManifests
    BY <1>7, <1>10 DEF Ceremony!OpenManifests
  <2>. QED  BY <2>1 DEF CeremonyInv, ManifestsAreSound
<1>15. BurntOnce'
  <2>1. NothingBurnt
    BY <1>2 DEF CeremonyInv
  <2>2. c \in BurntChallenges' /\ \A d \in BurntChallenges' : d = c
    BY <2>1, <1>6, <1>9, <1>10 DEF NothingBurnt, BurntChallenges, Ceremony!Burnt
  <2>3. m \in BurntManifests' /\ \A n \in BurntManifests' : n = m
    BY <2>1, <1>7, <1>9, <1>10 DEF NothingBurnt, BurntManifests, Ceremony!Burnt
  <2>4. cManifest'[m].digest = cTask'.accepted
    BY <1>7, <1>10, <1>11
  <2>. QED  BY <2>2, <2>3, <2>4 DEF BurntOnce
<1>. QED  BY <1>9, <1>11, <1>12, <1>13, <1>14, <1>15 DEF CeremonyInv

LEMMA CeremonyStep == CeremonyInv /\ [Ceremony!Next]_cVars => CeremonyInv'
<1>. SUFFICES ASSUME CeremonyInv, [Ceremony!Next]_cVars PROVE CeremonyInv'
  OBVIOUS
<1>0. cTask \in Ceremony!TaskRow
  BY DEF CeremonyInv, Ceremony!TypeOK
<1>1. ASSUME NEW id \in Identifiers, Ceremony!Scan(id) PROVE CeremonyInv'
  <2>1. /\ cTask' = [cTask EXCEPT !.status = "SCANNED", !.scanned = id]
        /\ UNCHANGED <<cChallenge, cManifest, cRequest>>
    BY <1>1 DEF Ceremony!Scan
  <2>2. cTask' \in Ceremony!TaskRow /\ cTask'.accepted = cTask.accepted
    BY <1>0, <2>1 DEF Ceremony!TaskRow
  <2>. QED  BY <2>1, <2>2, TaskMoves
<1>2. ASSUME Ceremony!CaptureProof \/ Ceremony!CloseTask PROVE CeremonyInv'
  <2>1. PICK s \in {"PROOF_CAPTURED", "CLOSED"} :
           /\ cTask' = [cTask EXCEPT !.status = s]
           /\ UNCHANGED <<cChallenge, cManifest, cRequest>>
    BY <1>2 DEF Ceremony!CaptureProof, Ceremony!CloseTask
  <2>2. cTask' \in Ceremony!TaskRow /\ cTask'.accepted = cTask.accepted
    BY <1>0, <2>1 DEF Ceremony!TaskRow
  <2>. QED  BY <2>1, <2>2, TaskMoves
<1>3. ASSUME NEW r \in Requests, Ceremony!ReadTask(r) \/ Ceremony!Refused(r) PROVE CeremonyInv'
  <2>1. /\ cRequest' \in [Requests -> Ceremony!TaskRow \cup {None}]
        /\ UNCHANGED <<cTask, cChallenge, cManifest>>
    BY <1>0, <1>3, CeremonyAnswered
       DEF Ceremony!ReadTask, Ceremony!Refused, CeremonyInv, Ceremony!TypeOK
  <2>2. ChallengesAreSound'
    BY <2>1 DEF CeremonyInv, ChallengesAreSound, Ceremony!OpenChallenges
  <2>. QED  BY <2>1, <2>2, ChallengesMove DEF CeremonyInv, Ceremony!TypeOK
<1>4. CASE UNCHANGED cVars
  <2>1. /\ cRequest' \in [Requests -> Ceremony!TaskRow \cup {None}]
        /\ UNCHANGED <<cTask, cChallenge, cManifest>>
    BY <1>4 DEF cVars, CeremonyInv, Ceremony!TypeOK
  <2>2. ChallengesAreSound'
    BY <2>1 DEF CeremonyInv, ChallengesAreSound, Ceremony!OpenChallenges
  <2>. QED  BY <2>1, <2>2, ChallengesMove DEF CeremonyInv, Ceremony!TypeOK
<1>. QED
  BY <1>1, <1>2, <1>3, <1>4, IssueKeeps, VerifyKeeps, LapseKeeps, SubmitKeeps, ConfirmKeeps,
     CeremonyAcceptKeeps DEF Ceremony!Next

\* While an open challenge is verified and lapsed it is the only open one, and
\* neither a reissue, a secret nor an acceptance touches it.
LEMMA LapsedStays ==
    ASSUME CeremonyInv, [Ceremony!Next]_cVars,
           \E c \in Ceremony!OpenChallenges :
               cChallenge[c].status = "VERIFIED" /\ cChallenge[c].lapsed
    PROVE  UNCHANGED <<cChallenge, cTask.accepted>>
<1>. PICK c \in Ceremony!OpenChallenges :
         cChallenge[c].status = "VERIFIED" /\ cChallenge[c].lapsed
  OBVIOUS
<1>1. \A d \in Ceremony!OpenChallenges : d = c
  BY DEF CeremonyInv, ChallengesAreSound
<1>2. ~cChallenge[c].locked
  BY DEF CeremonyInv, ChallengesAreSound, Ceremony!OpenChallenges
<1>3. cTask \in Ceremony!TaskRow
  BY DEF CeremonyInv, Ceremony!TypeOK
<1>4. ASSUME NEW r \in Requests PROVE ~Ceremony!IssueChallenge(r)
  BY DEF Ceremony!IssueChallenge, Ceremony!IsLiveVerified
<1>5. ASSUME NEW r \in Requests, NEW d \in Challenges, NEW right \in BOOLEAN,
             NEW sender \in Senders
      PROVE  ~Ceremony!VerifyChallenge(r, d, right, sender)
  BY <1>1 DEF Ceremony!VerifyChallenge, Ceremony!OpenChallenges
<1>6. ASSUME NEW r \in Requests, NEW id \in Identifiers PROVE ~Ceremony!Accept(r, id)
  BY <1>1 DEF Ceremony!Accept, Ceremony!ReadyForAcceptance, Ceremony!Verified
<1>7. ASSUME NEW d \in Challenges PROVE ~Ceremony!ChallengeLapses(d) /\ ~Ceremony!LockoutEnds(d)
  BY <1>1, <1>2 DEF Ceremony!ChallengeLapses, Ceremony!LockoutEnds
<1>8. ASSUME \/ Ceremony!CaptureProof \/ Ceremony!CloseTask
             \/ \E id \in Identifiers : Ceremony!Scan(id)
      PROVE  UNCHANGED <<cChallenge, cTask.accepted>>
  BY <1>3, <1>8 DEF Ceremony!CaptureProof, Ceremony!CloseTask, Ceremony!Scan, Ceremony!TaskRow
<1>9. ASSUME NEW r \in Requests,
             \/ Ceremony!ReadTask(r) \/ Ceremony!Refused(r)
             \/ \E id \in Identifiers : Ceremony!SubmitManifest(r, id)
             \/ \E m \in Manifests : Ceremony!ConfirmManifest(r, m)
      PROVE  UNCHANGED <<cChallenge, cTask>>
  BY <1>9 DEF Ceremony!ReadTask, Ceremony!Refused, Ceremony!SubmitManifest,
              Ceremony!ConfirmManifest
<1>10. ASSUME NEW m \in Manifests, Ceremony!ConfirmationLapses(m)
       PROVE  UNCHANGED <<cChallenge, cTask>>
  BY <1>10 DEF Ceremony!ConfirmationLapses
<1>11. ASSUME UNCHANGED cVars PROVE UNCHANGED <<cChallenge, cTask>>
  BY <1>11 DEF cVars
<1>. QED
  BY <1>4, <1>5, <1>6, <1>7, <1>8, <1>9, <1>10, <1>11 DEF Ceremony!Next

-----------------------------------------------------------------------------
(* Driver sessions.  Nothing a pause or a resume remembers is trusted: the  *)
(* index refuses to open a session beside another.                          *)

DutyInv ==
    /\ Duty!TypeOK
    /\ \A s, t \in Duty!OpenSessions : s = t
    /\ \A s \in Sessions :
          dSession[s] # None /\ dSession[s].status = "ENDED" => dSession[s].ended
    /\ \A r \in Requests : dRequest[r] # None => dSession[dRequest[r].session] # None

LEMMA CountOfDuty == \A S : Duty!Cardinality(S) = Cardinality(S)
  BY Zenon DEF Duty!Cardinality, Cardinality, Duty!IsFiniteSet, IsFiniteSet

LEMMA DutyTells == DutyInv => Duty!OneOpenSession
<1>1. DutyInv => Cardinality(Duty!OpenSessions) <= 1
  BY AtMostOne DEF DutyInv
<1>. QED  BY <1>1, CountOfDuty DEF DutyInv, Duty!OneOpenSession

LEMMA DutyInit == Duty!Init => DutyInv
  BY DEF Duty!Init, DutyInv, Duty!TypeOK, Duty!OpenSessions

\* Sessions stay as they are: requests and workload are all that changes.
LEMMA WorkloadMoves ==
    ASSUME DutyInv, UNCHANGED dSession, dTies' \subseteq Duty!Ties,
           dRequest' \in [Requests -> Duty!Request \cup {None}],
           \A r \in Requests : dRequest'[r] # None => dSession[dRequest'[r].session] # None
    PROVE  DutyInv'
  BY DEF DutyInv, Duty!TypeOK, Duty!OpenSessions

\* One session is written.
LEMMA SessionMoves ==
    ASSUME DutyInv, UNCHANGED dTies,
           dRequest' \in [Requests -> Duty!Request \cup {None}],
           \A r \in Requests : dRequest'[r] # None => dRequest'[r] = dRequest[r],
           NEW s \in Sessions, NEW new \in Duty!SessionRow,
           dSession' = [dSession EXCEPT ![s] = new],
           new.status \in Duty!Open => Duty!OpenSessions \subseteq {s},
           new.status = "ENDED" => new.ended
    PROVE  DutyInv'
<1>1. dSession \in [Sessions -> Duty!SessionRow \cup {None}]
  BY DEF DutyInv, Duty!TypeOK
<1>2. dSession'[s] = new /\ \A t \in Sessions : t # s => dSession'[t] = dSession[t]
  BY <1>1
<1>3. new # None
  BY DutyConstants
<1>4. Duty!TypeOK'
  BY <1>1 DEF DutyInv, Duty!TypeOK
<1>5. \A t, u \in Duty!OpenSessions' : t = u
  <2>1. CASE new.status \in Duty!Open
    <3>1. \A t \in Duty!OpenSessions' : t = s
      BY <1>2, <2>1 DEF Duty!OpenSessions
    <3>. QED  BY <3>1
  <2>2. CASE new.status \notin Duty!Open
    <3>1. Duty!OpenSessions' \subseteq Duty!OpenSessions
      BY <1>2, <2>2 DEF Duty!OpenSessions
    <3>. QED  BY <3>1 DEF DutyInv
  <2>. QED  BY <2>1, <2>2
<1>6. \A t \in Sessions :
         dSession'[t] # None /\ dSession'[t].status = "ENDED" => dSession'[t].ended
  BY <1>2 DEF DutyInv
<1>7. \A r \in Requests : dRequest'[r] # None => dSession'[dRequest'[r].session] # None
  <2>1. \A r \in Requests : dRequest'[r] # None => dRequest[r].session \in Sessions
    BY DEF DutyInv, Duty!TypeOK, Duty!Request
  <2>. QED  BY <1>2, <1>3, <2>1 DEF DutyInv
<1>. QED  BY <1>4, <1>5, <1>6, <1>7 DEF DutyInv

LEMMA DutyRequests ==
    ASSUME DutyInv, NEW r \in Requests, dRequest' = [dRequest EXCEPT ![r] = None]
    PROVE  /\ dRequest' \in [Requests -> Duty!Request \cup {None}]
           /\ \A q \in Requests : dRequest'[q] # None => dRequest'[q] = dRequest[q]
  BY DEF DutyInv, Duty!TypeOK

LEMMA FinishKeeps ==
    ASSUME DutyInv, NEW r \in Requests, NEW kind \in Duty!Kinds,
           NEW status \in Duty!Open \cup {"ENDED"}, Duty!Finish(r, kind, status)
    PROVE  DutyInv'
<1>. DEFINE s == dRequest[r].session
            new == [status |-> status, ended |-> dSession[s].ended \/ status = "ENDED"]
<1>1. /\ dRequest[r] \in Duty!Request /\ dRequest[r] # None
      /\ UNCHANGED dTies /\ dRequest' = [dRequest EXCEPT ![r] = None]
  BY DEF Duty!Finish, DutyInv, Duty!TypeOK
<1>2. s \in Sessions /\ dSession[s] # None /\ dSession[s] \in Duty!SessionRow
  BY <1>1 DEF Duty!Request, DutyInv, Duty!TypeOK
<1>3. dSession' = [dSession EXCEPT ![s] = new] /\ (status \in Duty!Open => Duty!OpenSessions \subseteq {s})
  <2>1. dSession \in [Sessions -> Duty!SessionRow \cup {None}]
    BY DEF DutyInv, Duty!TypeOK
  <2>. QED  BY <2>1 DEF Duty!Finish, Duty!Write, Duty!OneOpenAfter
<1>4. /\ new \in Duty!SessionRow /\ new.status = status
      /\ new.status = "ENDED" => new.ended
  BY <1>2 DEF Duty!SessionRow
<1>. HIDE DEF new, s
<1>. QED  BY <1>1, <1>2, <1>3, <1>4, DutyRequests, SessionMoves

LEMMA DutyStep == DutyInv /\ [Duty!Next]_dVars => DutyInv'
<1>. SUFFICES ASSUME DutyInv, [Duty!Next]_dVars PROVE DutyInv'
  OBVIOUS
<1>0. /\ dSession \in [Sessions -> Duty!SessionRow \cup {None}]
      /\ dTies \subseteq Duty!Ties
      /\ dRequest \in [Requests -> Duty!Request \cup {None}]
      /\ \A r \in Requests : dRequest[r] # None => dSession[dRequest[r].session] # None
  BY DEF DutyInv, Duty!TypeOK
<1>1. ASSUME NEW s \in Sessions, Duty!Start(s) PROVE DutyInv'
  <2>. DEFINE new == [status |-> "ACTIVE", ended |-> FALSE]
  <2>1. /\ dSession' = [dSession EXCEPT ![s] = new]
        /\ Duty!OpenSessions \subseteq {s} /\ UNCHANGED <<dTies, dRequest>>
    BY <1>1 DEF Duty!Start
  <2>2. new \in Duty!SessionRow /\ new.status = "ACTIVE"
    BY DEF Duty!SessionRow, Duty!Open
  <2>. HIDE DEF new
  <2>. QED  BY <1>0, <2>1, <2>2, SessionMoves
<1>2. ASSUME NEW r \in Requests, NEW kind \in Duty!Kinds, NEW s \in Sessions,
             Duty!Begin(r, kind, s)
      PROVE  DutyInv'
  <2>. DEFINE new == [kind |-> kind, session |-> s, read |-> dSession[s],
                      cleared |-> kind = "RESUME"]
  <2>1. /\ UNCHANGED <<dSession, dTies>> /\ dRequest' = [dRequest EXCEPT ![r] = new]
        /\ dSession[s] # None /\ dSession[s] \in Duty!SessionRow
    BY <1>0, <1>2 DEF Duty!Begin
  <2>2. new \in Duty!Request /\ new.session = s
    BY <2>1 DEF Duty!Request
  <2>. HIDE DEF new
  <2>3. /\ dRequest' \in [Requests -> Duty!Request \cup {None}]
        /\ \A q \in Requests : dRequest'[q] # None => dSession[dRequest'[q].session] # None
    BY <1>0, <2>1, <2>2
  <2>. QED  BY <1>0, <2>1, <2>3, WorkloadMoves
<1>3. ASSUME NEW r \in Requests, Duty!CheckWorkload(r) PROVE DutyInv'
  <2>. DEFINE new == [dRequest[r] EXCEPT !.cleared = TRUE]
  <2>1. /\ UNCHANGED <<dSession, dTies>> /\ dRequest[r] # None
        /\ dRequest[r] \in Duty!Request
        /\ \/ dRequest' = [dRequest EXCEPT ![r] = new]
           \/ dRequest' = [dRequest EXCEPT ![r] = None]
    BY <1>0, <1>3 DEF Duty!CheckWorkload
  <2>2. new \in Duty!Request /\ new.session = dRequest[r].session
    BY <2>1 DEF Duty!Request
  <2>. HIDE DEF new
  <2>3. /\ dRequest' \in [Requests -> Duty!Request \cup {None}]
        /\ \A q \in Requests : dRequest'[q] # None => dSession[dRequest'[q].session] # None
    BY <1>0, <2>1, <2>2
  <2>. QED  BY <1>0, <2>1, <2>3, WorkloadMoves
<1>4. ASSUME NEW r \in Requests, Duty!Pause(r) \/ Duty!Resume(r) \/ Duty!End(r) PROVE DutyInv'
  BY <1>4, FinishKeeps DEF Duty!Pause, Duty!Resume, Duty!End, Duty!Kinds, Duty!Open
<1>5. ASSUME NEW r \in Requests, Duty!Abort(r) PROVE DutyInv'
  <2>1. UNCHANGED <<dSession, dTies>> /\ dRequest' = [dRequest EXCEPT ![r] = None]
    BY <1>5 DEF Duty!Abort
  <2>. QED  BY <1>0, <2>1, DutyRequests, WorkloadMoves
<1>6. ASSUME \/ Duty!Acknowledge \/ Duty!AcceptParcel \/ Duty!DropTask
             \/ Duty!DeclareManifest \/ \E received \in BOOLEAN : Duty!CloseManifest(received)
             \/ Duty!PreserveCapture \/ Duty!FillGap \/ Duty!ResolveCase
             \/ UNCHANGED dVars
      PROVE  DutyInv'
  <2>1. UNCHANGED <<dSession, dRequest>>
    BY <1>6 DEF Duty!Acknowledge, Duty!AcceptParcel, Duty!DropTask, Duty!DeclareManifest,
                Duty!CloseManifest, Duty!PreserveCapture, Duty!FillGap, Duty!ResolveCase,
                Duty!vars, dVars
  <2>2. dTies' \subseteq Duty!Ties
    BY <1>0, <1>6 DEF Duty!Acknowledge, Duty!AcceptParcel, Duty!DropTask, Duty!DeclareManifest,
                Duty!CloseManifest, Duty!PreserveCapture, Duty!FillGap, Duty!ResolveCase,
                Duty!vars, dVars, Duty!Ties, Duty!Unsynced
  <2>. QED  BY <1>0, <2>1, <2>2, WorkloadMoves
<1>. QED
  BY <1>1, <1>2, <1>3, <1>4, <1>5, <1>6 DEF Duty!Next

-----------------------------------------------------------------------------
(* Offline streams.  A sync works through a batch on a record of its own.   *)
(* InOrder is what holds of that record, and MovedOn what one capture may   *)
(* change of it; both pass from capture to capture, and to the database.    *)

WorkRecord ==
    [task: Offline!TaskRow, writes: Nat, last: [Streams -> Sequences \cup {0}],
     event: [Streams -> [Sequences -> Offline!EventRow \cup {None}]],
     case: [Streams -> [Sequences -> {"OPEN", "RESOLVED", None}]]]

\* Offline!StreamsKeepTheirOrder, of a record.
InOrder(w) ==
    /\ w \in WorkRecord
    /\ \A s \in Streams, n \in Sequences :
          /\ n <= w.last[s] => w.event[s][n] # None
          /\ w.event[s][n] # None =>
                /\ w.event[s][n].code = "SEQUENCE_GAP" <=> n > w.last[s]
                /\ w.event[s][n].status = "RECONCILIATION_REQUIRED" => w.case[s][n] # None
                /\ w.event[s][n].status = "APPLIED" =>
                      Offline!Rank[w.event[s][n].capture.operation] <= w.task.rank
    /\ \A s, t \in Streams : \A m, n \in Sequences :
          w.event[s][m] # None /\ w.event[t][n] # None
          /\ w.event[s][m].capture.id = w.event[t][n].capture.id => s = t /\ m = n

\* Offline!OutcomesAreFinal, from one record to a later one.
MovedOn(w, v) ==
    \A s \in Streams, n \in Sequences :
       /\ v.last[s] >= w.last[s]
       /\ w.event[s][n] # None =>
             \/ v.event[s][n] = w.event[s][n]
             \/ /\ w.event[s][n].code = "SEQUENCE_GAP" /\ w.last[s] < n /\ n <= v.last[s]
                /\ v.event[s][n].capture = w.event[s][n].capture /\ v.event[s][n] # None
       /\ w.case[s][n] # None => v.case[s][n] # None

LEMMA OfflineFacts ==
    /\ \A n \in Sequences : n \in Nat /\ n # 0
    /\ None \notin Offline!EventRow
    /\ None # "OPEN" /\ None # "RESOLVED" /\ None # "REJECTED" /\ None # "CASE"
    /\ None # "SEQUENCE_GAP"
    /\ \A op \in DOMAIN Offline!Rank : Offline!Rank[op] \in 1 .. 3
<1>1. \A n \in Sequences : n \in Nat /\ n # 0
  BY OfflineConstants
<1>2. /\ None \notin Offline!EventRow
      /\ None # "OPEN" /\ None # "RESOLVED" /\ None # "REJECTED" /\ None # "CASE"
      /\ None # "SEQUENCE_GAP"
  BY OfflineConstants
<1>3. \A op \in DOMAIN Offline!Rank : Offline!Rank[op] \in 1 .. 3
  BY DEF Offline!Rank
<1>. QED  BY <1>1, <1>2, <1>3

LEMMA PlaceOf ==
    ASSUME NEW w \in WorkRecord, NEW s \in Streams, NEW n \in Sequences
    PROVE  /\ w.last[s] \in Nat
           /\ w.event[s][n] \in Offline!EventRow \cup {None}
           /\ w.case[s][n] \in {"OPEN", "RESOLVED", None}
           /\ w.task.rank \in Nat
<1>1. /\ w.last \in [Streams -> Sequences \cup {0}]
      /\ w.event \in [Streams -> [Sequences -> Offline!EventRow \cup {None}]]
      /\ w.case \in [Streams -> [Sequences -> {"OPEN", "RESOLVED", None}]]
      /\ w.task \in Offline!TaskRow
  BY DEF WorkRecord
<1>2. w.task.rank \in Nat
  BY <1>1 DEF Offline!TaskRow
<1>3. w.last[s] \in Nat
  BY <1>1, OfflineFacts
<1>. QED  BY <1>1, <1>2, <1>3

LEMMA MovedOnSelf == ASSUME NEW w \in WorkRecord PROVE MovedOn(w, w)
  BY PlaceOf DEF MovedOn

LEMMA MovedOnTwice ==
    ASSUME NEW u \in WorkRecord, NEW w \in WorkRecord, NEW v \in WorkRecord,
           MovedOn(u, w), MovedOn(w, v)
    PROVE  MovedOn(u, v)
<1>. SUFFICES ASSUME NEW s \in Streams, NEW n \in Sequences
              PROVE  /\ v.last[s] >= u.last[s]
                     /\ u.event[s][n] # None =>
                           \/ v.event[s][n] = u.event[s][n]
                           \/ /\ u.event[s][n].code = "SEQUENCE_GAP"
                              /\ u.last[s] < n /\ n <= v.last[s]
                              /\ v.event[s][n].capture = u.event[s][n].capture
                              /\ v.event[s][n] # None
                     /\ u.case[s][n] # None => v.case[s][n] # None
  BY DEF MovedOn
<1>1. u.last[s] \in Nat /\ w.last[s] \in Nat /\ v.last[s] \in Nat /\ n \in Nat
  BY PlaceOf, OfflineFacts
<1>2. /\ w.last[s] >= u.last[s] /\ v.last[s] >= w.last[s]
      /\ u.case[s][n] # None => w.case[s][n] # None
      /\ w.case[s][n] # None => v.case[s][n] # None
  BY DEF MovedOn
<1>3. u.event[s][n] # None =>
         \/ w.event[s][n] = u.event[s][n]
         \/ /\ u.event[s][n].code = "SEQUENCE_GAP" /\ u.last[s] < n /\ n <= w.last[s]
            /\ w.event[s][n].capture = u.event[s][n].capture /\ w.event[s][n] # None
  BY DEF MovedOn
<1>4. w.event[s][n] # None =>
         \/ v.event[s][n] = w.event[s][n]
         \/ /\ w.event[s][n].code = "SEQUENCE_GAP" /\ w.last[s] < n /\ n <= v.last[s]
            /\ v.event[s][n].capture = w.event[s][n].capture /\ v.event[s][n] # None
  BY DEF MovedOn
<1>5. v.last[s] >= u.last[s]
  BY <1>1, <1>2
<1>6. ASSUME u.event[s][n] # None, v.event[s][n] # u.event[s][n]
      PROVE  /\ u.event[s][n].code = "SEQUENCE_GAP"
             /\ u.last[s] < n /\ n <= v.last[s]
             /\ v.event[s][n].capture = u.event[s][n].capture
             /\ v.event[s][n] # None
  <2>1. CASE w.event[s][n] = u.event[s][n]
    BY <1>1, <1>2, <1>4, <1>6, <2>1
  <2>2. CASE w.event[s][n] # u.event[s][n]
    <3>1. n <= w.last[s] /\ w.event[s][n] # None
      BY <1>3, <1>6, <2>2
    <3>2. v.event[s][n] = w.event[s][n]
      BY <1>1, <1>4, <3>1
    <3>. QED  BY <1>1, <1>2, <1>3, <1>6, <2>2, <3>1, <3>2
  <2>. QED  BY <2>1, <2>2
<1>. QED  BY <1>2, <1>5, <1>6

\* v is w with the capture filed at its place, and the position moved to it
\* when that was in turn.
Files(w, v, s, sub, entry, how) ==
    /\ v \in WorkRecord
    /\ \A t \in Streams, m \in Sequences :
          /\ v.event[t][m] = IF t = s /\ m = sub.sequence THEN entry ELSE w.event[t][m]
          /\ v.last[t] = IF t = s /\ how = "TURN" THEN sub.sequence ELSE w.last[t]
          /\ w.case[t][m] # None => v.case[t][m] # None
    /\ v.task.rank >= w.task.rank
    /\ entry.status = "RECONCILIATION_REQUIRED" => v.case[s][sub.sequence] # None
    /\ entry.status = "APPLIED" => Offline!Rank[sub.operation] <= v.task.rank

\* A place that is free, or a capture that came there early; an operation that
\* is not on record elsewhere.
MayFile(w, s, sub) ==
    /\ \/ w.event[s][sub.sequence] = None
       \/ /\ w.event[s][sub.sequence].code = "SEQUENCE_GAP"
          /\ w.event[s][sub.sequence].capture = sub
    /\ \A t \in Streams, m \in Sequences :
          w.event[t][m] # None /\ w.event[t][m].capture.id = sub.id
          => t = s /\ m = sub.sequence

\* A capture in turn moves the position; one that came early waits.
IsTurn(w, s, sub, entry, how) ==
    \/ how = "TURN" /\ sub.sequence = w.last[s] + 1 /\ entry.code # "SEQUENCE_GAP"
    \/ /\ how = "EARLY" /\ sub.sequence # w.last[s] + 1 /\ entry.code = "SEQUENCE_GAP"
       /\ w.event[s][sub.sequence] = None

\* Filing in turn, for the first time or at last, or early.
LEMMA FilingKeepsOrder ==
    ASSUME NEW w, InOrder(w), NEW v, NEW s \in Streams, NEW sub \in Offline!Submission,
           NEW entry \in Offline!EventRow, NEW how \in {"TURN", "EARLY"}, entry.capture = sub,
           Files(w, v, s, sub, entry, how),
           MayFile(w, s, sub), IsTurn(w, s, sub, entry, how)
    PROVE  InOrder(v) /\ MovedOn(w, v)
<1>. DEFINE n == sub.sequence
<1>0. /\ \/ w.event[s][sub.sequence] = None
         \/ /\ w.event[s][sub.sequence].code = "SEQUENCE_GAP"
            /\ w.event[s][sub.sequence].capture = sub
      /\ \A t \in Streams, m \in Sequences :
            w.event[t][m] # None /\ w.event[t][m].capture.id = sub.id
            => t = s /\ m = sub.sequence
      /\ IF how = "TURN" THEN sub.sequence = w.last[s] + 1 /\ entry.code # "SEQUENCE_GAP"
         ELSE sub.sequence # w.last[s] + 1 /\ entry.code = "SEQUENCE_GAP"
              /\ w.event[s][sub.sequence] = None
  BY DEF MayFile, IsTurn
<1>1. /\ n \in Sequences /\ sub.id \in Operations /\ sub.operation \in DOMAIN Offline!Rank
      /\ entry # None /\ n \in Nat /\ w.last[s] \in Nat
  BY PlaceOf, OfflineFacts DEF Offline!Submission, InOrder
<1>2. /\ v \in WorkRecord
      /\ \A t \in Streams, m \in Sequences :
            /\ m \in Nat /\ w.last[t] \in Nat /\ v.last[t] \in Nat
            /\ w.event[t][m] \in Offline!EventRow \cup {None}
      /\ w.task.rank \in Nat /\ v.task.rank \in Nat
  BY PlaceOf, OfflineFacts, <1>1 DEF Files, InOrder
<1>3. \A t \in Streams, m \in Sequences :
         /\ (t = s /\ m = n) => v.event[t][m] = entry
         /\ ~(t = s /\ m = n) => v.event[t][m] = w.event[t][m]
         /\ (t = s /\ how = "TURN") => v.last[t] = n
         /\ ~(t = s /\ how = "TURN") => v.last[t] = w.last[t]
         /\ w.case[t][m] # None => v.case[t][m] # None
  BY DEF Files
<1>4. n > w.last[s]
  BY <1>0, <1>1 DEF InOrder
<1>. HIDE DEF n
<1>5. ASSUME NEW t \in Streams, NEW m \in Sequences PROVE m <= v.last[t] => v.event[t][m] # None
  BY <1>0, <1>1, <1>2, <1>3, <1>4 DEF InOrder, n
<1>6. ASSUME NEW t \in Streams, NEW m \in Sequences, v.event[t][m] # None
      PROVE  /\ v.event[t][m].code = "SEQUENCE_GAP" <=> m > v.last[t]
             /\ v.event[t][m].status = "RECONCILIATION_REQUIRED" => v.case[t][m] # None
             /\ v.event[t][m].status = "APPLIED" =>
                   Offline!Rank[v.event[t][m].capture.operation] <= v.task.rank
  <2>1. CASE t = s /\ m = n
    <3>1. v.event[t][m] = entry
      BY <1>3, <2>1
    <3>2. entry.code = "SEQUENCE_GAP" <=> n > v.last[s]
      BY <1>0, <1>1, <1>2, <1>3, <1>4 DEF n
    <3>. QED  BY <2>1, <3>1, <3>2 DEF Files, n
  <2>2. CASE ~(t = s /\ m = n)
    <3>1. v.event[t][m] = w.event[t][m] /\ w.event[t][m] # None
      BY <1>3, <1>6, <2>2
    <3>2. /\ w.event[t][m].code = "SEQUENCE_GAP" <=> m > w.last[t]
          /\ w.event[t][m].status = "RECONCILIATION_REQUIRED" => w.case[t][m] # None
          /\ w.event[t][m].status = "APPLIED" =>
                Offline!Rank[w.event[t][m].capture.operation] <= w.task.rank
      BY <3>1 DEF InOrder
    <3>3. m > w.last[t] <=> m > v.last[t]
      BY <1>0, <1>1, <1>2, <1>3, <1>4, <2>2 DEF n
    <3>4. w.event[t][m].capture.operation \in DOMAIN Offline!Rank
      BY <1>2, <3>1 DEF Offline!EventRow, Offline!Submission
    <3>5. Offline!Rank[w.event[t][m].capture.operation] \in 1 .. 3
      BY <3>4, OfflineFacts
    <3>6. v.task.rank >= w.task.rank
      BY DEF Files
    <3>7. w.case[t][m] # None => v.case[t][m] # None
      BY <1>3
    <3>. QED  BY <1>2, <3>1, <3>2, <3>3, <3>5, <3>6, <3>7
  <2>. QED  BY <2>1, <2>2
<1>7. ASSUME NEW t \in Streams, NEW u \in Streams, NEW m \in Sequences, NEW k \in Sequences,
             v.event[t][m] # None, v.event[u][k] # None,
             v.event[t][m].capture.id = v.event[u][k].capture.id
      PROVE  t = u /\ m = k
  <2>0. \A x \in Streams, j \in Sequences :
           w.event[x][j] # None /\ w.event[x][j].capture.id = sub.id => x = s /\ j = n
    BY <1>0, Zenon DEF n
  <2>1. CASE t = s /\ m = n
    <3>1. v.event[u][k].capture.id = sub.id
      BY <1>3, <1>7, <2>1
    <3>2. ASSUME ~(u = s /\ k = n) PROVE FALSE
      <4>1. v.event[u][k] = w.event[u][k]
        BY <1>3, <3>2
      <4>. QED  BY <1>7, <2>0, <3>1, <3>2, <4>1
    <3>. QED  BY <2>1, <3>2
  <2>2. CASE u = s /\ k = n
    <3>1. v.event[t][m].capture.id = sub.id
      BY <1>3, <1>7, <2>2
    <3>2. ASSUME ~(t = s /\ m = n) PROVE FALSE
      <4>1. v.event[t][m] = w.event[t][m]
        BY <1>3, <3>2
      <4>. QED  BY <1>7, <2>0, <3>1, <3>2, <4>1
    <3>. QED  BY <2>2, <3>2
  <2>3. CASE ~(t = s /\ m = n) /\ ~(u = s /\ k = n)
    <3>1. v.event[t][m] = w.event[t][m] /\ v.event[u][k] = w.event[u][k]
      BY <1>3, <2>3
    <3>. QED  BY <1>7, <3>1 DEF InOrder
  <2>. QED  BY <2>1, <2>2, <2>3
<1>8. InOrder(v)
  BY <1>2, <1>5, <1>6, <1>7 DEF InOrder
<1>9. MovedOn(w, v)
  <2>. SUFFICES ASSUME NEW t \in Streams, NEW m \in Sequences
                PROVE  /\ v.last[t] >= w.last[t]
                       /\ w.event[t][m] # None =>
                             \/ v.event[t][m] = w.event[t][m]
                             \/ /\ w.event[t][m].code = "SEQUENCE_GAP"
                                /\ w.last[t] < m /\ m <= v.last[t]
                                /\ v.event[t][m].capture = w.event[t][m].capture
                                /\ v.event[t][m] # None
                       /\ w.case[t][m] # None => v.case[t][m] # None
    BY DEF MovedOn
  <2>1. v.last[t] >= w.last[t]
    BY <1>0, <1>1, <1>2, <1>3, <1>4
  <2>2. ASSUME w.event[t][m] # None, v.event[t][m] # w.event[t][m]
        PROVE  /\ w.event[t][m].code = "SEQUENCE_GAP" /\ w.last[t] < m /\ m <= v.last[t]
               /\ v.event[t][m].capture = w.event[t][m].capture /\ v.event[t][m] # None
    <3>1. t = s /\ m = n /\ v.event[t][m] = entry
      BY <1>3, <2>2
    <3>2. how = "TURN" /\ v.last[t] = n
      BY <1>0, <1>3, <2>2, <3>1 DEF n
    <3>. QED  BY <1>0, <1>1, <1>4, <2>2, <3>1, <3>2 DEF n
  <2>. QED  BY <1>3, <2>1, <2>2
<1>. QED  BY <1>8, <1>9

-----------------------------------------------------------------------------
(* The operations on the record *)

Entry(sub, status, code) == [capture |-> sub, status |-> status, code |-> code]

LEMMA EntryIs ==
    ASSUME NEW sub \in Offline!Submission,
           NEW status \in {"APPLIED", "RECONCILIATION_REQUIRED", "REJECTED"},
           NEW code \in {"APPLIED", "SEQUENCE_GAP", "REFUSED"}
    PROVE  /\ Entry(sub, status, code) \in Offline!EventRow
           /\ Entry(sub, status, code).capture = sub
           /\ Entry(sub, status, code).status = status
           /\ Entry(sub, status, code).code = code
  BY DEF Entry, Offline!EventRow

\* v is w with the capture on record.
Kept(w, v, s, sub, status, code) ==
    /\ v \in WorkRecord
    /\ v.task = w.task /\ v.last = w.last /\ v.writes = w.writes
    /\ \A t \in Streams, m \in Sequences :
          /\ v.event[t][m] = IF t = s /\ m = sub.sequence THEN Entry(sub, status, code)
                             ELSE w.event[t][m]
          /\ w.case[t][m] # None => v.case[t][m] # None
    /\ status = "RECONCILIATION_REQUIRED" => v.case[s][sub.sequence] # None

LEMMA PreserveFiles ==
    ASSUME NEW w \in WorkRecord, NEW s \in Streams, NEW sub \in Offline!Submission,
           NEW status \in {"APPLIED", "RECONCILIATION_REQUIRED", "REJECTED"},
           NEW code \in {"APPLIED", "SEQUENCE_GAP", "REFUSED"}
    PROVE  Kept(w, Offline!Preserve(w, s, sub, status, code), s, sub, status, code)
<1>0. PICK v : v = Offline!Preserve(w, s, sub, status, code)
  OBVIOUS
<1>. SUFFICES
           /\ v \in WorkRecord
           /\ v.task = w.task /\ v.last = w.last /\ v.writes = w.writes
           /\ \A t \in Streams, m \in Sequences :
                 /\ v.event[t][m] = IF t = s /\ m = sub.sequence THEN Entry(sub, status, code)
                                    ELSE w.event[t][m]
                 /\ w.case[t][m] # None => v.case[t][m] # None
           /\ status = "RECONCILIATION_REQUIRED" => v.case[s][sub.sequence] # None
  BY <1>0 DEF Kept
<1>. DEFINE n == sub.sequence
            e == Entry(sub, status, code)
            c == IF status = "RECONCILIATION_REQUIRED" THEN "OPEN" ELSE w.case[s][n]
            events == [w.event EXCEPT ![s] = [w.event[s] EXCEPT ![n] = e]]
            cases == [w.case EXCEPT ![s] = [w.case[s] EXCEPT ![n] = c]]
<1>1. /\ w.task \in Offline!TaskRow /\ w.writes \in Nat
      /\ w.last \in [Streams -> Sequences \cup {0}]
      /\ w.event \in [Streams -> [Sequences -> Offline!EventRow \cup {None}]]
      /\ w.case \in [Streams -> [Sequences -> {"OPEN", "RESOLVED", None}]]
      /\ w = [task |-> w.task, writes |-> w.writes, last |-> w.last, event |-> w.event,
              case |-> w.case]
  BY DEF WorkRecord
<1>2. n \in Sequences /\ e \in Offline!EventRow
  BY EntryIs DEF Offline!Submission
<1>3. c \in {"OPEN", "RESOLVED", None}
  BY <1>1, <1>2
<1>4. v = [task |-> w.task, writes |-> w.writes, last |-> w.last, event |-> events,
           case |-> cases]
  BY <1>0, <1>1 DEF Offline!Preserve, Entry
<1>. HIDE DEF e, c, n
<1>5. events \in [Streams -> [Sequences -> Offline!EventRow \cup {None}]]
  BY <1>1, <1>2
<1>6. cases \in [Streams -> [Sequences -> {"OPEN", "RESOLVED", None}]]
  BY <1>1, <1>2, <1>3
<1>7. \A t \in Streams, m \in Sequences :
         /\ events[t][m] = IF t = s /\ m = n THEN e ELSE w.event[t][m]
         /\ cases[t][m] = IF t = s /\ m = n THEN c ELSE w.case[t][m]
  BY <1>1, <1>2
<1>. HIDE DEF events, cases
<1>8. v \in WorkRecord
  BY <1>1, <1>4, <1>5, <1>6 DEF WorkRecord
<1>9. \A t \in Streams, m \in Sequences : w.case[t][m] # None => cases[t][m] # None
  BY <1>7, OfflineFacts DEF c
<1>10. status = "RECONCILIATION_REQUIRED" => cases[s][n] # None
  BY <1>2, <1>7, OfflineFacts DEF c
<1>. QED  BY <1>4, <1>7, <1>8, <1>9, <1>10 DEF n, e

\* The position of a stream moves.
AtPosition(w, s, n) == [w EXCEPT !.last[s] = n]

LEMMA PositionMoves ==
    ASSUME NEW w \in WorkRecord, NEW s \in Streams, NEW n \in Sequences
    PROVE  LET v == AtPosition(w, s, n) IN
           /\ v \in WorkRecord
           /\ v.task = w.task /\ v.writes = w.writes /\ v.event = w.event /\ v.case = w.case
           /\ \A t \in Streams : v.last[t] = IF t = s THEN n ELSE w.last[t]
<1>. PICK v : v = AtPosition(w, s, n)
  OBVIOUS
<1>0. /\ w.last \in [Streams -> Sequences \cup {0}]
      /\ w = [task |-> w.task, writes |-> w.writes, last |-> w.last, event |-> w.event,
              case |-> w.case]
  BY DEF WorkRecord
<1>1. v = [task |-> w.task, writes |-> w.writes, last |-> [w.last EXCEPT ![s] = n],
           event |-> w.event, case |-> w.case]
  BY <1>0 DEF AtPosition
<1>2. [w.last EXCEPT ![s] = n] \in [Streams -> Sequences \cup {0}]
  BY <1>0
<1>3. v \in WorkRecord
  BY <1>1, <1>2 DEF WorkRecord
<1>4. \A t \in Streams : v.last[t] = IF t = s THEN n ELSE w.last[t]
  BY <1>0, <1>1
<1>5. v.task = w.task /\ v.writes = w.writes /\ v.event = w.event /\ v.case = w.case
  BY <1>1
<1>. QED  BY <1>3, <1>4, <1>5

\* A case is opened or resolved.
WithCase(w, s, n, to) == [w EXCEPT !.case[s][n] = to]

LEMMA CaseMoves ==
    ASSUME NEW w \in WorkRecord, NEW s \in Streams, NEW n \in Sequences,
           NEW to \in {"OPEN", "RESOLVED"}
    PROVE  LET v == WithCase(w, s, n, to) IN
           /\ v \in WorkRecord
           /\ v.task = w.task /\ v.writes = w.writes /\ v.event = w.event /\ v.last = w.last
           /\ \A t \in Streams, m \in Sequences : w.case[t][m] # None => v.case[t][m] # None
<1>. DEFINE cases == [w.case EXCEPT ![s] = [w.case[s] EXCEPT ![n] = to]]
<1>. PICK v : v = WithCase(w, s, n, to)
  OBVIOUS
<1>0. /\ w.case \in [Streams -> [Sequences -> {"OPEN", "RESOLVED", None}]]
      /\ w = [task |-> w.task, writes |-> w.writes, last |-> w.last, event |-> w.event,
              case |-> w.case]
  BY DEF WorkRecord
<1>1. v = [task |-> w.task, writes |-> w.writes, last |-> w.last, event |-> w.event,
           case |-> cases]
  BY <1>0 DEF WithCase
<1>2. cases \in [Streams -> [Sequences -> {"OPEN", "RESOLVED", None}]]
  BY <1>0
<1>3. \A t \in Streams, m \in Sequences :
         cases[t][m] = IF t = s /\ m = n THEN to ELSE w.case[t][m]
  BY <1>0
<1>. HIDE DEF cases
<1>4. v \in WorkRecord
  BY <1>1, <1>2 DEF WorkRecord
<1>5. /\ v.task = w.task /\ v.writes = w.writes /\ v.event = w.event /\ v.last = w.last
      /\ v.case = cases
  BY <1>1
<1>6. \A t \in Streams, m \in Sequences : w.case[t][m] # None => v.case[t][m] # None
  BY <1>3, <1>5, OfflineFacts
<1>. QED  BY <1>4, <1>5, <1>6

LEMMA CaseKeepsOrder ==
    ASSUME NEW w, InOrder(w), NEW s \in Streams, NEW n \in Sequences,
           NEW to \in {"OPEN", "RESOLVED"}
    PROVE  InOrder(WithCase(w, s, n, to)) /\ MovedOn(w, WithCase(w, s, n, to))
<1>. DEFINE v == WithCase(w, s, n, to)
<1>0. w \in WorkRecord
  BY DEF InOrder
<1>1. /\ v \in WorkRecord
      /\ v.task = w.task /\ v.event = w.event /\ v.last = w.last
      /\ \A t \in Streams, m \in Sequences : w.case[t][m] # None => v.case[t][m] # None
  <2>1. v \in WorkRecord
    BY <1>0, CaseMoves
  <2>2. v.task = w.task /\ v.event = w.event /\ v.last = w.last
    BY <1>0, CaseMoves
  <2>3. \A t \in Streams, m \in Sequences : w.case[t][m] # None => v.case[t][m] # None
    BY <1>0, CaseMoves
  <2>. QED  BY <2>1, <2>2, <2>3
<1>. HIDE DEF v
<1>3. \A t \in Streams : v.last[t] >= w.last[t]
  <2>1. \A t \in Streams : w.last[t] \in Nat
    BY <1>0, OfflineFacts DEF WorkRecord
  <2>. QED  BY <1>1, <2>1
<1>4. MovedOn(w, v)
  BY <1>1, <1>3 DEF MovedOn
<1>5. InOrder(v)
  BY <1>1 DEF InOrder
<1>. QED  BY <1>4, <1>5 DEF v

\* What a check finds wrong.
LEMMA IssueIs ==
    ASSUME NEW w, NEW s, NEW sub \in Offline!Submission
    PROVE  /\ Offline!Issue(w, s, sub) \in {"SEQUENCE_GAP", "REJECTED", "CASE", None}
           /\ sub.sequence = w.last[s] + 1 => Offline!Issue(w, s, sub) # "SEQUENCE_GAP"
           /\ sub.sequence # w.last[s] + 1 => Offline!Issue(w, s, sub) = "SEQUENCE_GAP"
<1>1. sub.flaw \in {None, "REJECTED", "CASE"}
  BY DEF Offline!Submission, Offline!Flaws
<1>2. None # "SEQUENCE_GAP"
  BY OfflineFacts
<1>3. sub.sequence # w.last[s] + 1 => Offline!Issue(w, s, sub) = "SEQUENCE_GAP"
  BY DEF Offline!Issue
<1>4. sub.sequence = w.last[s] + 1 => Offline!Issue(w, s, sub) \in {sub.flaw, "CASE", None}
  BY DEF Offline!Issue
<1>. QED  BY <1>1, <1>2, <1>3, <1>4

LEMMA IssueKeepsOrder ==
    ASSUME NEW w, InOrder(w), NEW s \in Streams, NEW sub \in Offline!Submission,
           MayFile(w, s, sub), w.event[s][sub.sequence] = None,
           NEW issue \in {"SEQUENCE_GAP", "REJECTED", "CASE"},
           sub.sequence = w.last[s] + 1 <=> issue # "SEQUENCE_GAP"
    PROVE  /\ InOrder(Offline!PreserveIssue(w, s, sub, issue))
           /\ MovedOn(w, Offline!PreserveIssue(w, s, sub, issue))
<1>. DEFINE v == Offline!PreserveIssue(w, s, sub, issue)
            status == IF issue = "REJECTED" THEN "REJECTED" ELSE "RECONCILIATION_REQUIRED"
            code == IF issue = "SEQUENCE_GAP" THEN "SEQUENCE_GAP" ELSE "REFUSED"
            kept == Offline!Preserve(w, s, sub, status, code)
            e == Entry(sub, status, code)
<1>1. w \in WorkRecord /\ w.task.rank \in Nat /\ sub.sequence \in Sequences
  BY PlaceOf DEF InOrder, Offline!Submission
<1>2. /\ status \in {"APPLIED", "RECONCILIATION_REQUIRED", "REJECTED"} /\ status # "APPLIED"
      /\ code \in {"APPLIED", "SEQUENCE_GAP", "REFUSED"}
      /\ code = "SEQUENCE_GAP" <=> issue = "SEQUENCE_GAP"
  OBVIOUS
<1>3. v = IF sub.sequence = w.last[s] + 1 THEN AtPosition(kept, s, sub.sequence) ELSE kept
  BY DEF Offline!PreserveIssue, AtPosition
<1>. SUFFICES InOrder(v) /\ MovedOn(w, v)
  OBVIOUS
<1>. HIDE DEF v, status, code
<1>4. /\ kept \in WorkRecord
      /\ kept.task = w.task /\ kept.last = w.last
      /\ \A t \in Streams, m \in Sequences :
            /\ kept.event[t][m] = IF t = s /\ m = sub.sequence THEN e ELSE w.event[t][m]
            /\ w.case[t][m] # None => kept.case[t][m] # None
      /\ status = "RECONCILIATION_REQUIRED" => kept.case[s][sub.sequence] # None
  <2>1. Kept(w, kept, s, sub, status, code)
    BY <1>1, <1>2, PreserveFiles
  <2>. HIDE DEF kept
  <2>. QED  BY <2>1 DEF Kept
<1>5. e \in Offline!EventRow /\ e.capture = sub /\ e.status = status /\ e.code = code
  BY <1>2, EntryIs
<1>. HIDE DEF kept, e
<1>6. CASE sub.sequence = w.last[s] + 1
  <2>1. v = AtPosition(kept, s, sub.sequence)
    BY <1>3, <1>6
  <2>2. /\ v \in WorkRecord
        /\ v.task = kept.task /\ v.event = kept.event /\ v.case = kept.case
        /\ \A t \in Streams : v.last[t] = IF t = s THEN sub.sequence ELSE kept.last[t]
    BY <1>1, <1>4, <2>1, PositionMoves
  <2>3. Files(w, v, s, sub, e, "TURN")
    BY <1>1, <1>2, <1>4, <1>5, <2>2 DEF Files
  <2>4. IsTurn(w, s, sub, e, "TURN")
    BY <1>2, <1>5, <1>6 DEF IsTurn
  <2>. QED  BY <1>5, <2>3, <2>4, FilingKeepsOrder
<1>7. CASE sub.sequence # w.last[s] + 1
  <2>1. v = kept
    BY <1>3, <1>7
  <2>2. Files(w, v, s, sub, e, "EARLY")
    BY <1>1, <1>2, <1>4, <1>5, <2>1 DEF Files
  <2>3. e.code = "SEQUENCE_GAP"
    BY <1>2, <1>5, <1>7
  <2>4. IsTurn(w, s, sub, e, "EARLY")
    BY <1>7, <2>3 DEF IsTurn
  <2>. QED  BY <1>5, <2>2, <2>4, FilingKeepsOrder
<1>. QED  BY <1>6, <1>7

\* A capture in turn is filed in turn, whatever the service says of it.
LEMMA ReplayFiles ==
    ASSUME NEW w \in WorkRecord, NEW s \in Streams, NEW sub \in Offline!Submission,
           NEW v, v = Offline!Replay(w, s, sub)
    PROVE  \E e \in Offline!EventRow :
              /\ e.capture = sub /\ e.code # "SEQUENCE_GAP"
              /\ Files(w, v, s, sub, e, "TURN")
<1>. DEFINE to == Offline!Rank[sub.operation]
            done == AtPosition(w, s, sub.sequence)
<1>1. /\ sub.sequence \in Sequences /\ to \in 1 .. 3
      /\ w.task \in Offline!TaskRow /\ w.task.rank \in 0 .. 3
  BY OfflineFacts DEF Offline!Submission, Offline!TaskRow, WorkRecord
<1>2. /\ done \in WorkRecord
      /\ done.task = w.task /\ done.writes = w.writes /\ done.event = w.event
      /\ done.case = w.case
      /\ \A t \in Streams : done.last[t] = IF t = s THEN sub.sequence ELSE w.last[t]
  BY <1>1, PositionMoves
<1>3. \/ v = Offline!Preserve(done, s, sub, "RECONCILIATION_REQUIRED", "REFUSED")
      \/ /\ to <= w.task.rank
         /\ v = Offline!Preserve(done, s, sub, "APPLIED", "APPLIED")
      \/ v = [Offline!Preserve(done, s, sub, "APPLIED", "APPLIED") EXCEPT
                 !.task.rank = to, !.writes = @ + 1] /\ to = w.task.rank + 1
  BY <1>1 DEF Offline!Replay, AtPosition
<1>. HIDE DEF done, to
<1>4. CASE v = Offline!Preserve(done, s, sub, "RECONCILIATION_REQUIRED", "REFUSED")
  <2>. DEFINE e == Entry(sub, "RECONCILIATION_REQUIRED", "REFUSED")
  <2>1. /\ e \in Offline!EventRow /\ e.capture = sub
        /\ e.status = "RECONCILIATION_REQUIRED" /\ e.code = "REFUSED"
    BY EntryIs
  <2>2. /\ v \in WorkRecord
        /\ v.task = done.task /\ v.last = done.last
        /\ \A t \in Streams, m \in Sequences :
              /\ v.event[t][m] = IF t = s /\ m = sub.sequence THEN e ELSE done.event[t][m]
              /\ done.case[t][m] # None => v.case[t][m] # None
        /\ v.case[s][sub.sequence] # None
    <3>1. Kept(done, v, s, sub, "RECONCILIATION_REQUIRED", "REFUSED")
      BY <1>2, <1>4, PreserveFiles
    <3>. QED  BY <3>1 DEF Kept
  <2>. HIDE DEF e
  <2>3. Files(w, v, s, sub, e, "TURN")
    BY <1>1, <1>2, <2>1, <2>2 DEF Files
  <2>. QED  BY <2>1, <2>3
<1>. DEFINE kept == Offline!Preserve(done, s, sub, "APPLIED", "APPLIED")
            e == Entry(sub, "APPLIED", "APPLIED")
<1>5. /\ e \in Offline!EventRow /\ e.capture = sub
      /\ e.status = "APPLIED" /\ e.code = "APPLIED"
  BY EntryIs
<1>6. /\ kept \in WorkRecord
      /\ kept.task = done.task /\ kept.last = done.last /\ kept.writes = done.writes
      /\ \A t \in Streams, m \in Sequences :
            /\ kept.event[t][m] = IF t = s /\ m = sub.sequence THEN e ELSE done.event[t][m]
            /\ done.case[t][m] # None => kept.case[t][m] # None
  <2>1. Kept(done, kept, s, sub, "APPLIED", "APPLIED")
    BY <1>2, PreserveFiles
  <2>. HIDE DEF kept
  <2>. QED  BY <2>1 DEF Kept
<1>. HIDE DEF kept, e
<1>7. CASE to <= w.task.rank /\ v = kept
  <2>1. Files(w, v, s, sub, e, "TURN")
    BY <1>1, <1>2, <1>5, <1>6, <1>7 DEF Files, to
  <2>. QED  BY <1>5, <2>1
<1>8. CASE v = [kept EXCEPT !.task.rank = to, !.writes = @ + 1] /\ to = w.task.rank + 1
  <2>1. /\ kept.task \in Offline!TaskRow /\ kept.writes \in Nat
        /\ kept.last \in [Streams -> Sequences \cup {0}]
        /\ kept.event \in [Streams -> [Sequences -> Offline!EventRow \cup {None}]]
        /\ kept.case \in [Streams -> [Sequences -> {"OPEN", "RESOLVED", None}]]
        /\ kept = [task |-> kept.task, writes |-> kept.writes, last |-> kept.last,
                   event |-> kept.event, case |-> kept.case]
    BY <1>6 DEF WorkRecord
  <2>. DEFINE moved == [kept.task EXCEPT !.rank = to]
              count == kept.writes + 1
  <2>2. v = [task |-> moved, writes |-> count, last |-> kept.last, event |-> kept.event,
             case |-> kept.case]
    BY <1>8, <2>1
  <2>3. moved \in Offline!TaskRow /\ moved.rank = to /\ count \in Nat
    BY <1>1, <2>1 DEF Offline!TaskRow
  <2>. HIDE DEF moved, count
  <2>4. v \in WorkRecord
    BY <2>1, <2>2, <2>3 DEF WorkRecord
  <2>5. v.task.rank = to /\ v.last = kept.last /\ v.event = kept.event /\ v.case = kept.case
    BY <2>2, <2>3
  <2>6. Files(w, v, s, sub, e, "TURN")
    BY <1>1, <1>2, <1>5, <1>6, <1>8, <2>4, <2>5 DEF Files, to
  <2>. QED  BY <1>5, <2>6
<1>. QED  BY <1>3, <1>4, <1>7, <1>8 DEF kept

LEMMA ReplayKeepsOrder ==
    ASSUME NEW w, InOrder(w), NEW s \in Streams, NEW sub \in Offline!Submission,
           MayFile(w, s, sub), sub.sequence = w.last[s] + 1,
           NEW v, v = Offline!Replay(w, s, sub)
    PROVE  InOrder(v) /\ MovedOn(w, v)
<1>1. w \in WorkRecord
  BY DEF InOrder
<1>2. PICK e \in Offline!EventRow :
         /\ e.capture = sub /\ e.code # "SEQUENCE_GAP"
         /\ Files(w, v, s, sub, e, "TURN")
  BY <1>1, ReplayFiles
<1>3. IsTurn(w, s, sub, e, "TURN")
  BY <1>2 DEF IsTurn
<1>. QED  BY <1>2, <1>3, FilingKeepsOrder

LEMMA ResumeKeepsOrder ==
    ASSUME NEW w, InOrder(w), NEW s \in Streams, NEW sub \in Offline!Submission,
           MayFile(w, s, sub), sub.sequence = w.last[s] + 1
    PROVE  InOrder(Offline!Resume(w, s, sub)) /\ MovedOn(w, Offline!Resume(w, s, sub))
<1>. DEFINE next == Offline!Replay(w, s, sub)
            v == Offline!Resume(w, s, sub)
<1>1. InOrder(next) /\ MovedOn(w, next)
  BY ReplayKeepsOrder
<1>2. v = next \/ v = WithCase(next, s, sub.sequence, "RESOLVED")
  BY DEF Offline!Resume, WithCase
<1>. SUFFICES InOrder(v) /\ MovedOn(w, v)
  OBVIOUS
<1>. HIDE DEF next, v
<1>3. CASE v = WithCase(next, s, sub.sequence, "RESOLVED")
  <2>1. sub.sequence \in Sequences
    BY DEF Offline!Submission
  <2>2. InOrder(v) /\ MovedOn(next, v)
    BY <1>1, <1>3, <2>1, CaseKeepsOrder
  <2>3. w \in WorkRecord /\ next \in WorkRecord /\ v \in WorkRecord
    BY <1>1, <2>2 DEF InOrder
  <2>. QED  BY <1>1, <2>2, <2>3, MovedOnTwice
<1>. QED  BY <1>1, <1>2, <1>3

LEMMA HandleKnownKeepsOrder ==
    ASSUME NEW w, InOrder(w), NEW s \in Streams, NEW sub \in Offline!Submission,
           Offline!Known(w, sub.id) # {}
    PROVE  InOrder(Offline!HandleKnown(w, s, sub)) /\ MovedOn(w, Offline!HandleKnown(w, s, sub))
<1>. DEFINE at == CHOOSE at \in Offline!Known(w, sub.id) : TRUE
            v == Offline!HandleKnown(w, s, sub)
<1>1. at \in Offline!Known(w, sub.id)
  OBVIOUS
<1>. HIDE DEF at
<1>2. /\ at \in Streams \X Sequences
      /\ w.event[at[1]][at[2]] # None /\ w.event[at[1]][at[2]].capture.id = sub.id
  BY <1>1 DEF Offline!Known
<1>3. at[1] \in Streams /\ at[2] \in Sequences
  BY <1>2
<1>4. \/ v = WithCase(w, at[1], at[2], "OPEN")
      \/ v = w
      \/ /\ v = Offline!Resume(w, s, sub) /\ w.event[at[1]][at[2]].capture = sub
         /\ Offline!Resumable(w, s, at) /\ Offline!Issue(w, s, sub) = None
  BY DEF Offline!HandleKnown, Offline!Resend, Offline!Conflict, WithCase, at
<1>. SUFFICES InOrder(v) /\ MovedOn(w, v)
  OBVIOUS
<1>. HIDE DEF v
<1>5. CASE v = WithCase(w, at[1], at[2], "OPEN")
  BY <1>3, <1>5, CaseKeepsOrder
<1>6. CASE v = w
  BY <1>6, MovedOnSelf DEF InOrder
<1>7. CASE /\ v = Offline!Resume(w, s, sub) /\ w.event[at[1]][at[2]].capture = sub
           /\ Offline!Resumable(w, s, at) /\ Offline!Issue(w, s, sub) = None
  <2>1. sub.sequence = w.last[s] + 1
    BY <1>7, IssueIs, OfflineFacts
  <2>2. at[1] = s /\ at[2] = sub.sequence /\ w.event[s][sub.sequence].code = "SEQUENCE_GAP"
    BY <1>7, <2>1 DEF Offline!Resumable
  <2>3. \A t \in Streams, m \in Sequences :
           w.event[t][m] # None /\ w.event[t][m].capture.id = sub.id
           => t = s /\ m = sub.sequence
    BY <1>2, <1>3, <2>2 DEF InOrder
  <2>4. MayFile(w, s, sub)
    BY <1>7, <2>2, <2>3 DEF MayFile
  <2>. QED  BY <1>7, <2>1, <2>4, ResumeKeepsOrder
<1>. QED  BY <1>4, <1>5, <1>6, <1>7

LEMMA HandleNewKeepsOrder ==
    ASSUME NEW w, InOrder(w), NEW s \in Streams, NEW sub \in Offline!Submission,
           Offline!Known(w, sub.id) = {}
    PROVE  InOrder(Offline!HandleNew(w, s, sub)) /\ MovedOn(w, Offline!HandleNew(w, s, sub))
<1>. DEFINE v == Offline!HandleNew(w, s, sub)
            issue == Offline!Issue(w, s, sub)
<1>1. \/ w.event[s][sub.sequence] # None /\ v = WithCase(w, s, sub.sequence, "OPEN")
      \/ /\ w.event[s][sub.sequence] = None /\ issue # None
         /\ v = Offline!PreserveIssue(w, s, sub, issue)
      \/ /\ w.event[s][sub.sequence] = None /\ issue = None
         /\ v = Offline!Replay(w, s, sub)
  BY DEF Offline!HandleNew, Offline!Conflict, WithCase
<1>2. \A t \in Streams, m \in Sequences : w.event[t][m] # None => w.event[t][m].capture.id # sub.id
  <2>1. ASSUME NEW t \in Streams, NEW m \in Sequences, w.event[t][m] # None,
               w.event[t][m].capture.id = sub.id
        PROVE  <<t, m>> \in Offline!Known(w, sub.id)
    BY <2>1 DEF Offline!Known
  <2>. QED  BY <2>1
<1>3. sub.sequence \in Sequences
  BY DEF Offline!Submission
<1>. SUFFICES InOrder(v) /\ MovedOn(w, v)
  OBVIOUS
<1>4. /\ issue \in {"SEQUENCE_GAP", "REJECTED", "CASE", None}
      /\ sub.sequence = w.last[s] + 1 <=> issue # "SEQUENCE_GAP"
      /\ None # "SEQUENCE_GAP"
  BY IssueIs, OfflineFacts
<1>. HIDE DEF v, issue
<1>5. CASE w.event[s][sub.sequence] # None /\ v = WithCase(w, s, sub.sequence, "OPEN")
  BY <1>3, <1>5, CaseKeepsOrder
<1>6. CASE /\ w.event[s][sub.sequence] = None /\ issue # None
           /\ v = Offline!PreserveIssue(w, s, sub, issue)
  <2>1. MayFile(w, s, sub)
    BY <1>2, <1>6 DEF MayFile
  <2>2. issue \in {"SEQUENCE_GAP", "REJECTED", "CASE"}
    BY <1>4, <1>6
  <2>. QED  BY <1>4, <1>6, <2>1, <2>2, IssueKeepsOrder
<1>7. CASE /\ w.event[s][sub.sequence] = None /\ issue = None
           /\ v = Offline!Replay(w, s, sub)
  <2>1. MayFile(w, s, sub)
    BY <1>2, <1>7 DEF MayFile
  <2>2. sub.sequence = w.last[s] + 1
    BY <1>4, <1>7
  <2>. QED  BY <1>7, <2>1, <2>2, ReplayKeepsOrder
<1>. QED  BY <1>1, <1>5, <1>6, <1>7

\* One capture of a batch.
LEMMA CaptureKeepsOrder ==
    ASSUME NEW w, InOrder(w), NEW s \in Streams, NEW sub \in Offline!Submission
    PROVE  /\ InOrder(Offline!ProcessSubmission(w, s, sub))
           /\ MovedOn(w, Offline!ProcessSubmission(w, s, sub))
<1>1. CASE Offline!Known(w, sub.id) # {}
  <2>1. Offline!ProcessSubmission(w, s, sub) = Offline!HandleKnown(w, s, sub)
    BY <1>1 DEF Offline!ProcessSubmission
  <2>. QED  BY <1>1, <2>1, HandleKnownKeepsOrder
<1>2. CASE Offline!Known(w, sub.id) = {}
  <2>1. Offline!ProcessSubmission(w, s, sub) = Offline!HandleNew(w, s, sub)
    BY <1>2 DEF Offline!ProcessSubmission
  <2>. QED  BY <1>2, <2>1, HandleNewKeepsOrder
<1>. QED  BY <1>1, <1>2

-----------------------------------------------------------------------------
(* A batch.  The library folds a sequence by a table over the sets of its   *)
(* positions, the last position of a set being taken out each time.  That   *)
(* the table exists, and what holds of its entries, is shown of the         *)
(* smallest set where it could fail.                                        *)

LEMMA SmallestBadSet ==
    ASSUME NEW S, IsFiniteSet(S), NEW T, T \subseteq SUBSET S, T # {}
    PROVE  \E U \in T : \A V \in T : V \subseteq U => V = U
<1>1. T \subseteq FiniteSubsetsOf(S)
  BY FS_FiniteSubsetsOfFinite
<1>2. PICK U \in T : \A V \in T : ~ (<<V, U>> \in StrictSubsetOrdering(S))
  BY <1>1, FS_StrictSubsetOrderingWellFounded, WFMin
<1>3. ASSUME NEW V \in T, V \subseteq U PROVE V = U
  BY <1>2, <1>3 DEF StrictSubsetOrdering
<1>. QED  BY <1>3

\* The last of some positions.
LastOf(D) == Offline!Max(D)

\* Positions that can be taken out from the last one.
HasLast(S) == IsFiniteSet(S) /\ \A D \in SUBSET S : D # {} => LastOf(D) \in D

LEMMA PositionsHaveLast == ASSUME NEW n \in Nat PROVE HasLast(1 .. n)
<1>1. ASSUME NEW D \in SUBSET (1 .. n), D # {} PROVE LastOf(D) \in D
  <2>. DEFINE F == {k \in Nat : n - k \in D}
  <2>1. \A i \in D : i \in Nat /\ i <= n
    OBVIOUS
  <2>2. PICK i \in D : TRUE
    BY <1>1
  <2>3. n - i \in F
    BY <2>1, <2>2
  <2>4. \A k \in F : k \in Nat
    OBVIOUS
  <2>5. PICK k \in F : \A j \in F : ~ (j < k)
    <3>. HIDE DEF F
    <3>. QED  BY <2>3, <2>4, LeastNumber
  <2>6. n - k \in D /\ k \in Nat
    OBVIOUS
  <2>7. ASSUME NEW j \in D PROVE n - k >= j
    <3>1. j \in Nat /\ j <= n
      BY <2>1
    <3>2. n - j \in F
      BY <3>1
    <3>3. ~ (n - j < k)
      BY <2>5, <3>2
    <3>. QED  BY <2>6, <3>1, <3>3
  <2>8. \E x \in D : \A y \in D : x >= y
    BY <2>6, <2>7
  <2>. QED  BY <2>8 DEF LastOf, Offline!Max
<1>. QED  BY <1>1, FS_Interval DEF HasLast

IsTable(g, w, s, batch, S) ==
    g = [D \in SUBSET S |->
            IF D = {} THEN w
            ELSE Offline!ProcessSubmission(g[D \ {LastOf(D)}], s, batch[LastOf(D)])]

LEMMA ProcessedIs ==
    ASSUME NEW s, NEW batch
    PROVE  Offline!Processed(s, batch) =
             (CHOOSE g : IsTable(g, Offline!Work, s, batch, DOMAIN batch))[DOMAIN batch]
  BY DEF Offline!Processed, Offline!FoldLeft, Offline!MapThenFoldSet, IsTable, LastOf

\* Each entry of a table goes through its last position.
GoesByLast(g, w, s, batch, S) ==
    /\ g[{}] = w
    /\ \A D \in SUBSET S : D # {} =>
          /\ LastOf(D) \in D /\ D \ {LastOf(D)} \in SUBSET S
          /\ g[D] = Offline!ProcessSubmission(g[D \ {LastOf(D)}], s, batch[LastOf(D)])

LEMMA TableStep ==
    ASSUME NEW S, HasLast(S), NEW g, NEW w, NEW s, NEW batch, IsTable(g, w, s, batch, S)
    PROVE  GoesByLast(g, w, s, batch, S)
<1>1. \A D \in SUBSET S :
         g[D] = IF D = {} THEN w
                ELSE Offline!ProcessSubmission(g[D \ {LastOf(D)}], s, batch[LastOf(D)])
  BY DEF IsTable
<1>. QED  BY <1>1 DEF HasLast, GoesByLast

LEMMA LessHasLast == ASSUME NEW S, HasLast(S), NEW R \in SUBSET S PROVE HasLast(R)
  BY FS_Subset DEF HasLast

LEMMA TableIsOne ==
    ASSUME NEW S, HasLast(S), NEW R \in SUBSET S, NEW w, NEW s, NEW batch,
           NEW g, IsTable(g, w, s, batch, S), NEW h, IsTable(h, w, s, batch, R)
    PROVE  \A D \in SUBSET R : g[D] = h[D]
<1>. DEFINE T == {D \in SUBSET R : g[D] # h[D]}
<1>. SUFFICES ASSUME T # {} PROVE FALSE
  OBVIOUS
<1>1. HasLast(R) /\ IsFiniteSet(R)
  BY LessHasLast DEF HasLast
<1>2. PICK U \in T : \A V \in T : V \subseteq U => V = U
  <2>1. T \subseteq SUBSET R
    OBVIOUS
  <2>. HIDE DEF T
  <2>. QED  BY <1>1, <2>1, SmallestBadSet
<1>3. \A D \in SUBSET R : D # {} =>
         /\ LastOf(D) \in D /\ D \ {LastOf(D)} \in SUBSET R
         /\ h[D] = Offline!ProcessSubmission(h[D \ {LastOf(D)}], s, batch[LastOf(D)])
  <2>1. GoesByLast(h, w, s, batch, R)
    BY <1>1, TableStep
  <2>. QED  BY <2>1 DEF GoesByLast
<1>4. \A D \in SUBSET S : D # {} =>
         g[D] = Offline!ProcessSubmission(g[D \ {LastOf(D)}], s, batch[LastOf(D)])
  <2>1. GoesByLast(g, w, s, batch, S)
    BY TableStep
  <2>. QED  BY <2>1 DEF GoesByLast
<1>5. g[{}] = w /\ h[{}] = w
  <2>1. GoesByLast(g, w, s, batch, S) /\ GoesByLast(h, w, s, batch, R)
    BY <1>1, TableStep
  <2>. QED  BY <2>1 DEF GoesByLast
<1>6. U # {} /\ U \in SUBSET R /\ U \in SUBSET S
  BY <1>2, <1>5
<1>. DEFINE x == LastOf(U)
<1>7. x \in U /\ U \ {x} \in SUBSET R /\ U \ {x} # U
  BY <1>3, <1>6
<1>8. g[U \ {x}] = h[U \ {x}]
  BY <1>2, <1>7
<1>9. g[U] = h[U]
  BY <1>3, <1>4, <1>6, <1>8
<1>. QED  BY <1>2, <1>9

LEMMA TableExists ==
    ASSUME NEW S, HasLast(S), NEW w, NEW s, NEW batch
    PROVE  \E g : IsTable(g, w, s, batch, S)
<1>. DEFINE T == {D \in SUBSET S : ~ \E g : IsTable(g, w, s, batch, D)}
<1>. SUFFICES ASSUME T # {} PROVE FALSE
  OBVIOUS
<1>1. PICK U \in T : \A V \in T : V \subseteq U => V = U
  <2>1. T \subseteq SUBSET S /\ IsFiniteSet(S)
    BY DEF HasLast
  <2>. HIDE DEF T
  <2>. QED  BY <2>1, SmallestBadSet
<1>. DEFINE G(V) == CHOOSE g : IsTable(g, w, s, batch, V)
            F(g, V) == Offline!ProcessSubmission(g, s, batch[LastOf(V)])
            x == LastOf(U)
            h == [V \in SUBSET U |->
                     IF V = {} THEN w
                     ELSE IF V = U THEN F(G(U \ {x})[U \ {x}], U) ELSE G(V)[V]]
<1>2. \A V \in SUBSET U : V # U => IsTable(G(V), w, s, batch, V)
  <2>1. \A V \in SUBSET U : V # U => V \notin T /\ V \in SUBSET S
    BY <1>1
  <2>2. \A V \in SUBSET U : V # U => \E g : IsTable(g, w, s, batch, V)
    BY <2>1
  <2>. QED  BY <2>2
<1>3. \A V \in SUBSET U : HasLast(V)
  BY <1>1, LessHasLast
<1>4. ASSUME NEW V \in SUBSET U, V # {}
      PROVE  h[V] = F(h[V \ {LastOf(V)}], V)
  <2>. DEFINE y == LastOf(V)
              W == V \ {y}
  <2>1. y \in V /\ W \in SUBSET U /\ W # U /\ W # V
    BY <1>3, <1>4 DEF HasLast
  <2>2. IsTable(G(W), w, s, batch, W)
    BY <1>2, <2>1
  <2>3. h[W] = G(W)[W]
    <3>1. CASE W = {}
      <4>1. G(W)[{}] = w
        <5>1. GoesByLast(G(W), w, s, batch, W)
          BY <1>3, <2>1, <2>2, TableStep
        <5>. QED  BY <5>1 DEF GoesByLast
      <4>. QED  BY <2>1, <3>1, <4>1
    <3>2. CASE W # {}
      BY <2>1, <3>2
    <3>. QED  BY <3>1, <3>2
  <2>4. CASE V = U
    <3>1. h[V] = F(G(U \ {x})[U \ {x}], U)
      BY <1>4, <2>4
    <3>2. U \ {x} = W
      BY <2>4
    <3>. HIDE DEF h, G, F, W
    <3>. QED  BY <2>3, <2>4, <3>1, <3>2 DEF W
  <2>5. CASE V # U
    <3>1. IsTable(G(V), w, s, batch, V) /\ h[V] = G(V)[V]
      BY <1>2, <1>4, <2>5
    <3>2. G(V)[V] = F(G(V)[W], V)
      <4>1. \A D \in SUBSET V : D # {} =>
               G(V)[D] = Offline!ProcessSubmission(G(V)[D \ {LastOf(D)}], s, batch[LastOf(D)])
        <5>1. GoesByLast(G(V), w, s, batch, V)
          BY <1>3, <3>1, TableStep
        <5>. HIDE DEF G
        <5>. QED  BY <5>1 DEF GoesByLast
      <4>. QED  BY <1>4, <4>1
    <3>3. G(V)[W] = G(W)[W]
      <4>1. HasLast(V) /\ W \in SUBSET V /\ W \in SUBSET W
        BY <1>3, <2>1
      <4>2. IsTable(G(V), w, s, batch, V) /\ IsTable(G(W), w, s, batch, W)
        BY <2>2, <3>1
      <4>. HIDE DEF G, W
      <4>3. \A D \in SUBSET W : G(V)[D] = G(W)[D]
        BY <4>1, <4>2, TableIsOne
      <4>. QED  BY <4>1, <4>3
    <3>. HIDE DEF h, G, F, W
    <3>. QED  BY <2>3, <3>1, <3>2, <3>3 DEF W
  <2>. QED  BY <2>4, <2>5
<1>5. IsTable(h, w, s, batch, U)
  <2>1. h = [V \in SUBSET U |-> h[V]]
    OBVIOUS
  <2>2. h[{}] = w
    OBVIOUS
  <2>3. \A V \in SUBSET U :
           h[V] = IF V = {} THEN w
                  ELSE Offline!ProcessSubmission(h[V \ {LastOf(V)}], s, batch[LastOf(V)])
    <3>. HIDE DEF h
    <3>. QED  BY <1>4, <2>2
  <2>. HIDE DEF h
  <2>. QED  BY <2>1, <2>3 DEF IsTable
<1>. QED  BY <1>1, <1>5

LEMMA BatchKeepsOrder ==
    ASSUME NEW s \in Streams, NEW batch \in Batches, InOrder(Offline!Work)
    PROVE  /\ InOrder(Offline!Processed(s, batch))
           /\ MovedOn(Offline!Work, Offline!Processed(s, batch))
<1>. DEFINE n == Len(batch)
            w == Offline!Work
<1>1. batch \in Seq(Offline!Submission)
  BY OfflineConstants
<1>2. n \in Nat /\ DOMAIN batch = 1 .. n /\ \A i \in 1 .. n : batch[i] \in Offline!Submission
  BY <1>1
<1>. DEFINE P == 1 .. n
            g == CHOOSE g : IsTable(g, w, s, batch, P)
<1>0. HasLast(P) /\ IsFiniteSet(P)
  BY <1>2, PositionsHaveLast DEF HasLast
<1>. HIDE DEF P
<1>3. IsTable(g, w, s, batch, P)
  <2>1. \E f : IsTable(f, w, s, batch, P)
    BY <1>0, TableExists
  <2>. QED  BY <2>1
<1>4. Offline!Processed(s, batch) = g[P]
  BY <1>2, ProcessedIs DEF P
<1>. HIDE DEF g, n, w
<1>5. /\ g[{}] = w
      /\ \A D \in SUBSET P : D # {} =>
            /\ LastOf(D) \in D /\ D \ {LastOf(D)} \in SUBSET P
            /\ g[D] = Offline!ProcessSubmission(g[D \ {LastOf(D)}], s, batch[LastOf(D)])
  <2>1. GoesByLast(g, w, s, batch, P)
    BY <1>0, <1>3, TableStep
  <2>. QED  BY <2>1 DEF GoesByLast
<1>. DEFINE T == {D \in SUBSET P : ~ (InOrder(g[D]) /\ MovedOn(w, g[D]))}
<1>6. ASSUME T # {} PROVE FALSE
  <2>1. PICK U \in T : \A V \in T : V \subseteq U => V = U
    <3>1. T \subseteq SUBSET P /\ IsFiniteSet(P)
      BY <1>0
    <3>. HIDE DEF T
    <3>. QED  BY <1>6, <3>1, SmallestBadSet
  <2>2. InOrder(w) /\ MovedOn(w, w)
    BY MovedOnSelf DEF InOrder, w
  <2>3. U # {} /\ U \in SUBSET P
    BY <1>5, <2>1, <2>2
  <2>. DEFINE x == LastOf(U)
              v == g[U \ {x}]
  <2>4. /\ x \in U /\ U \ {x} \in SUBSET P /\ U \ {x} # U
        /\ g[U] = Offline!ProcessSubmission(v, s, batch[x])
    BY <1>5, <2>3
  <2>5. InOrder(v) /\ MovedOn(w, v)
    BY <2>1, <2>4
  <2>6. batch[x] \in Offline!Submission
    BY <1>2, <2>3, <2>4 DEF P
  <2>. HIDE DEF x, v, T
  <2>7. InOrder(g[U]) /\ MovedOn(v, g[U])
    BY <2>4, <2>5, <2>6, CaptureKeepsOrder
  <2>8. w \in WorkRecord /\ v \in WorkRecord /\ g[U] \in WorkRecord
    BY <2>2, <2>5, <2>7 DEF InOrder
  <2>9. MovedOn(w, g[U])
    BY <2>5, <2>7, <2>8, MovedOnTwice
  <2>. QED  BY <2>1, <2>7, <2>9 DEF T
<1>7. InOrder(g[P]) /\ MovedOn(w, g[P])
  BY <1>6
<1>. QED  BY <1>4, <1>7 DEF w

\* What is committed of a record, and what online work does to the task, leave
\* the streams as they are.
LEMMA SameStreams ==
    ASSUME NEW w, InOrder(w), NEW v \in WorkRecord,
           v.last = w.last, v.event = w.event, v.case = w.case, v.task.rank >= w.task.rank
    PROVE  InOrder(v) /\ \A u : MovedOn(u, w) => MovedOn(u, v)
<1>0. w \in WorkRecord
  BY DEF InOrder
<1>1. ASSUME NEW s \in Streams, NEW n \in Sequences, v.event[s][n] # None,
             v.event[s][n].status = "APPLIED"
      PROVE  Offline!Rank[v.event[s][n].capture.operation] <= v.task.rank
  <2>1. Offline!Rank[w.event[s][n].capture.operation] <= w.task.rank
    BY <1>1 DEF InOrder
  <2>2. w.event[s][n] \in Offline!EventRow
    BY <1>0, <1>1, PlaceOf
  <2>3. Offline!Rank[w.event[s][n].capture.operation] \in Nat
    BY <2>2, OfflineFacts DEF Offline!EventRow, Offline!Submission
  <2>4. v.task.rank \in Nat /\ w.task.rank \in Nat
    BY <1>0, PlaceOf DEF WorkRecord, Offline!TaskRow
  <2>. QED  BY <2>1, <2>3, <2>4
<1>2. InOrder(v)
  BY <1>1 DEF InOrder
<1>3. ASSUME NEW u, MovedOn(u, w) PROVE MovedOn(u, v)
  BY <1>3 DEF MovedOn
<1>. QED  BY <1>2, <1>3

\* The streams in the database are in order between any two requests.
OfflineInv == Offline!TypeOK /\ InOrder(Offline!Work)

LEMMA WorkIs ==
    /\ Offline!Work.task = sTask /\ Offline!Work.last = sLast
    /\ Offline!Work.event = sEvent /\ Offline!Work.case = sCase
    /\ Offline!TypeOK => Offline!Work \in WorkRecord
  BY DEF Offline!Work, WorkRecord, Offline!TypeOK

LEMMA CountOfOffline == \A S : Offline!Cardinality(S) = Cardinality(S)
  BY Zenon DEF Offline!Cardinality, Cardinality, Offline!IsFiniteSet, IsFiniteSet

LEMMA OfflineTells == OfflineInv => Offline!StreamsKeepTheirOrder
<1>. SUFFICES ASSUME OfflineInv PROVE Offline!StreamsKeepTheirOrder
  OBVIOUS
<1>. DEFINE At(id) == {at \in Streams \X Sequences :
                          /\ Offline!Captured(at[1], at[2])
                          /\ sEvent[at[1]][at[2]].capture.id = id}
<1>1. ASSUME NEW id \in Operations PROVE Offline!Cardinality(At(id)) <= 1
  <2>1. ASSUME NEW a \in At(id), NEW b \in At(id) PROVE a = b
    <3>1. /\ a \in Streams \X Sequences /\ b \in Streams \X Sequences
          /\ sEvent[a[1]][a[2]] # None /\ sEvent[b[1]][b[2]] # None
          /\ sEvent[a[1]][a[2]].capture.id = sEvent[b[1]][b[2]].capture.id
      BY <2>1 DEF Offline!Captured
    <3>2. a[1] = b[1] /\ a[2] = b[2]
      BY <3>1, WorkIs DEF OfflineInv, InOrder
    <3>. QED  BY <3>1, <3>2
  <2>. HIDE DEF At
  <2>2. Cardinality(At(id)) <= 1
    BY <2>1, AtMostOne
  <2>. QED  BY <2>2, CountOfOffline
<1>2. \A s \in Streams, n \in Sequences :
         /\ n <= sLast[s] => sEvent[s][n] # None
         /\ sEvent[s][n] # None =>
               /\ sEvent[s][n].code = "SEQUENCE_GAP" <=> n > sLast[s]
               /\ sEvent[s][n].status = "RECONCILIATION_REQUIRED" => sCase[s][n] # None
               /\ sEvent[s][n].status = "APPLIED" =>
                     Offline!Rank[sEvent[s][n].capture.operation] <= sTask.rank
  BY WorkIs DEF OfflineInv, InOrder
<1>. QED  BY <1>1, <1>2 DEF Offline!StreamsKeepTheirOrder, Offline!Captured

LEMMA OfflineInit == Offline!Init => OfflineInv
<1>. SUFFICES ASSUME Offline!Init PROVE OfflineInv
  OBVIOUS
<1>1. 1 \in 1 .. MaxRevision
  BY OfflineConstants
<1>2. Offline!TypeOK
  BY <1>1 DEF Offline!Init, Offline!TypeOK, Offline!TaskRow
<1>3. \A s \in Streams, n \in Sequences :
         sEvent[s][n] = None /\ sLast[s] = 0 /\ ~ (n <= sLast[s])
  BY OfflineFacts DEF Offline!Init
<1>4. InOrder(Offline!Work)
  BY <1>2, <1>3, WorkIs DEF InOrder
<1>. QED  BY <1>2, <1>4 DEF OfflineInv

\* A step keeps every stream in order and only moves it on.
StreamsMoveOn == OfflineInv' /\ MovedOn(Offline!Work, Offline!Work')

LEMMA NextWorkIs ==
    /\ Offline!Work'.task = sTask' /\ Offline!Work'.last = sLast'
    /\ Offline!Work'.event = sEvent' /\ Offline!Work'.case = sCase'
    /\ Offline!TypeOK' => Offline!Work' \in WorkRecord
  BY DEF Offline!Work, WorkRecord, Offline!TypeOK

\* What a step has to show: a record in order, further on, that the tables tell.
LEMMA StreamsCommit ==
    ASSUME OfflineInv, NEW w, InOrder(w), MovedOn(Offline!Work, w),
           sAuthorization' \in {"LIVE", "REVOKED", "OVER"},
           sAnswer' \in {"OUTCOMES", "STALE_VERSION", None},
           sTask' \in Offline!TaskRow, sTask'.rank >= w.task.rank,
           sLast' = w.last, sEvent' = w.event, sCase' = w.case
    PROVE  StreamsMoveOn
<1>1. Offline!TypeOK'
  BY DEF InOrder, WorkRecord, Offline!TypeOK
<1>2. PICK v : v = Offline!Work'
  OBVIOUS
<1>3. /\ v \in WorkRecord
      /\ v.last = w.last /\ v.event = w.event /\ v.case = w.case
      /\ v.task.rank >= w.task.rank
  BY <1>1, <1>2, NextWorkIs
<1>4. InOrder(v) /\ MovedOn(Offline!Work, v)
  BY <1>3, SameStreams
<1>. QED  BY <1>1, <1>2, <1>4 DEF StreamsMoveOn, OfflineInv

LEMMA OfflineStep == OfflineInv /\ [Offline!Next]_sVars => StreamsMoveOn
<1>. SUFFICES ASSUME OfflineInv, [Offline!Next]_sVars PROVE StreamsMoveOn
  OBVIOUS
<1>0. /\ InOrder(Offline!Work) /\ MovedOn(Offline!Work, Offline!Work)
      /\ sAuthorization \in {"LIVE", "REVOKED", "OVER"}
      /\ sAnswer \in {"OUTCOMES", "STALE_VERSION", None}
      /\ sTask \in Offline!TaskRow /\ sTask.rank \in Nat
  <2>1. Offline!Work \in WorkRecord
    BY DEF OfflineInv, InOrder
  <2>. QED  BY <2>1, MovedOnSelf DEF OfflineInv, Offline!TypeOK, Offline!TaskRow
<1>1. ASSUME NEW s \in Streams, NEW batch \in Batches, Offline!Sync(s, batch)
      PROVE  StreamsMoveOn
  <2>1. PICK w : w = Offline!Processed(s, batch)
    OBVIOUS
  <2>2. InOrder(w) /\ MovedOn(Offline!Work, w)
    BY <1>0, <2>1, BatchKeepsOrder
  <2>3. CASE Offline!CommitsTask(w)
    <3>1. /\ sTask' = w.task /\ sLast' = w.last /\ sEvent' = w.event /\ sCase' = w.case
          /\ sAnswer' = "OUTCOMES" /\ sAuthorization' = sAuthorization
      BY <1>1, <2>1, <2>3 DEF Offline!Sync
    <3>2. w.task \in Offline!TaskRow /\ w.task.rank \in Nat
      BY <2>2 DEF InOrder, WorkRecord, Offline!TaskRow
    <3>. QED  BY <1>0, <2>2, <3>1, <3>2, StreamsCommit
  <2>4. CASE ~Offline!CommitsTask(w)
    <3>1. UNCHANGED <<sTask, sLast, sEvent, sCase, sAuthorization>> /\ sAnswer' = "STALE_VERSION"
      BY <1>1, <2>1, <2>4 DEF Offline!Sync
    <3>. QED  BY <1>0, <3>1, WorkIs, StreamsCommit
  <2>. QED  BY <2>3, <2>4
<1>2. ASSUME NEW s \in Streams, NEW n \in Sequences, Offline!ResolveCase(s, n)
      PROVE  StreamsMoveOn
  <2>1. PICK w : w = WithCase(Offline!Work, s, n, "RESOLVED")
    OBVIOUS
  <2>2. InOrder(w) /\ MovedOn(Offline!Work, w)
    BY <1>0, <2>1, CaseKeepsOrder
  <2>3. /\ w.task = sTask /\ w.last = sLast /\ w.event = sEvent
        /\ w.case = [sCase EXCEPT ![s][n] = "RESOLVED"]
    BY <2>1 DEF WithCase, Offline!Work
  <2>4. /\ UNCHANGED <<sTask, sLast, sEvent, sAuthorization, sAnswer>>
        /\ sCase' = [sCase EXCEPT ![s][n] = "RESOLVED"]
    BY <1>2 DEF Offline!ResolveCase
  <2>5. sTask' \in Offline!TaskRow /\ sTask'.rank >= w.task.rank
    BY <1>0, <2>3, <2>4
  <2>6. sLast' = w.last /\ sEvent' = w.event /\ sCase' = w.case
    BY <2>3, <2>4
  <2>7. UNCHANGED <<sAuthorization, sAnswer>>
    BY <2>4
  <2>. QED  BY <1>0, <2>2, <2>5, <2>6, <2>7, StreamsCommit
<1>3. ASSUME \/ Offline!RevokeAuthorization \/ Offline!DeadlinePasses
             \/ Offline!AdvanceOnline \/ Offline!Reassign \/ Offline!CloseTask
             \/ UNCHANGED sVars
      PROVE  StreamsMoveOn
  <2>1. /\ UNCHANGED <<sLast, sEvent, sCase, sAnswer>>
        /\ sAuthorization' \in {"LIVE", "REVOKED", "OVER"}
    BY <1>0, <1>3 DEF Offline!RevokeAuthorization, Offline!DeadlinePasses,
         Offline!AdvanceOnline, Offline!Reassign, Offline!CloseTask, sVars
  <2>2. sTask' \in Offline!TaskRow /\ sTask'.rank >= sTask.rank
    <3>1. CASE UNCHANGED sTask
      BY <1>0, <3>1
    <3>2. CASE Offline!AdvanceOnline
      <4>1. sTask' = [rank |-> sTask.rank + 1, closed |-> sTask.closed, revision |-> sTask.revision]
            /\ sTask.rank \in 0 .. 3 /\ sTask.rank < 3
        BY <1>0, <3>2 DEF Offline!AdvanceOnline, Offline!TaskRow
      <4>. QED  BY <1>0, <4>1 DEF Offline!TaskRow
    <3>3. CASE Offline!Reassign
      <4>1. sTask' = [rank |-> sTask.rank, closed |-> sTask.closed, revision |-> sTask.revision + 1]
            /\ sTask.revision \in 1 .. MaxRevision /\ sTask.revision < MaxRevision
        BY <1>0, <3>3 DEF Offline!Reassign, Offline!TaskRow
      <4>2. MaxRevision \in Nat
        BY OfflineConstants
      <4>3. sTask.revision + 1 \in 1 .. MaxRevision
        BY <4>1, <4>2
      <4>. QED  BY <1>0, <4>1, <4>3 DEF Offline!TaskRow
    <3>4. CASE Offline!CloseTask
      <4>1. sTask' = [rank |-> sTask.rank, closed |-> TRUE, revision |-> sTask.revision]
        BY <1>0, <3>4 DEF Offline!CloseTask, Offline!TaskRow
      <4>. QED  BY <1>0, <4>1 DEF Offline!TaskRow
    <3>. QED  BY <1>3, <3>1, <3>2, <3>3, <3>4
         DEF Offline!RevokeAuthorization, Offline!DeadlinePasses, sVars
  <2>. QED  BY <1>0, <2>1, <2>2, WorkIs, StreamsCommit
<1>. QED  BY <1>1, <1>2, <1>3 DEF Offline!Next

-----------------------------------------------------------------------------
(* The service: a step of one part leaves the others alone. *)

PickupInv == IInv /\ RecordInv /\ CeremonyInv /\ DutyInv /\ OfflineInv

LEMMA StepOfOnePart ==
    [PickupNext]_<<part, vars, cVars, dVars, sVars>>
      => [Next]_vars /\ [Ceremony!Next]_cVars /\ [Duty!Next]_dVars /\ [Offline!Next]_sVars
  BY DEF PickupNext

\* Every part keeps its invariant, and with them the service, for any number
\* of requests, parcels, sessions and streams.
THEOREM PickupInvariant == PickupSpec => []PickupInv
<1>1. PickupInit => PickupInv
  BY InitHolds, RecordInit, CeremonyInit, DutyInit, OfflineInit DEF PickupInit, PickupInv
<1>2. PickupInv /\ [PickupNext]_<<part, vars, cVars, dVars, sVars>> => PickupInv'
  BY StepOfOnePart, StepHolds, RecordStep, CeremonyStep, DutyStep, OfflineStep
     DEF PickupInv, StreamsMoveOn
<1>. QED  BY <1>1, <1>2, PTL DEF PickupSpec

\* A behaviour of the service is one of each part: what is proved of the
\* attempts alone holds of the service.
THEOREM ServiceRunsItsParts ==
    PickupSpec => Spec /\ Ceremony!Spec /\ Duty!Spec /\ Offline!Spec
<1>1. PickupInit => Init /\ Ceremony!Init /\ Duty!Init /\ Offline!Init
  BY DEF PickupInit
<1>2. [PickupNext]_<<part, vars, cVars, dVars, sVars>>
        => /\ [Next]_vars /\ [Ceremony!Next]_Ceremony!vars
           /\ [Duty!Next]_Duty!vars /\ [Offline!Next]_Offline!vars
  BY StepOfOnePart DEF cVars, dVars, sVars, Ceremony!vars, Duty!vars, Offline!vars
<1>. QED  BY <1>1, <1>2, PTL DEF PickupSpec, Spec, Ceremony!Spec, Duty!Spec, Offline!Spec

\* The tables of every part keep their shape.
THEOREM PickupTypes == PickupSpec => []TypesOK
<1>1. PickupInv => TypesOK
  BY DEF PickupInv, IInv, CeremonyInv, DutyInv, OfflineInv, TypesOK
<1>. QED  BY <1>1, PickupInvariant, PTL

\* An acceptance burns the ceremony in force, and a parcel has one of each,
\* however reissues, confirmations and acceptances race.
THEOREM CeremonyAuthorizesOnce == PickupSpec => []OneCeremonyOneAcceptance
<1>1. PickupInv => OneCeremonyOneAcceptance
  BY CeremonyTells DEF PickupInv, OneCeremonyOneAcceptance
<1>. QED  BY <1>1, PickupInvariant, PTL

\* A verification that lapsed is never used, revived or replaced.
THEOREM LapsedIsFinal == PickupSpec => LapsedVerificationIsFinal
<1>1. PickupInv /\ [PickupNext]_<<part, vars, cVars, dVars, sVars>> =>
        [(\E c \in Ceremony!OpenChallenges :
              cChallenge[c].status = "VERIFIED" /\ cChallenge[c].lapsed)
         => UNCHANGED <<cChallenge, cTask.accepted>>]_Ceremony!vars
  BY StepOfOnePart, LapsedStays DEF PickupInv
<1>. QED
  BY <1>1, PickupInvariant, PTL
     DEF PickupSpec, LapsedVerificationIsFinal, Ceremony!LapsedVerificationIsFinal

\* A driver has one open session at most, whatever pauses and resumes race.
THEOREM OneSessionOpen == PickupSpec => []OneOpenSession
<1>1. PickupInv => OneOpenSession
  BY DutyTells DEF PickupInv, OneOpenSession
<1>. QED  BY <1>1, PickupInvariant, PTL

\* Whatever batches a device sends, in whatever order and how often: a stream
\* is full up to its position, and nothing behind it was applied.
THEOREM StreamsInOrder == PickupSpec => []StreamsKeepTheirOrder
<1>1. PickupInv => StreamsKeepTheirOrder
  BY OfflineTells DEF PickupInv, StreamsKeepTheirOrder
<1>. QED  BY <1>1, PickupInvariant, PTL

\* No batch undoes what was made of a capture, or loses a case.
THEOREM OutcomesLast == PickupSpec => OutcomesAreFinal
<1>1. PickupInv /\ [PickupNext]_<<part, vars, cVars, dVars, sVars>> =>
        [\A s \in Streams, n \in Sequences :
            /\ sLast'[s] >= sLast[s]
            /\ Offline!Captured(s, n) =>
                  \/ sEvent'[s][n] = sEvent[s][n]
                  \/ /\ sEvent[s][n].code = "SEQUENCE_GAP" /\ sLast[s] < n /\ n <= sLast'[s]
                     /\ sEvent'[s][n].capture = sEvent[s][n].capture
            /\ sCase[s][n] # None => sCase'[s][n] # None]_Offline!vars
  <2>1. ASSUME StreamsMoveOn, NEW s \in Streams, NEW n \in Sequences
        PROVE  /\ sLast'[s] >= sLast[s]
               /\ Offline!Captured(s, n) =>
                     \/ sEvent'[s][n] = sEvent[s][n]
                     \/ /\ sEvent[s][n].code = "SEQUENCE_GAP" /\ sLast[s] < n /\ n <= sLast'[s]
                        /\ sEvent'[s][n].capture = sEvent[s][n].capture
               /\ sCase[s][n] # None => sCase'[s][n] # None
    BY <2>1, WorkIs, NextWorkIs DEF StreamsMoveOn, MovedOn, Offline!Captured
  <2>. QED  BY <2>1, StepOfOnePart, OfflineStep DEF PickupInv
<1>. QED
  BY <1>1, PickupInvariant, PTL DEF PickupSpec, OutcomesAreFinal, Offline!OutcomesAreFinal
=============================================================================
