---------------------------- MODULE CourierCeremony ----------------------------
(***************************************************************************)
(* What proves that a merchant handed this parcel to this courier: a       *)
(* challenge the merchant verifies and a manifest of the parcel which the  *)
(* merchant confirms.  An acceptance burns one of each.                    *)
(*                                                                         *)
(* A request reads the row of the task without a lock and then the open    *)
(* challenge and the open manifest of that task under a row lock it keeps  *)
(* to its commit, so a request is two steps here: reading the task, and    *)
(* all that follows.  An acceptance writes the task under the version it   *)
(* read; every change of the task is a new row value, so comparing rows    *)
(* compares versions.                                                      *)
(*                                                                         *)
(* Abstractions.  One task: ceremonies of two tasks share nothing.  Its    *)
(* driver never changes, and whoever may not act writes nothing.  A secret *)
(* is right or wrong, a digest is the identifier it is computed from, and  *)
(* a deadline is a flag that time raises.                                  *)
(***************************************************************************)
EXTENDS Naturals, FiniteSets

CONSTANTS
    Requests,    \* requests in flight
    Challenges,  \* challenges, numbered in the order they are issued
    Manifests,   \* manifests, numbered in the order they are submitted
    Identifiers, \* what can be scanned off a parcel
    Senders,     \* users who may verify a courier
    MaxGuesses,  \* VerificationPolicy.max_failed_attempts
    None

VARIABLES
    task,        \* the row of the task, as far as the ceremony looks at it
    challenge,   \* the row of each challenge, or None
    manifest,    \* the row of each manifest, or None
    request      \* the row of the task each request has read, or None

vars == <<task, challenge, manifest, request>>

-----------------------------------------------------------------------------
TaskRow == [status: {"ARRIVED", "SCANNED", "PROOF_CAPTURED", "CLOSED"},
            scanned: Identifiers \cup {None}, accepted: Identifiers \cup {None}]

ChallengeRow == [status: {"ISSUED", "VERIFIED", "EXPIRED", "INVALIDATED", "CONSUMED"},
                 verifier: Senders \cup {None}, guesses: 0 .. MaxGuesses,
                 locked: BOOLEAN, lapsed: BOOLEAN]

ManifestRow == [status: {"SUBMITTED", "CONFIRMED", "INVALIDATED", "CONSUMED"},
                digest: Identifiers, lapsed: BOOLEAN]

\* list_open_for_task; a partial unique index keeps each to one row.
OpenChallenges ==
    {c \in Challenges : challenge[c] # None /\ challenge[c].status \in {"ISSUED", "VERIFIED"}}
OpenManifests ==
    {m \in Manifests : manifest[m] # None /\ manifest[m].status \in {"SUBMITTED", "CONFIRMED"}}

NextFree(row, ids) == CHOOSE i \in ids : row[i] = None /\ \A j \in ids : j < i => row[j] # None
Free(row, ids)  == \E i \in ids : row[i] = None

Init ==
    /\ task = [status |-> "ARRIVED", scanned |-> None, accepted |-> None]
    /\ challenge = [c \in Challenges |-> None]
    /\ manifest = [m \in Manifests |-> None]
    /\ request = [r \in Requests |-> None]

-----------------------------------------------------------------------------
(* The task, as the driver's other requests change it *)

Scan(id) ==
    /\ task.status = "ARRIVED"
    /\ task' = [task EXCEPT !.status = "SCANNED", !.scanned = id]
    /\ UNCHANGED <<challenge, manifest, request>>

CaptureProof ==
    /\ task.status = "SCANNED"
    /\ task' = [task EXCEPT !.status = "PROOF_CAPTURED"]
    /\ UNCHANGED <<challenge, manifest, request>>

\* Cancelled or superseded: nothing calls invalidate_for_task.
CloseTask ==
    /\ task.status # "CLOSED" /\ task.accepted = None
    /\ task' = [task EXCEPT !.status = "CLOSED"]
    /\ UNCHANGED <<challenge, manifest, request>>

\* A request begins: the task is read, and stays readable to others.
ReadTask(r) ==
    /\ request[r] = None
    /\ request' = [request EXCEPT ![r] = task]
    /\ UNCHANGED <<task, challenge, manifest>>

Answered(r) == request' = [request EXCEPT ![r] = None]

\* _assert_ceremony_open, of the row that was read.
CeremonyOpen(r) == request[r].accepted = None /\ request[r].status # "CLOSED"

-----------------------------------------------------------------------------
(* The challenge *)

(* Mutated form of IsLiveVerified: one past its validity can be replaced. *)
MutLiveVerified(c) == challenge[c].status = "VERIFIED" /\ ~challenge[c].lapsed

\* Its own validity is not part of it.
IsLiveVerified(c) == challenge[c].status = "VERIFIED"

\* Reissuing invalidates what was issued, and never restarts a verified ceremony.
IssueChallenge(r) ==
    /\ request[r] # None /\ CeremonyOpen(r)
    /\ ~ \E c \in OpenChallenges : IsLiveVerified(c)
    /\ Free(challenge, Challenges)
    /\ challenge' = [c \in Challenges |->
          IF c = NextFree(challenge, Challenges)
          THEN [status |-> "ISSUED", verifier |-> None, guesses |-> 0,
                locked |-> FALSE, lapsed |-> FALSE]
          ELSE IF c \in OpenChallenges THEN [challenge[c] EXCEPT !.status = "INVALIDATED"]
          ELSE challenge[c]]
    /\ Answered(r)
    /\ UNCHANGED <<task, manifest>>

\* A wrong secret is counted and committed, and may lock the challenge.
Guessed(c) ==
    LET count == IF challenge[c].guesses < MaxGuesses THEN challenge[c].guesses + 1 ELSE MaxGuesses
    IN  [challenge[c] EXCEPT !.guesses = count, !.locked = (count = MaxGuesses)]

VerifiedBy(c, sender) ==
    [challenge[c] EXCEPT !.status = "VERIFIED", !.verifier = sender, !.guesses = 0,
                         !.locked = FALSE, !.lapsed = FALSE]

\* The task is not asked whether its ceremony is open.  A late secret turns
\* the challenge EXPIRED; a verified one only answers its verifier again.
VerifyChallenge(r, c, right, sender) ==
    /\ request[r] # None
    /\ challenge[c] # None /\ challenge[c].status = "ISSUED"
    /\ ~challenge[c].locked
    /\ challenge' = [challenge EXCEPT ![c] =
          CASE @.lapsed          -> [@ EXCEPT !.status = "EXPIRED"]
            [] ~@.lapsed /\ ~right -> Guessed(c)
            [] OTHER             -> VerifiedBy(c, sender)]
    /\ Answered(r)
    /\ UNCHANGED <<task, manifest>>

\* _live_verified_challenge
Verified == {c \in OpenChallenges : IsLiveVerified(c) /\ ~challenge[c].lapsed}

-----------------------------------------------------------------------------
(* The manifest *)

\* The same parcel again answers with the submitted manifest; anything else
\* invalidates what is open, a confirmed manifest of the same parcel included.
SubmitManifest(r, id) ==
    /\ request[r] # None /\ CeremonyOpen(r)
    /\ request[r].scanned \in {None, id}
    /\ ~ \E m \in OpenManifests : manifest[m].digest = id /\ manifest[m].status = "SUBMITTED"
    /\ Free(manifest, Manifests)
    /\ manifest' = [m \in Manifests |->
          IF m = NextFree(manifest, Manifests)
          THEN [status |-> "SUBMITTED", digest |-> id, lapsed |-> FALSE]
          ELSE IF m \in OpenManifests THEN [manifest[m] EXCEPT !.status = "INVALIDATED"]
          ELSE manifest[m]]
    /\ Answered(r)
    /\ UNCHANGED <<task, challenge>>

\* The digest a sender expects is optional; a confirmed manifest is answered again.
ConfirmManifest(r, m) ==
    /\ request[r] # None /\ CeremonyOpen(r)
    /\ Verified # {}
    /\ m \in OpenManifests /\ manifest[m].status = "SUBMITTED"
    /\ manifest' = [manifest EXCEPT ![m].status = "CONFIRMED"]
    /\ Answered(r)
    /\ UNCHANGED <<task, challenge>>

-----------------------------------------------------------------------------
(* Acceptance *)

(* Mutated form of ReadyForAcceptance: any confirmed manifest will do. *)
MutReadyForAcceptance(c, m, id) ==
    c \in Verified /\ m \in OpenManifests /\ manifest[m].status = "CONFIRMED"

\* The identifier of the command is compared with the manifest, not with the
\* identifier recorded at the scan.
ReadyForAcceptance(c, m, id) ==
    /\ c \in Verified
    /\ m \in OpenManifests /\ manifest[m].status = "CONFIRMED" /\ ~manifest[m].lapsed
    /\ manifest[m].digest = id

Accept(r, id) ==
    /\ request[r] # None /\ CeremonyOpen(r) /\ request[r].status = "PROOF_CAPTURED"
    /\ request[r] = task
    /\ \E c \in Challenges, m \in Manifests :
          /\ ReadyForAcceptance(c, m, id)
          /\ challenge' = [challenge EXCEPT ![c].status = "CONSUMED"]
          /\ manifest' = [manifest EXCEPT ![m].status = "CONSUMED"]
    /\ task' = [task EXCEPT !.accepted = id]
    /\ Answered(r)

\* Whatever a check refused: the transaction is rolled back.
Refused(r) ==
    /\ request[r] # None
    /\ Answered(r)
    /\ UNCHANGED <<task, challenge, manifest>>

-----------------------------------------------------------------------------
(* Time *)

\* The secret's lifetime while it is ISSUED, the verification's afterwards.
ChallengeLapses(c) ==
    /\ c \in OpenChallenges /\ ~challenge[c].lapsed
    /\ challenge' = [challenge EXCEPT ![c].lapsed = TRUE]
    /\ UNCHANGED <<task, manifest, request>>

LockoutEnds(c) ==
    /\ c \in OpenChallenges /\ challenge[c].locked
    /\ challenge' = [challenge EXCEPT ![c].locked = FALSE]
    /\ UNCHANGED <<task, manifest, request>>

ConfirmationLapses(m) ==
    /\ m \in OpenManifests /\ manifest[m].status = "CONFIRMED" /\ ~manifest[m].lapsed
    /\ manifest' = [manifest EXCEPT ![m].lapsed = TRUE]
    /\ UNCHANGED <<task, challenge, request>>

-----------------------------------------------------------------------------
Next ==
    \/ CaptureProof \/ CloseTask
    \/ \E id \in Identifiers : Scan(id)
    \/ \E r \in Requests :
          \/ ReadTask(r) \/ IssueChallenge(r) \/ Refused(r)
          \/ \E c \in Challenges, right \in BOOLEAN, sender \in Senders :
                VerifyChallenge(r, c, right, sender)
          \/ \E id \in Identifiers : SubmitManifest(r, id) \/ Accept(r, id)
          \/ \E m \in Manifests : ConfirmManifest(r, m)
    \/ \E c \in Challenges : ChallengeLapses(c) \/ LockoutEnds(c)
    \/ \E m \in Manifests : ConfirmationLapses(m)

Spec == Init /\ [][Next]_vars

-----------------------------------------------------------------------------
(* Properties *)

\* Every variable keeps the shape of its table.
TypeOK ==
    /\ task \in TaskRow
    /\ challenge \in [Challenges -> ChallengeRow \cup {None}]
    /\ manifest \in [Manifests -> ManifestRow \cup {None}]
    /\ request \in [Requests -> TaskRow \cup {None}]

Burnt(row, ids) == {i \in ids : row[i] # None /\ row[i].status = "CONSUMED"}

\* "One ceremony authorizes exactly one acceptance": custody starts with
\* exactly one burnt challenge, which a sender verified, and exactly one burnt
\* manifest, of the very parcel the acceptance names; whatever requests that
\* read the task before were still doing.  At most one of each is ever open.
OneCeremonyOneAcceptance ==
    /\ Cardinality(Burnt(challenge, Challenges)) = IF task.accepted = None THEN 0 ELSE 1
    /\ Cardinality(Burnt(manifest, Manifests)) = IF task.accepted = None THEN 0 ELSE 1
    /\ \A c \in Burnt(challenge, Challenges) : challenge[c].verifier # None
    /\ \A m \in Burnt(manifest, Manifests) : manifest[m].digest = task.accepted
    /\ Cardinality(OpenChallenges) <= 1 /\ Cardinality(OpenManifests) <= 1

\* A verification that lapses before the acceptance cannot be renewed: the
\* challenge stays VERIFIED, no other is issued and the task is never accepted.
LapsedVerificationIsFinal ==
    [][(\E c \in OpenChallenges : challenge[c].status = "VERIFIED" /\ challenge[c].lapsed) =>
          UNCHANGED <<challenge, task.accepted>>]_vars
=============================================================================
