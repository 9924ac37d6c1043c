------------------------------- MODULE Pickup -------------------------------
(* The four parts of the pickup service that keep rows of their own: the    *)
(* attempts, the courier ceremony, driver sessions and offline streams.     *)
(* Their tables are disjoint and none waits for another, so interleaving    *)
(* them would only multiply the states: a behaviour picks one part at the   *)
(* start and stays with it.                                                 *)
EXTENDS PickupAttempt, Sequences

CONSTANTS
    Challenges, Manifests, Identifiers, Senders, MaxGuesses,  \* of CourierCeremony
    Sessions,                                                 \* of DriverSession
    Streams, Operations, Sequences, Batches, MaxRevision      \* of OfflineSync

VARIABLES
    part,
    cTask, cChallenge, cManifest, cRequest,           \* the courier ceremony
    dSession, dTies, dRequest,                        \* driver sessions
    sAuthorization, sTask, sLast, sEvent, sCase, sAnswer  \* offline streams

Ceremony == INSTANCE CourierCeremony WITH
    task <- cTask, challenge <- cChallenge, manifest <- cManifest, request <- cRequest

Duty == INSTANCE DriverSession WITH
    session <- dSession, ties <- dTies, request <- dRequest

Offline == INSTANCE OfflineSync WITH
    authorization <- sAuthorization, task <- sTask, last <- sLast, event <- sEvent,
    case <- sCase, answer <- sAnswer

\* NULL is no value and no row of any table.
ASSUME CeremonyConstants ==
    /\ Challenges \subseteq Nat /\ Manifests \subseteq Nat /\ MaxGuesses \in Nat
    /\ None \notin Identifiers \cup Senders
    /\ None \notin Ceremony!TaskRow \cup Ceremony!ChallengeRow \cup Ceremony!ManifestRow

ASSUME DutyConstants ==
    /\ Sessions \subseteq Nat
    /\ None \notin Duty!SessionRow \cup Duty!Request

\* A stream is numbered from 1.
ASSUME OfflineConstants ==
    /\ Sequences \subseteq Nat \ {0}
    /\ Batches \subseteq Seq(Offline!Submission)
    /\ MaxRevision \in Nat \ {0}
    /\ None \notin Offline!EventRow
    /\ None \notin {"OPEN", "RESOLVED", "REJECTED", "CASE", "SEQUENCE_GAP"}

cVars == <<cTask, cChallenge, cManifest, cRequest>>
dVars == <<dSession, dTies, dRequest>>
sVars == <<sAuthorization, sTask, sLast, sEvent, sCase, sAnswer>>

PickupInit ==
    /\ part \in {"attempts", "ceremony", "duty", "offline"}
    /\ Init /\ Ceremony!Init /\ Duty!Init /\ Offline!Init

PickupNext ==
    /\ UNCHANGED part
    /\ \/ part = "attempts" /\ Next /\ UNCHANGED <<cVars, dVars, sVars>>
       \/ part = "ceremony" /\ Ceremony!Next /\ UNCHANGED <<vars, dVars, sVars>>
       \/ part = "duty"     /\ Duty!Next /\ UNCHANGED <<vars, cVars, sVars>>
       \/ part = "offline"  /\ Offline!Next /\ UNCHANGED <<vars, cVars, dVars>>

PickupSpec == PickupInit /\ [][PickupNext]_<<part, vars, cVars, dVars, sVars>>

-----------------------------------------------------------------------------
(* The properties of the parts; each module says what they mean. *)

(* Every variable keeps the shape of its table. *)
TypesOK == TypeOK /\ Ceremony!TypeOK /\ Duty!TypeOK /\ Offline!TypeOK

(* CourierCeremony: an acceptance used the ceremony in force. *)
OneCeremonyOneAcceptance == Ceremony!OneCeremonyOneAcceptance

(* CourierCeremony: a verification that lapsed is of no use any more. *)
LapsedVerificationIsFinal == Ceremony!LapsedVerificationIsFinal

(* DriverSession: a driver has one open session at most. *)
OneOpenSession == Duty!OneOpenSession

(* OfflineSync: every stream is what its position says. *)
StreamsKeepTheirOrder == Offline!StreamsKeepTheirOrder

(* OfflineSync: what became of a capture is final. *)
OutcomesAreFinal == Offline!OutcomesAreFinal

(* OfflineSync: a batch is never refused for its own writes. *)
BatchesAreAnswered == Offline!BatchesAreAnswered
=============================================================================
