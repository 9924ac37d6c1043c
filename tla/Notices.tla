------------------------------- MODULE Notices -------------------------------
(***************************************************************************)
(* What people are told of a fact.  A fan-out plans every message of one   *)
(* fact, for each recipient and channel, and writes them in one            *)
(* transaction; what a recipient switched off is written too, as           *)
(* suppressed.  Dispatch sends one message while its transaction is open   *)
(* and writes the outcome under the version it read.                       *)
(*                                                                         *)
(* Abstractions.  The facts are acceptances, which fan out the most: the   *)
(* app for the sender; SMS, app and WhatsApp for the receiver.  Templates, *)
(* rendering and the code in the SMS are left out.  Dispatch is called by  *)
(* nothing in the service yet; it is modelled for any caller.              *)
(***************************************************************************)
EXTENDS Naturals, FiniteSets

CONSTANTS
    Facts,      \* references of the facts that trigger a fan-out
    Phones,
    Known,      \* phones whose owner has an account
    Trips,      \* who sends to whom: pairs of phones
    Reaches,    \* channels besides SMS by which people are reached
    Readers,    \* fan-outs in flight
    Senders,    \* dispatches in flight
    None,
    MaxUpdates, \* bound on the updates of a profile
    MaxSends    \* bound on the sendings of a message

VARIABLES
    profile,    \* version of the row of each phone, 0 if there is none
    optedOut,   \* what owners of accounts switched off
    notice,     \* the row of each message, or None
    centre,     \* messages shown in the app
    fanOut,     \* of each fan-out: what it read, or None
    dispatch,   \* of each dispatch: what it read and was answered, or None
    sent,       \* history: times a message was accepted by its transport
    lost        \* history: times such an answer was not written

tables == <<profile, optedOut, notice, centre>>
vars   == <<tables, fanOut, dispatch, sent, lost>>

-----------------------------------------------------------------------------
Message == [phone: Phones, audience: {"SENDER", "RECEIVER"}, channel: {"APP", "SMS", "WHATSAPP"}]

Key == [fact: Facts, to: Message]

NoticeRow == [status: {"PENDING", "SENT", "DELIVERED", "FAILED", "SUPPRESSED"},
              version: 1 .. MaxSends + 2]

\* ACCEPTANCE_FAN_OUT, on the channels that reach a recipient: SMS always.
Deliverable(phone, audience, reach) ==
    {[phone |-> phone, audience |-> audience, channel |-> channel] :
        channel \in IF audience = "SENDER" THEN {"APP"} \cap reach
                                           ELSE {"SMS"} \cup ({"APP", "WHATSAPP"} \cap reach)}

IsMandatory(m) == m.audience = "RECEIVER" /\ m.channel = "SMS"

IsSuppressed(m) ==
    /\ ~IsMandatory(m)
    /\ m.phone \in Known /\ [phone |-> m.phone, channel |-> m.channel] \in optedOut

Init ==
    /\ profile = [phone \in Phones |-> 0]
    /\ optedOut = {}
    /\ notice = [k \in Key |-> None]
    /\ centre = {}
    /\ fanOut = [f \in Readers |-> None]
    /\ dispatch = [d \in Senders |-> None]
    /\ sent = [k \in Key |-> 0] /\ lost = [k \in Key |-> 0]

-----------------------------------------------------------------------------
(* Preferences and receipts *)

\* A mandatory message cannot be switched off, by anyone.
SetPreference(phone, channel) ==
    /\ phone \in Known
    /\ LET scope == [phone |-> phone, channel |-> channel]
       IN  IF scope \in optedOut THEN optedOut' = optedOut \ {scope}
           ELSE channel # "SMS" /\ optedOut' = optedOut \cup {scope}
    /\ UNCHANGED <<profile, notice, centre, fanOut, dispatch, sent, lost>>

MarkDelivered(k) ==
    /\ notice[k] # None /\ notice[k].status = "SENT"
    /\ notice' = [notice EXCEPT ![k].status = "DELIVERED", ![k].version = @ + 1]
    /\ UNCHANGED <<profile, optedOut, centre, fanOut, dispatch, sent, lost>>

-----------------------------------------------------------------------------
(* Fan-out *)

\* Who is reached how is said anew each time the fact is fanned out.
Begin(f, fact, sender, receiver, reach) ==
    /\ fanOut[f] = None
    /\ LET all   == Deliverable(sender, "SENDER", reach) \cup
                    Deliverable(receiver, "RECEIVER", reach)
           keys  == {[fact |-> fact, to |-> m] : m \in all}
           fresh == {k \in keys : notice[k] = None}
       IN  fanOut' = [fanOut EXCEPT ![f] =
              [people  |-> [phone \in {sender, receiver} |-> profile[phone]],
               twice   |-> sender = receiver,
               planned |-> {k \in fresh : ~IsSuppressed(k.to)},
               muted   |-> {k \in fresh : IsSuppressed(k.to)}]]
    /\ UNCHANGED <<tables, dispatch, sent, lost>>

\* One update of each profile it named, under the version it read.  Who is
\* both sender and receiver is saved twice; a row made and changed in one
\* transaction is looked for and not found, so the first such fan-out fails.
CanCommit(f) ==
    /\ \A phone \in DOMAIN fanOut[f].people :
          /\ profile[phone] = fanOut[f].people[phone]
          /\ fanOut[f].twice => profile[phone] > 0
    /\ \A k \in fanOut[f].planned \cup fanOut[f].muted : notice[k] = None

InCentre(keys) == {k \in keys : k.to.channel = "APP" /\ k.to.phone \in Known}

Commit(f) ==
    /\ fanOut[f] # None /\ CanCommit(f)
    /\ LET saved == IF fanOut[f].twice THEN 2 ELSE 1
       IN  /\ \A phone \in DOMAIN fanOut[f].people : profile[phone] + saved <= MaxUpdates
           /\ profile' = [phone \in Phones |->
                 IF phone \in DOMAIN fanOut[f].people THEN profile[phone] + saved
                                                      ELSE profile[phone]]
    /\ notice' = [k \in Key |->
          IF k \in fanOut[f].planned THEN [status |-> "PENDING", version |-> 1]
          ELSE IF k \in fanOut[f].muted THEN [status |-> "SUPPRESSED", version |-> 1]
          ELSE notice[k]]
    /\ centre' = centre \cup InCentre(fanOut[f].planned)
    /\ fanOut' = [fanOut EXCEPT ![f] = None]
    /\ UNCHANGED <<optedOut, dispatch, sent, lost>>

\* Refused by a version or a unique key, or the process died.
RollBack(f) ==
    /\ fanOut[f] # None
    /\ fanOut' = [fanOut EXCEPT ![f] = None]
    /\ UNCHANGED <<tables, dispatch, sent, lost>>

-----------------------------------------------------------------------------
(* Dispatch *)

\* A message that failed may be sent again.
Load(d, k) ==
    /\ dispatch[d] = None
    /\ notice[k] # None /\ notice[k].status \in {"PENDING", "FAILED"}
    /\ dispatch' = [dispatch EXCEPT ![d] =
          [key |-> k, version |-> notice[k].version, answer |-> None]]
    /\ UNCHANGED <<tables, fanOut, sent, lost>>

\* Accepted, or refused, or the transport cannot be reached.
Send(d, accepted) ==
    /\ dispatch[d] # None /\ dispatch[d].answer = None
    /\ sent[dispatch[d].key] < MaxSends
    /\ dispatch' = [dispatch EXCEPT ![d].answer = IF accepted THEN "SENT" ELSE "FAILED"]
    /\ sent' = IF accepted THEN [sent EXCEPT ![dispatch[d].key] = @ + 1] ELSE sent
    /\ UNCHANGED <<tables, fanOut, lost>>

(* Mutated form of SaveOutcome: the update does not name the version it read. *)
MutSaveOutcome(d) ==
    LET k == dispatch[d].key
    IN  notice' = [notice EXCEPT ![k] =
              [status |-> dispatch[d].answer, version |-> dispatch[d].version + 1]]

SaveOutcome(d) ==
    LET k == dispatch[d].key
    IN  /\ notice[k].version = dispatch[d].version
        /\ notice' = [notice EXCEPT ![k] =
              [status |-> dispatch[d].answer, version |-> @.version + 1]]

Record(d) ==
    /\ dispatch[d] # None /\ dispatch[d].answer # None
    /\ dispatch[d].version <= MaxSends
    /\ SaveOutcome(d)
    /\ dispatch' = [dispatch EXCEPT ![d] = None]
    /\ UNCHANGED <<profile, optedOut, centre, fanOut, sent, lost>>

\* Another dispatch was first, or the process died: what was sent stays sent.
Abandon(d) ==
    /\ dispatch[d] # None
    /\ lost' = IF dispatch[d].answer = "SENT" THEN [lost EXCEPT ![dispatch[d].key] = @ + 1]
                                              ELSE lost
    /\ dispatch' = [dispatch EXCEPT ![d] = None]
    /\ UNCHANGED <<tables, fanOut, sent>>

-----------------------------------------------------------------------------
Next ==
    \/ \E phone \in Phones, channel \in {"APP", "SMS", "WHATSAPP"} : SetPreference(phone, channel)
    \/ \E f \in Readers :
          \/ \E fact \in Facts, trip \in Trips, reach \in Reaches :
                Begin(f, fact, trip[1], trip[2], reach)
          \/ Commit(f) \/ RollBack(f)
    \/ \E k \in Key :
          \/ MarkDelivered(k)
          \/ \E d \in Senders : Load(d, k)
    \/ \E d \in Senders :
          \/ \E accepted \in BOOLEAN : Send(d, accepted)
          \/ Record(d) \/ Abandon(d)

Spec == Init /\ [][Next]_vars

-----------------------------------------------------------------------------
(* Properties *)

\* Every variable keeps the shape of its table.
TypeOK ==
    /\ profile \in [Phones -> 0 .. MaxUpdates]
    /\ optedOut \subseteq [phone: Known, channel: {"APP", "SMS", "WHATSAPP"}]
    /\ notice \in [Key -> NoticeRow \cup {None}]
    /\ centre \subseteq Key
    /\ \A f \in Readers : fanOut[f] # None =>
          fanOut[f].planned \subseteq Key /\ fanOut[f].muted \subseteq Key
    /\ \A d \in Senders : dispatch[d] # None =>
          dispatch[d].key \in Key /\ dispatch[d].answer \in {None, "SENT", "FAILED"}
    /\ sent \in [Key -> 0 .. MaxSends] /\ lost \in [Key -> 0 .. MaxSends]

\* Whatever is replayed, refused or raced, a receiver who is told anything of
\* a fact has its SMS, which nobody suppressed; the app's centre shows what was
\* planned for the app; and each sending of a message is one that was written,
\* one whose dispatch is still open, or one whose dispatch lost its outcome.
NoticesAreWhole ==
    /\ \A k \in Key : notice[k] # None /\ k.to.audience = "RECEIVER" =>
          LET sms == notice[[k EXCEPT !.to.channel = "SMS"]]
          IN  sms # None /\ sms.status # "SUPPRESSED"
    /\ centre = InCentre({k \in Key : notice[k] # None /\ notice[k].status # "SUPPRESSED"})
    /\ \A k \in Key :
          sent[k] = lost[k]
              + Cardinality({d \in Senders : dispatch[d] # None /\ dispatch[d].key = k
                                               /\ dispatch[d].answer = "SENT"})
              + (IF notice[k] # None /\ notice[k].status \in {"SENT", "DELIVERED"} THEN 1 ELSE 0)
=============================================================================
