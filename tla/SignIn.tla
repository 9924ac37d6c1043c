------------------------------- MODULE SignIn -------------------------------
(***************************************************************************)
(* Signing in with a code sent to a phone, in the identity service, and    *)
(* what administration may do meanwhile: grant and revoke roles, suspend   *)
(* and end sessions.  A request reads in one transaction and writes a      *)
(* challenge or a session only under the version it read; nothing else it  *)
(* read is looked at again.  A wrong guess is committed although it is     *)
(* refused, or it would not count.                                         *)
(*                                                                         *)
(* Abstractions.  One phone: rows of different phones never meet.  Tokens  *)
(* and codes are the sessions and challenges they open, a guess is right   *)
(* or wrong, and time passes for each challenge by itself.  Devices, the   *)
(* expiry of sessions and the configured first operator are left out.      *)
(***************************************************************************)
EXTENDS Naturals, FiniteSets

CONSTANTS
    Challenges, \* codes sent, numbered in the order they are sent
    Sessions,   \* sessions, numbered in the order they are minted
    Grants,     \* role grants, numbered in the order they are made
    Requests,   \* requests in flight
    Statuses,   \* statuses an operator gives a principal
    None,
    MaxAttempts,
    MaxCodes    \* max_codes_per_window

VARIABLES
    status,     \* the principal's, or None: nobody signed in yet
    challenge,  \* the row of each challenge, or None
    recent,     \* challenges sent in the current window
    expired,    \* challenges past their time
    session,    \* the row of each session, or None
    grant,      \* of each grant of one role: None, "ACTIVE" or "REVOKED"
    request,    \* of each request: what it read, or None
    mismatches  \* history: guesses at a challenge that were answered as wrong

codes == <<challenge, recent, expired, mismatches>>
vars  == <<status, codes, session, grant, request>>

-----------------------------------------------------------------------------
ChallengeRow == [failed: 0 .. MaxAttempts, consumed: BOOLEAN, version: Nat]

SessionRow == [challenge: Challenges, revoked: BOOLEAN, version: Nat]

CanAuthenticate == status \in {"PENDING_VERIFICATION", "ACTIVE"}

Sent(k)   == challenge[k] # None
Minted(s) == session[s] # None

OpenChallenges == {k \in Challenges : Sent(k) /\ ~challenge[k].consumed}
LiveSessions   == {s \in Sessions : Minted(s) /\ ~session[s].revoked}
IsHeld         == \E g \in Grants : grant[g] = "ACTIVE"

Init ==
    /\ status = None
    /\ challenge = [k \in Challenges |-> None]
    /\ recent = {} /\ expired = {}
    /\ session = [s \in Sessions |-> None]
    /\ grant = [g \in Grants |-> None]
    /\ request = [r \in Requests |-> None]
    /\ mismatches = [k \in Challenges |-> 0]

Idle(r)       == request[r] = None
Reads(r, row) == request' = [request EXCEPT ![r] = row]
Over(r)       == request' = [request EXCEPT ![r] = None]
Is(r, kind)   == ~Idle(r) /\ request[r].kind = kind

\* A request whose process dies, or which finds a row changed.
Leave(r) ==
    /\ ~Idle(r) /\ Over(r)
    /\ UNCHANGED <<status, codes, session, grant>>

-----------------------------------------------------------------------------
(* request_code *)

BeginCode(r) ==
    /\ Idle(r) /\ Cardinality(recent) < MaxCodes
    /\ Reads(r, [kind |-> "code", new |-> status = None,
                 open |-> [k \in OpenChallenges |-> challenge[k].version]])
    /\ UNCHANGED <<status, codes, session, grant>>

\* The codes it found open are consumed, and a new one is sent.  Only one of
\* two requests can make the principal: the phone is unique.
SendCode(r, k) ==
    /\ Is(r, "code")
    /\ request[r].new => status = None
    /\ ~Sent(k) /\ \A j \in Challenges : j < k => Sent(j)
    /\ \A j \in DOMAIN request[r].open : challenge[j].version = request[r].open[j]
    /\ status' = IF request[r].new THEN "ACTIVE" ELSE status
    /\ challenge' = [j \in Challenges |->
          IF j = k THEN [failed |-> 0, consumed |-> FALSE, version |-> 1]
          ELSE IF j \in DOMAIN request[r].open
               THEN [challenge[j] EXCEPT !.consumed = TRUE, !.version = @ + 1]
          ELSE challenge[j]]
    /\ recent' = recent \cup {k}
    /\ Over(r)
    /\ UNCHANGED <<expired, mismatches, session, grant>>

WindowPasses(k) ==
    /\ k \in recent
    /\ recent' = recent \ {k}
    /\ UNCHANGED <<status, challenge, expired, mismatches, session, grant, request>>

CodeExpires(k) ==
    /\ Sent(k) /\ k \notin expired
    /\ expired' = expired \cup {k}
    /\ UNCHANGED <<status, challenge, recent, mismatches, session, grant, request>>

-----------------------------------------------------------------------------
(* verify_code *)

\* A code that is consumed, expired or worn out is refused at once.
BeginVerify(r, k) ==
    /\ Idle(r)
    /\ k \in OpenChallenges \ expired /\ challenge[k].failed < MaxAttempts
    /\ Reads(r, [kind |-> "verify", challenge |-> k, version |-> challenge[k].version,
                 allowed |-> CanAuthenticate])
    /\ UNCHANGED <<status, codes, session, grant>>

(* Mutated form of Unchanged: the update does not name the version it read. *)
MutUnchanged(r, k) == Is(r, "verify") /\ request[r].challenge = k

Unchanged(r, k) ==
    /\ Is(r, "verify") /\ request[r].challenge = k
    /\ challenge[k].version = request[r].version

\* The last guess allowed burns the code.
GuessWrong(r, k) ==
    /\ Unchanged(r, k)
    /\ challenge' = [challenge EXCEPT
          ![k].failed = @ + 1, ![k].version = @ + 1,
          ![k].consumed = challenge[k].failed + 1 >= MaxAttempts]
    /\ mismatches' = [mismatches EXCEPT ![k] = @ + 1]
    /\ Over(r)
    /\ UNCHANGED <<status, recent, expired, session, grant>>

Consumed(k) == [challenge EXCEPT ![k].consumed = TRUE, ![k].version = @ + 1]

RefusePrincipal(r, k) ==
    /\ Unchanged(r, k) /\ ~request[r].allowed
    /\ challenge' = Consumed(k)
    /\ Over(r)
    /\ UNCHANGED <<status, recent, expired, mismatches, session, grant>>

MintSession(r, k, s) ==
    /\ Unchanged(r, k) /\ request[r].allowed
    /\ ~Minted(s) /\ \A t \in Sessions : t < s => Minted(t)
    /\ challenge' = Consumed(k)
    /\ session' = [session EXCEPT ![s] = [challenge |-> k, revoked |-> FALSE, version |-> 1]]
    /\ Over(r)
    /\ UNCHANGED <<status, recent, expired, mismatches, grant>>

-----------------------------------------------------------------------------
(* Sessions and the principal's status *)

RevokeSession(s) ==
    /\ s \in LiveSessions
    /\ session' = [session EXCEPT ![s].revoked = TRUE, ![s].version = @ + 1]
    /\ UNCHANGED <<status, codes, grant, request>>

\* Suspending or closing goes on to the sessions, in a transaction of its own.
SetPrincipalStatus(r, to) ==
    /\ Idle(r) /\ status # None /\ to # status
    /\ status' = to
    /\ IF to \in {"SUSPENDED", "CLOSED"} THEN Reads(r, [kind |-> "block"])
                                         ELSE UNCHANGED request
    /\ UNCHANGED <<codes, session, grant>>

ListSessions(r) ==
    /\ Is(r, "block")
    /\ Reads(r, [kind |-> "revoke", live |-> [s \in LiveSessions |-> session[s].version]])
    /\ UNCHANGED <<status, codes, session, grant>>

(* Mutated form of Revoked: the revocation is not written. *)
MutRevoked(row) == [row EXCEPT !.version = @ + 1]

Revoked(row) == [row EXCEPT !.revoked = TRUE, !.version = @ + 1]

RevokeAllForPrincipal(r) ==
    /\ Is(r, "revoke")
    /\ LET live == request[r].live
       IN  /\ \A s \in DOMAIN live : session[s].version = live[s]
           /\ session' = [s \in Sessions |->
                 IF s \in DOMAIN live THEN Revoked(session[s]) ELSE session[s]]
    /\ Over(r)
    /\ UNCHANGED <<status, codes, grant>>

-----------------------------------------------------------------------------
(* Roles *)

BeginGrant(r) ==
    /\ Idle(r) /\ status \notin {None, "CLOSED"} /\ ~IsHeld
    /\ Reads(r, [kind |-> "grant"])
    /\ UNCHANGED <<status, codes, session, grant>>

GrantRole(r, g) ==
    /\ Is(r, "grant")
    /\ grant[g] = None /\ \A h \in Grants : h < g => grant[h] # None
    /\ grant' = [grant EXCEPT ![g] = "ACTIVE"]
    /\ Over(r)
    /\ UNCHANGED <<status, codes, session>>

RevokeRole(g) ==
    /\ grant[g] = "ACTIVE"
    /\ grant' = [grant EXCEPT ![g] = "REVOKED"]
    /\ UNCHANGED <<status, codes, session, request>>

-----------------------------------------------------------------------------
Next ==
    \/ \E r \in Requests :
          \/ Leave(r) \/ BeginCode(r) \/ BeginGrant(r)
          \/ ListSessions(r) \/ RevokeAllForPrincipal(r)
          \/ \E to \in Statuses : SetPrincipalStatus(r, to)
          \/ \E g \in Grants : GrantRole(r, g)
          \/ \E k \in Challenges :
                \/ SendCode(r, k)
                \/ BeginVerify(r, k) \/ GuessWrong(r, k) \/ RefusePrincipal(r, k)
                \/ \E s \in Sessions : MintSession(r, k, s)
    \/ \E k \in Challenges : WindowPasses(k) \/ CodeExpires(k)
    \/ \E s \in Sessions : RevokeSession(s)
    \/ \E g \in Grants : RevokeRole(g)

Spec == Init /\ [][Next]_vars

-----------------------------------------------------------------------------
(* Properties *)

\* Every variable keeps the shape of its table.
TypeOK ==
    /\ status \in Statuses \cup {"ACTIVE", None}
    /\ challenge \in [Challenges -> ChallengeRow \cup {None}]
    /\ recent \subseteq Challenges /\ expired \subseteq Challenges
    /\ session \in [Sessions -> SessionRow \cup {None}]
    /\ grant \in [Grants -> {None, "ACTIVE", "REVOKED"}]
    /\ \A r \in Requests : Idle(r) \/
          request[r].kind \in {"code", "verify", "block", "revoke", "grant"}
    /\ mismatches \in [Challenges -> Nat]

\* However many guess, ask again and verify at once, a code opens at most one
\* session and is spent by it, every guess answered as wrong is counted, and
\* no more of them are answered than the policy allows.
CodesOpenOneSession ==
    /\ \A s, t \in Sessions : Minted(s) /\ Minted(t) /\ session[s].challenge = session[t].challenge
          => s = t
    /\ \A s \in Sessions : Minted(s) => challenge[session[s].challenge].consumed
    /\ \A k \in Challenges : Sent(k) =>
          /\ mismatches[k] = challenge[k].failed
          /\ challenge[k].failed >= MaxAttempts => challenge[k].consumed
    /\ \A k \in Challenges : mismatches[k] <= MaxAttempts

\* Once a principal's block has run its course, the sessions it left alive are
\* those that were minted after it had listed them; no session comes back.
SessionsStayEnded ==
    \A s \in Sessions : Minted(s) =>
        /\ session[s].revoked => session'[s] = session[s]
        /\ \A r \in Requests : Is(r, "revoke") /\ s \in DOMAIN request[r].live
              /\ session' # session /\ request'[r] = None => session'[s].revoked

BlockEndsSessions == [][SessionsStayEnded]_vars
=============================================================================
