----------------------------- MODULE DesksProofs -----------------------------
(* What TLAPS proves of Desks for every value of its constants, of which the  *)
(* runs of MCDesks check small ones: at each place the tables keep their      *)
(* shape (TypesOK), what is told agrees with the rows (StoriesAgree), where   *)
(* there may be one racing requests never make two (OneAtATime), no request   *)
(* with old rows in hand undoes what was settled since (NothingIsUndone), and *)
(* custody starts once (CustodyStartsOnce).                                   *)
(*                                                                            *)
(* DesksInv is the inductive invariant: at each place the invariant of the    *)
(* component that is at work there.  Each section below is about one          *)
(* component: its invariant, the lemma that its initial states satisfy it,    *)
(* the lemmas that its actions preserve it, and the lemma that it implies     *)
(* what the component promises.  The accepted-fact consumer, the unit of work *)
(* and the handover have modules of proofs of their own, which the last       *)
(* section takes up.                                                          *)
EXTENDS Desks, HubHandoverProofs, Sequences, TLAPS, FiniteSetTheorems

-----------------------------------------------------------------------------
(* The variables, under the names they have in the components.                *)

\* Sends
sPlaced == x1
sParcel == x2
sFacts == x3
sOpened == x4

\* SignIn
iStatus == x1
iChallenge == x2
iRecent == x3
iExpired == x4
iSession == x5
iGrant == x6
iRequest == x7
iMismatches == x8

\* ClaimDesk
cClaim == x1
cThread == x2
cIncident == x3
cRequest == x4

\* Notices
nProfile == x1
nOptedOut == x2
nNotice == x3
nCentre == x4
nFanOut == x5
nDispatch == x6
nSent == x7
nLost == x8

\* DurableInbox
lRecord == x1
lFirst == x2
lSecond == x3
lDelivery == x4
lAcked == x5
lFailures == x6

\* Workforce
wToday == x1
wApplication == x2
wDriver == x3
wPattern == x4
wStarted == x5
wLate == x6
wBlock == x7
wAsked == x8
wLeave == x9
wRequest == x10

\* MerchantOffice
oApplication == x1
oMerchants == x2
oStore == x3
oMember == x4
oMerchant == x5
oFacts == x6
oRequest == x7

\* MerchantShelf
hCategory == x1
hProduct == x2
hPrinter == x3
hBatch == x4
hRequest == x5
hDrawn == x6

\* WireContract
eRequest == x1
eRow == x2
eLetter == x3
eRead == x4

\* BridgeLanding
bSlot == x1
bStreamed == x2
bLanding == x3
bCheckpoint == x4
bTick == x5
bOutbox == x6
bMapping == x7
bErrors == x8

\* AddressBook
aAddress == x1
aRequest == x2

\* TimelineConsumer
tMsg == x1
tDeliveries == x2
tRecord == x3
tTimeline == x4
tStore == x5
tMerged == x6
tHandler == x7

USE DEF sPlaced, sParcel, sFacts, sOpened, iStatus, iChallenge, iRecent, iExpired, iSession, iGrant,
     iRequest, iMismatches, cClaim, cThread, cIncident, cRequest, nProfile, nOptedOut, nNotice,
     nCentre, nFanOut, nDispatch, nSent, nLost, lRecord, lFirst, lSecond, lDelivery, lAcked,
     lFailures, wToday, wApplication, wDriver, wPattern, wStarted, wLate, wBlock, wAsked, wLeave,
     wRequest, oApplication, oMerchants, oStore, oMember, oMerchant, oFacts, oRequest, hCategory,
     hProduct, hPrinter, hBatch, hRequest, hDrawn, eRequest, eRow, eLetter, eRead, bSlot, bStreamed,
     bLanding, bCheckpoint, bTick, bOutbox, bMapping, bErrors, aAddress, aRequest, tMsg,
     tDeliveries, tRecord, tTimeline, tStore, tMerged, tHandler

\* A set without two elements.
LEMMA AtMostOne ==
    ASSUME NEW S, \A x, y \in S : x = y
    PROVE  Cardinality(S) <= 1
<1>1. CASE S = {}
  BY <1>1, FS_EmptySet
<1>2. CASE S # {}
  <2>1. PICK x \in S : TRUE
    BY <1>2
  <2>2. S = {x}
    BY <2>1
  <2>. QED  BY <2>2, FS_Singleton
<1>. QED  BY <1>1, <1>2

-----------------------------------------------------------------------------
(* Sends. SendsInv: a clerk has open the row as it is or was under an older *)
(* version, labels are borne once, and what was told of a parcel is what    *)
(* its row says.                                                            *)

SendFacts == [parcel: Parcels, kind: {"REGISTERED", "CANCELLED"}, label: Labels \cup {None},
          details: Details, cod: Amounts \cup {None}, version: 2 .. MaxVersion]

SendsRowsOK ==
    /\ sPlaced \subseteq Orders
    /\ sParcel \in [Parcels -> Sending!ParcelRow \cup {None}]
    /\ sFacts \subseteq SendFacts

\* What a clerk read is the row, or one the row has had under an older version.
ParcelRead(p, row) ==
    /\ p \in Parcels /\ Sending!Made(p) /\ row \in Sending!ParcelRow /\ row.version <= sParcel[p].version
    /\ row.version = sParcel[p].version => row = sParcel[p]

ClerkRead(c) == sOpened[c] # None => \A p \in DOMAIN sOpened[c] : ParcelRead(p, sOpened[c][p])

\* Where labels and visits stand in the sender's half.
SendRowTells(row) ==
    /\ row.window = "BOOKED" => row.order \in Merchants /\ row.label # None
    /\ row.status = "READY_FOR_PICKUP" => row.label # None
    /\ row.status = "AWAITING_DROPOFF" => row.order \notin Merchants
    /\ row.status = "REGISTERED" /\ row.order \in Merchants => row.label # None

\* No two parcels that were not cancelled bear one label.
LabelsOnce ==
    \A p, q \in Parcels :
        Sending!Made(p) /\ Sending!Made(q) /\ p # q /\ sParcel[p].label # None /\ sParcel[q].label = sParcel[p].label =>
            "CANCELLED" \in {sParcel[p].status, sParcel[q].status}

\* What was told of a parcel.
Told(p) == {f \in sFacts : f.parcel = p}

TaleOf(p) ==
    IF ~Sending!Made(p) THEN Told(p) = {}
    ELSE /\ sParcel[p].status \in Sending!Ended =>
               \E f \in Told(p) : Told(p) = {f} /\ f.kind = sParcel[p].status
                                       /\ f.label = sParcel[p].label
         /\ Sending!IsLive(p) => Told(p) = {}
         /\ \A f \in Told(p) :
               \/ sParcel[p].status = "REGISTERED" /\ f.version < sParcel[p].version
               \/ /\ f.version = sParcel[p].version
                  /\ f.details = sParcel[p].details /\ f.cod = sParcel[p].cod

SendsInv ==
    /\ SendsRowsOK /\ DOMAIN sOpened = Requests
    /\ \A c \in Requests : ClerkRead(c)
    /\ \A p \in Parcels : Sending!Made(p) => SendRowTells(sParcel[p])
    /\ LabelsOnce
    /\ \A p \in Parcels : TaleOf(p)

LEMMA SendsTell == SendsInv => Sending!TypeOK /\ Sending!SendsTellOneStory
<1> SUFFICES ASSUME SendsInv PROVE Sending!TypeOK /\ Sending!SendsTellOneStory
  OBVIOUS
<1>1. Sending!TypeOK
  <2>1. \A c \in Requests : sOpened[c] # None =>
          DOMAIN sOpened[c] \subseteq Parcels /\ \A p \in DOMAIN sOpened[c] : sOpened[c][p] \in Sending!ParcelRow
    BY DEF SendsInv, ClerkRead, ParcelRead
  <2>. QED  BY <2>1 DEF SendsInv, SendsRowsOK, SendFacts, Sending!TypeOK
<1>2. Sending!SendsTellOneStory
  BY DEF SendsInv, TaleOf, Told, SendRowTells, LabelsOnce, Sending!SendsTellOneStory
<1>. QED  BY <1>1, <1>2

LEMMA SendsInit == Sending!Init => SendsInv
  BY SendsConstants
       DEF Sending!Init, SendsInv, SendsRowsOK, ClerkRead, Sending!Made, LabelsOnce, TaleOf, Told,
           SendFacts

\* A parcel is written under a higher version.
ParcelsGrow ==
    \A p \in Parcels : Sending!Made(p) =>
        Sending!Made(p)' /\ (sParcel'[p] = sParcel[p] \/ sParcel'[p].version > sParcel[p].version)

LEMMA ClerksStillRead ==
    ASSUME SendsInv, SendsRowsOK', ParcelsGrow, NEW c \in Requests, sOpened'[c] = sOpened[c]
    PROVE  ClerkRead(c)'
<1>1. ASSUME NEW p, NEW row, ParcelRead(p, row) PROVE ParcelRead(p, row)'
  <2>1. /\ sParcel[p].version \in Nat /\ sParcel'[p].version \in Nat /\ row.version \in Nat
    BY <1>1, SendsConstants
         DEF ParcelRead, ParcelsGrow, SendsInv, SendsRowsOK, Sending!Made, Sending!ParcelRow
  <2>. QED  BY <1>1, <2>1 DEF ParcelRead, ParcelsGrow
<1>2. PICK rows : rows = sOpened[c]
  OBVIOUS
<1>3. rows # None => \A p \in DOMAIN rows : ParcelRead(p, rows[p])
  BY <1>2 DEF SendsInv, ClerkRead
<1>. QED  BY <1>1, <1>2, <1>3 DEF ClerkRead

LEMMA ClerksOver ==
    ASSUME SendsInv, SendsRowsOK', ParcelsGrow, NEW c \in Requests,
           sOpened' = [sOpened EXCEPT ![c] = None]
    PROVE  DOMAIN sOpened' = Requests /\ \A d \in Requests : ClerkRead(d)'
<1>1. /\ DOMAIN sOpened' = Requests /\ sOpened'[c] = None
      /\ \A d \in Requests : d # c => sOpened'[d] = sOpened[d]
  BY DEF SendsInv
<1>2. ClerkRead(c)'
  BY <1>1 DEF ClerkRead
<1>. QED  BY <1>1, <1>2, ClerksStillRead

LEMMA ReadOK ==
    ASSUME SendsInv, NEW c \in Requests
    PROVE  /\ Sending!Leave(c) => SendsInv'
           /\ \A rows \in SUBSET Parcels : (\A p \in rows : Sending!Made(p)) /\ Sending!Read(c, rows) => SendsInv'
<1>0. ASSUME UNCHANGED <<sPlaced, sParcel, sFacts>>
      PROVE  /\ SendsRowsOK' /\ ParcelsGrow /\ LabelsOnce'
             /\ (\A p \in Parcels : Sending!Made(p) => SendRowTells(sParcel[p]))'
             /\ (\A p \in Parcels : TaleOf(p))'
  BY <1>0
       DEF SendsInv, SendsRowsOK, ParcelsGrow, LabelsOnce, Sending!Made, SendRowTells, TaleOf, Told,
           Sending!IsLive
<1>1. ASSUME Sending!Leave(c) PROVE SendsInv'
  BY <1>0, <1>1, ClerksOver DEF Sending!Leave, SendsInv
<1>2. ASSUME NEW rows \in SUBSET Parcels, \A p \in rows : Sending!Made(p), Sending!Read(c, rows)
      PROVE SendsInv'
  <2>1. /\ DOMAIN sOpened' = Requests /\ sOpened'[c] = [p \in rows |-> sParcel[p]]
        /\ \A d \in Requests : d # c => sOpened'[d] = sOpened[d]
        /\ UNCHANGED <<sPlaced, sParcel, sFacts>>
    BY <1>2 DEF Sending!Read, SendsInv
  <2>2. ClerkRead(c)'
    <3>0. \A p \in rows : sParcel[p] \in Sending!ParcelRow
      BY <1>2 DEF SendsInv, SendsRowsOK, Sending!Made
    <3>1. \A p \in rows : sParcel[p] \in Sending!ParcelRow /\ sParcel[p].version \in Nat
      BY <3>0, SendsConstants DEF Sending!ParcelRow
    <3>. QED  BY <1>2, <2>1, <3>1 DEF ClerkRead, ParcelRead, Sending!Made
  <2>3. \A d \in Requests : ClerkRead(d)'
    BY <1>0, <2>1, <2>2, ClerksStillRead
  <2>. QED  BY <1>0, <2>1, <2>3 DEF SendsInv
<1>. QED  BY <1>1, <1>2

\* What a write does to the rows of the parcels it writes.
LEMMA WrittenOver ==
    ASSUME SendsInv, NEW c \in Requests, sOpened[c] # None, NEW after, Sending!Write(c, after),
           DOMAIN after = DOMAIN sOpened[c],
           \A p \in DOMAIN after : after[p] \in Sending!ParcelRow /\ after[p].version = sOpened[c][p].version,
           sFacts' \subseteq SendFacts
    PROVE  /\ DOMAIN after \subseteq Parcels
           /\ \A p \in DOMAIN after :
                 /\ Sending!Made(p) /\ sOpened[c][p] = sParcel[p] /\ after[p].version = sParcel[p].version
                 /\ sParcel'[p] = [after[p] EXCEPT !.version = @ + 1] /\ sParcel'[p] \in Sending!ParcelRow
           /\ \A p \in Parcels : p \notin DOMAIN after => sParcel'[p] = sParcel[p]
           /\ SendsRowsOK' /\ ParcelsGrow
           /\ DOMAIN sOpened' = Requests /\ \A d \in Requests : ClerkRead(d)'
<1>1. \A p \in DOMAIN after :
         /\ p \in Parcels /\ Sending!Made(p) /\ sOpened[c][p] = sParcel[p] /\ after[p].version = sParcel[p].version
         /\ sParcel[p].version < MaxVersion /\ sParcel[p] \in Sending!ParcelRow
  BY DEF SendsInv, ClerkRead, ParcelRead, Sending!Write, Sending!Fresh
<1>2. /\ sParcel' = [p \in Parcels |->
            IF p \in DOMAIN after THEN [after[p] EXCEPT !.version = @ + 1] ELSE sParcel[p]]
      /\ sOpened' = [sOpened EXCEPT ![c] = None] /\ sPlaced' = sPlaced
  BY DEF Sending!Write
<1>3. ASSUME NEW p \in DOMAIN after
      PROVE  /\ sParcel'[p] = [after[p] EXCEPT !.version = @ + 1]
             /\ sParcel'[p] \in Sending!ParcelRow /\ sParcel'[p].version = sParcel[p].version + 1
             /\ sParcel[p].version \in Nat
  <2>1. sParcel'[p] = [after[p] EXCEPT !.version = @ + 1] /\ after[p] \in Sending!ParcelRow
    BY <1>1, <1>2
  <2>2. sParcel[p].version \in Nat /\ sParcel[p].version + 1 \in 1 .. MaxVersion
    BY <1>1, SendsConstants DEF Sending!ParcelRow
  <2>. QED  BY <1>1, <2>1, <2>2 DEF Sending!ParcelRow
<1>4. \A p \in Parcels : p \notin DOMAIN after => sParcel'[p] = sParcel[p]
  BY <1>2
<1>5. SendsRowsOK'
  <2>1. \A p \in Parcels : sParcel'[p] \in Sending!ParcelRow \cup {None}
    BY <1>3, <1>4 DEF SendsInv, SendsRowsOK
  <2>2. sParcel' = [p \in Parcels |-> sParcel'[p]]
    BY <1>2
  <2>. QED  BY <1>2, <2>1, <2>2 DEF SendsInv, SendsRowsOK
<1>6. ParcelsGrow
  <2>1. ASSUME NEW p \in DOMAIN after PROVE Sending!Made(p)' /\ sParcel'[p].version > sParcel[p].version
    <3>1. \A n, m : n \in Nat /\ m = n + 1 => m > n
      OBVIOUS
    <3>. QED  BY <1>3, <3>1, SendsConstants DEF Sending!Made
  <2>. QED  BY <1>4, <2>1 DEF ParcelsGrow, Sending!Made
<1>7. DOMAIN sOpened' = Requests /\ \A d \in Requests : ClerkRead(d)'
  BY <1>2, <1>5, <1>6, ClerksOver
<1>. QED  BY <1>1, <1>3, <1>4, <1>5, <1>6, <1>7

\* What a write may make of a row without ending the sender's half: a live parcel
\* stays live, a registered one keeps its label.
MayAmend(c, p, row) ==
    LET old == sOpened[c][p]
    IN  /\ row \in Sending!ParcelRow /\ row.version = old.version /\ row.order = old.order
        /\ SendRowTells(old) => SendRowTells(row)
        /\ \/ old.status \notin Sending!Ended /\ row.status \notin Sending!Ended
           \/ old.status = "REGISTERED" /\ row.status = "REGISTERED" /\ row.label = old.label
        /\ row.label = old.label \/ ~Sending!LabelTaken(row.label)

\* The rows of a write that is not the end of the half.
LEMMA AmendedOK ==
    ASSUME SendsInv, NEW c \in Requests, sOpened[c] # None, NEW after, Sending!Write(c, after),
           UNCHANGED sFacts,
           DOMAIN after = DOMAIN sOpened[c],
           \A p \in DOMAIN after : MayAmend(c, p, after[p]),
           \A p, q \in DOMAIN after : p # q => after[p].label = sOpened[c][p].label
    PROVE  SendsInv'
<1>1. /\ DOMAIN after \subseteq Parcels
      /\ \A p \in DOMAIN after :
            /\ Sending!Made(p) /\ sOpened[c][p] = sParcel[p] /\ after[p].version = sParcel[p].version
            /\ sParcel'[p] = [after[p] EXCEPT !.version = @ + 1] /\ sParcel'[p] \in Sending!ParcelRow
      /\ \A p \in Parcels : p \notin DOMAIN after => sParcel'[p] = sParcel[p]
      /\ SendsRowsOK' /\ ParcelsGrow
      /\ DOMAIN sOpened' = Requests /\ \A d \in Requests : ClerkRead(d)'
  <2>1. \A p \in DOMAIN after : after[p] \in Sending!ParcelRow /\ after[p].version = sOpened[c][p].version
    BY DEF MayAmend
  <2>2. sFacts' \subseteq SendFacts
    BY DEF SendsInv, SendsRowsOK
  <2>. QED  BY <2>1, <2>2, WrittenOver
<1>2. \A p \in DOMAIN after : /\ after[p] \in Sending!ParcelRow /\ SendRowTells(sParcel[p]) /\ Sending!Made(p)
                              /\ sParcel[p] \in Sending!ParcelRow /\ MayAmend(c, p, after[p])
  <2>1. ASSUME NEW p \in DOMAIN after
        PROVE  Sending!Made(p) /\ p \in Parcels /\ MayAmend(c, p, after[p])
    BY <1>1
  <2>2. \A p \in DOMAIN after : SendRowTells(sParcel[p])
    BY <2>1 DEF SendsInv
  <2>3. \A p \in DOMAIN after : sParcel[p] \in Sending!ParcelRow
    BY <2>1 DEF SendsInv, SendsRowsOK, Sending!Made
  <2>. QED  BY <2>1, <2>2, <2>3 DEF MayAmend
<1>3. ASSUME NEW p \in DOMAIN after
      PROVE  /\ sParcel'[p].status = after[p].status /\ sParcel'[p].label = after[p].label
             /\ sParcel'[p].order = after[p].order /\ sParcel'[p].window = after[p].window
             /\ sParcel'[p].version = sParcel[p].version + 1 /\ sParcel[p].version \in Nat
             /\ Sending!Made(p)'
  <2>1. after[p] \in Sending!ParcelRow /\ sParcel'[p] = [after[p] EXCEPT !.version = @ + 1]
        /\ after[p].version = sParcel[p].version /\ sParcel'[p] \in Sending!ParcelRow
    BY <1>1, <1>2
  <2>2. after[p].version \in Nat
    BY <2>1, SendsConstants DEF Sending!ParcelRow
  <2>. QED  BY <2>1, <2>2, SendsConstants DEF Sending!ParcelRow, Sending!Made
<1>4. (\A p \in Parcels : Sending!Made(p) => SendRowTells(sParcel[p]))'
  <2>1. \A p \in DOMAIN after : SendRowTells(after[p])
    BY <1>1, <1>2 DEF MayAmend
  <2>2. \A p \in DOMAIN after : SendRowTells(sParcel[p])'
    BY <1>3, <2>1 DEF SendRowTells
  <2>3. \A p \in Parcels : p \notin DOMAIN after /\ Sending!Made(p)' => SendRowTells(sParcel[p])'
    BY <1>1 DEF SendsInv, Sending!Made, SendRowTells
  <2>. QED  BY <2>2, <2>3
<1>5. LabelsOnce'
  <2>1. ASSUME NEW p \in Parcels, Sending!Made(p)'
        PROVE  /\ Sending!Made(p)
               /\ sParcel'[p].status = "CANCELLED" <=> sParcel[p].status = "CANCELLED"
               /\ \/ sParcel'[p].label = sParcel[p].label
                  \/ /\ p \in DOMAIN after /\ ~Sending!LabelTaken(sParcel'[p].label)
                     /\ \A q \in Parcels : q # p => q \notin DOMAIN after
    <3>1. CASE p \notin DOMAIN after
      BY <1>1, <2>1, <3>1 DEF Sending!Made
    <3>2. CASE p \in DOMAIN after
      <4>1. /\ sParcel'[p].status = after[p].status /\ sParcel'[p].label = after[p].label
            /\ Sending!Made(p) /\ MayAmend(c, p, after[p]) /\ sOpened[c][p] = sParcel[p]
        BY <1>1, <1>2, <1>3, <3>2
      <4>2. after[p].label = sParcel[p].label \/ (~Sending!LabelTaken(after[p].label) /\ \A q \in Parcels : q # p => q \notin DOMAIN after)
        BY <3>2, <4>1 DEF MayAmend
      <4>. QED  BY <3>2, <4>1, <4>2 DEF MayAmend, Sending!Ended
    <3>. QED  BY <3>1, <3>2
  <2>2. ASSUME NEW p \in Parcels, NEW q \in Parcels, Sending!Made(p)', Sending!Made(q)', p # q,
               sParcel'[p].label # None, sParcel'[q].label = sParcel'[p].label
        PROVE  "CANCELLED" \in {sParcel'[p].status, sParcel'[q].status}
    <3>1. CASE sParcel'[p].label = sParcel[p].label /\ sParcel'[q].label = sParcel[q].label
      BY <2>1, <2>2, <3>1 DEF SendsInv, LabelsOnce
    <3>2. CASE sParcel'[p].label # sParcel[p].label
      <4>1. Sending!Made(q) /\ sParcel'[q].label = sParcel[q].label /\ ~Sending!LabelTaken(sParcel'[p].label)
        BY <1>1, <2>1, <2>2, <3>2
      <4>2. sParcel[q].status = "CANCELLED"
        BY <2>2, <4>1 DEF Sending!LabelTaken
      <4>. QED  BY <2>1, <2>2, <4>2
    <3>3. CASE sParcel'[q].label # sParcel[q].label
      <4>1. Sending!Made(p) /\ sParcel'[p].label = sParcel[p].label /\ ~Sending!LabelTaken(sParcel'[q].label)
        BY <1>1, <2>1, <2>2, <3>3
      <4>2. sParcel[p].status = "CANCELLED"
        BY <2>2, <4>1 DEF Sending!LabelTaken
      <4>. QED  BY <2>1, <2>2, <4>2
    <3>. QED  BY <3>1, <3>2, <3>3
  <2>. QED  BY <2>2 DEF LabelsOnce
<1>6. (\A p \in Parcels : TaleOf(p))'
  <2>1. ASSUME NEW p \in DOMAIN after PROVE TaleOf(p)'
    <3>1. /\ p \in Parcels /\ Sending!Made(p) /\ Sending!Made(p)' /\ TaleOf(p) /\ MayAmend(c, p, after[p])
          /\ sOpened[c][p] = sParcel[p] /\ Told(p)' = Told(p)
      BY <1>1, <1>2, <1>3 DEF SendsInv, Told
    <3>2. /\ sParcel'[p].status = after[p].status /\ sParcel'[p].label = after[p].label
          /\ sParcel'[p].version = sParcel[p].version + 1 /\ sParcel[p].version \in Nat
      BY <1>3
    <3>3. CASE sParcel[p].status \notin Sending!Ended
      <4>1. Told(p) = {} /\ sParcel'[p].status \notin Sending!Ended
        BY <3>1, <3>2, <3>3 DEF TaleOf, Sending!IsLive, MayAmend
      <4>. QED  BY <3>1, <4>1 DEF TaleOf
    <3>4. CASE sParcel[p].status \in Sending!Ended
      <4>1. sParcel[p].status = "REGISTERED" /\ sParcel'[p].status = "REGISTERED"
            /\ sParcel'[p].label = sParcel[p].label
        BY <3>1, <3>2, <3>4 DEF MayAmend
      <4>2. PICK f : /\ f \in Told(p) /\ Told(p) = {f} /\ f.kind = "REGISTERED" /\ f.label = sParcel[p].label
        BY <3>1, <3>4, <4>1 DEF TaleOf
      <4>3. f.version \in Nat /\ f.version <= sParcel[p].version
        <5>1. f \in SendFacts
          BY <4>2 DEF Told, SendsInv, SendsRowsOK
        <5>2. f.version \in Nat
          BY <5>1, SendsConstants DEF SendFacts
        <5>3. f.version < sParcel[p].version \/ f.version = sParcel[p].version
          BY <3>1, <4>2 DEF TaleOf
        <5>. QED  BY <3>2, <5>2, <5>3
      <4>4. f.version < sParcel'[p].version
        BY <3>2, <4>3
      <4>. QED  BY <3>1, <3>4, <4>1, <4>2, <4>4 DEF TaleOf, Sending!IsLive, Sending!Ended
    <3>. QED  BY <3>3, <3>4
  <2>2. ASSUME NEW p \in Parcels, p \notin DOMAIN after PROVE TaleOf(p)'
    BY <1>1, <2>2 DEF SendsInv, TaleOf, Told, Sending!Made, Sending!IsLive
  <2>. QED  BY <2>1, <2>2
<1>. QED  BY <1>1, <1>4, <1>5, <1>6 DEF SendsInv

\* A write of one parcel.
LEMMA OneAmendedOK ==
    ASSUME SendsInv, NEW c \in Requests, NEW p, NEW row, Sending!Opened(c, {p}),
           Sending!WriteOne(c, p, row),
           MayAmend(c, p, row), UNCHANGED sFacts
    PROVE  SendsInv'
<1>1. PICK after : after = [q \in {p} |-> row]
  OBVIOUS
<1>2. /\ DOMAIN after = {p} /\ after[p] = row /\ Sending!Write(c, after)
      /\ sOpened[c] # None /\ DOMAIN after = DOMAIN sOpened[c]
  BY <1>1 DEF Sending!WriteOne, Sending!Opened
<1>. QED  BY <1>2, AmendedOK

\* The row a clerk has open.
LEMMA OpenRow ==
    ASSUME SendsInv, NEW c \in Requests, sOpened[c] # None
    PROVE  \A p \in DOMAIN sOpened[c] : p \in Parcels /\ sOpened[c][p] \in Sending!ParcelRow
  BY DEF SendsInv, ClerkRead, ParcelRead

LEMMA LinkLabelOK ==
    ASSUME SendsInv, NEW c \in Requests, NEW p \in Parcels, NEW label \in Labels,
           Sending!LinkLabel(c, p, label)
    PROVE  SendsInv'
<1>1. PICK old : old = sOpened[c][p] /\ old \in Sending!ParcelRow /\ Sending!Opened(c, {p})
                 /\ old.order \in Merchants /\ old.status = "AWAITING_LABEL"
  BY OpenRow DEF Sending!LinkLabel, Sending!Opened
<1>2. PICK row : row = [old EXCEPT !.label = label, !.status = "READY_FOR_PICKUP"]
  OBVIOUS
<1>3. /\ row \in Sending!ParcelRow /\ row.label = label /\ row.status = "READY_FOR_PICKUP"
      /\ row.version = old.version /\ row.order = old.order
  <2> DEFINE f == [i \in {1} |-> old]
  <2>1. row = [f EXCEPT ![1].label = label, ![1].status = "READY_FOR_PICKUP"][1]
    BY <1>2
  <2>2. f \in [{1} -> Sending!ParcelRow]
    BY <1>1
  <2>. QED  BY <2>1, <2>2 DEF Sending!ParcelRow
<1>4. label # None /\ ~Sending!LabelTaken(label)
  BY SendsConstants DEF Sending!LinkLabel
<1>5. MayAmend(c, p, row)
  BY <1>1, <1>3, <1>4 DEF MayAmend, SendRowTells, Sending!Ended
<1>6. Sending!WriteOne(c, p, row) /\ UNCHANGED sFacts
  BY <1>1, <1>2 DEF Sending!LinkLabel
<1>. QED  BY <1>1, <1>5, <1>6, OneAmendedOK

LEMMA BookPickupOK ==
    ASSUME SendsInv, NEW c \in Requests, NEW o \in Orders, Sending!BookPickup(c, o)
    PROVE  SendsInv'
<1>1. PICK after : after = [p \in DOMAIN sOpened[c] |-> [sOpened[c][p] EXCEPT !.window = "BOOKED"]]
  OBVIOUS
<1>2. /\ sOpened[c] # None /\ o \in Merchants /\ Sending!Write(c, after) /\ UNCHANGED sFacts
      /\ DOMAIN after = DOMAIN sOpened[c]
      /\ \A p \in DOMAIN sOpened[c] : /\ sOpened[c][p].order = o /\ sOpened[c][p].label # None
                                     /\ sOpened[c][p].status \notin Sending!Ended
  BY <1>1 DEF Sending!BookPickup
<1>3. ASSUME NEW p \in DOMAIN after
      PROVE  MayAmend(c, p, after[p]) /\ after[p].label = sOpened[c][p].label
  <2>1. /\ sOpened[c][p] \in Sending!ParcelRow /\ after[p] = [sOpened[c][p] EXCEPT !.window = "BOOKED"]
    BY <1>1, <1>2, OpenRow
  <2>2. /\ after[p] \in Sending!ParcelRow /\ after[p].window = "BOOKED" /\ after[p].label = sOpened[c][p].label
        /\ after[p].order = sOpened[c][p].order /\ after[p].status = sOpened[c][p].status
        /\ after[p].version = sOpened[c][p].version
    BY <2>1 DEF Sending!ParcelRow
  <2>. QED  BY <1>2, <2>2 DEF MayAmend, SendRowTells
<1>. QED  BY <1>2, <1>3, AmendedOK

LEMMA AmendmentsOK ==
    ASSUME SendsInv, NEW c \in Requests, NEW p \in Parcels
    PROVE  /\ \A details \in Details, typed \in BOOLEAN : Sending!Amend(c, p, details, typed) => SendsInv'
           /\ \A amount \in Amounts : Sending!ChangeCodAmount(c, p, amount) => SendsInv'
           /\ \A details \in Details : Sending!ApplySupportCorrection(c, p, details) => SendsInv'
<1>0. \A row \in Sending!ParcelRow : row.status \in {"AWAITING_LABEL", "READY_FOR_PICKUP", "AWAITING_DROPOFF",
                                             "REGISTERED", "CANCELLED"}
  BY DEF Sending!ParcelRow
<1>1. ASSUME NEW details \in Details, NEW typed \in BOOLEAN, Sending!Amend(c, p, details, typed)
      PROVE  SendsInv'
  <2>1. PICK old : old = sOpened[c][p] /\ old \in Sending!ParcelRow /\ Sending!Opened(c, {p}) /\ old.status \notin Sending!Ended
    BY <1>1, OpenRow DEF Sending!Amend, Sending!Opened
  <2>2. PICK window : window = IF typed THEN "TYPED" ELSE old.window
    OBVIOUS
  <2>3. PICK row : row = [old EXCEPT !.details = details, !.window = window]
    OBVIOUS
  <2>4. /\ row \in Sending!ParcelRow /\ row.window = window /\ row.label = old.label /\ row.status = old.status
        /\ row.version = old.version /\ row.order = old.order
    <3> DEFINE f == [i \in {1} |-> old]
    <3>1. row = [f EXCEPT ![1].details = details, ![1].window = window][1]
      BY <2>3
    <3>2. f \in [{1} -> Sending!ParcelRow]
      BY <2>1
    <3>3. window \in {None, "BOOKED", "TYPED"}
      BY <2>1, <2>2 DEF Sending!ParcelRow
    <3>. QED  BY <3>1, <3>2, <3>3 DEF Sending!ParcelRow
  <2>5. window = "BOOKED" => old.window = "BOOKED"
    BY <2>2
  <2>6. MayAmend(c, p, row)
    BY <2>1, <2>4, <2>5 DEF MayAmend, SendRowTells
  <2>7. Sending!WriteOne(c, p, row) /\ UNCHANGED sFacts
    BY <1>1, <2>1, <2>2, <2>3 DEF Sending!Amend
  <2>. QED  BY <2>1, <2>6, <2>7, OneAmendedOK
\* Also of a registered parcel.
<1>2. ASSUME NEW row, NEW old, old = sOpened[c][p], old \in Sending!ParcelRow, old.status # "CANCELLED",
             row \in Sending!ParcelRow, row.window = old.window, row.label = old.label,
             row.status = old.status, row.version = old.version, row.order = old.order
      PROVE  MayAmend(c, p, row)
  BY <1>0, <1>2 DEF MayAmend, SendRowTells, Sending!Ended
<1>3. ASSUME NEW amount \in Amounts, Sending!ChangeCodAmount(c, p, amount) PROVE SendsInv'
  <2>1. PICK old : old = sOpened[c][p] /\ old \in Sending!ParcelRow /\ Sending!Opened(c, {p}) /\ old.status # "CANCELLED"
    BY <1>3, OpenRow DEF Sending!ChangeCodAmount, Sending!Opened
  <2>2. PICK row : row = [old EXCEPT !.cod = amount]
    OBVIOUS
  <2>3. /\ row \in Sending!ParcelRow /\ row.window = old.window /\ row.label = old.label
        /\ row.status = old.status /\ row.version = old.version /\ row.order = old.order
    BY <2>1, <2>2 DEF Sending!ParcelRow
  <2>4. Sending!WriteOne(c, p, row) /\ UNCHANGED sFacts
    BY <1>3, <2>1, <2>2 DEF Sending!ChangeCodAmount
  <2>. QED  BY <1>2, <2>1, <2>3, <2>4, OneAmendedOK
<1>4. ASSUME NEW details \in Details, Sending!ApplySupportCorrection(c, p, details) PROVE SendsInv'
  <2>1. PICK old : old = sOpened[c][p] /\ old \in Sending!ParcelRow /\ Sending!Opened(c, {p}) /\ old.status # "CANCELLED"
    BY <1>4, OpenRow DEF Sending!ApplySupportCorrection, Sending!Opened
  <2>2. PICK row : row = [old EXCEPT !.details = details]
    OBVIOUS
  <2>3. /\ row \in Sending!ParcelRow /\ row.window = old.window /\ row.label = old.label
        /\ row.status = old.status /\ row.version = old.version /\ row.order = old.order
    BY <2>1, <2>2 DEF Sending!ParcelRow
  <2>4. Sending!WriteOne(c, p, row) /\ UNCHANGED sFacts
    BY <1>4, <2>1, <2>2 DEF Sending!ApplySupportCorrection
  <2>. QED  BY <1>2, <2>1, <2>3, <2>4, OneAmendedOK
<1>. QED  BY <1>1, <1>3, <1>4

LEMMA EndsOK ==
    ASSUME SendsInv, NEW c \in Requests, NEW p \in Parcels, Sending!Register(c, p) \/ Sending!Cancel(c, p)
    PROVE  SendsInv'
<1>1. PICK kind \in {"REGISTERED", "CANCELLED"} :
        /\ Sending!Opened(c, {p}) /\ kind \in Sending!OnwardOf(sOpened[c][p].status)
        /\ Sending!WriteOne(c, p, [sOpened[c][p] EXCEPT !.status = kind])
        /\ sFacts' = sFacts \cup {Sending!Fact(p, sOpened[c][p], kind)}
  BY DEF Sending!Register, Sending!Cancel
<1>2. PICK old : /\ old = sOpened[c][p] /\ old \in Sending!ParcelRow /\ old.status \notin Sending!Ended
                 /\ kind = "REGISTERED" => old.status \in {"READY_FOR_PICKUP", "AWAITING_DROPOFF"}
  <2>1. sOpened[c][p] \in Sending!ParcelRow
    BY <1>1, OpenRow DEF Sending!Opened
  <2>. QED  BY <1>1, <2>1 DEF Sending!OnwardOf, Sending!Ended
<1>3. PICK row : row = [old EXCEPT !.status = kind]
  OBVIOUS
<1>4. /\ row \in Sending!ParcelRow /\ row.status = kind /\ row.label = old.label /\ row.details = old.details
      /\ row.cod = old.cod /\ row.version = old.version /\ row.order = old.order
      /\ row.window = old.window
  BY <1>2, <1>3 DEF Sending!ParcelRow
<1>5. PICK after : after = [q \in {p} |-> row]
  OBVIOUS
<1>6. /\ DOMAIN after = {p} /\ after[p] = row /\ Sending!Write(c, after)
      /\ sOpened[c] # None /\ DOMAIN after = DOMAIN sOpened[c]
  BY <1>1, <1>2, <1>3, <1>5 DEF Sending!WriteOne, Sending!Opened
<1>7. PICK f : f = Sending!Fact(p, old, kind)
  OBVIOUS
<1>8. /\ f \in SendFacts /\ f.parcel = p /\ f.kind = kind /\ f.label = old.label /\ f.details = old.details
      /\ f.cod = old.cod /\ f.version = old.version + 1
  <2>1. old.version \in 1 .. MaxVersion /\ old.version < MaxVersion
    <3>1. old.version < MaxVersion
      BY <1>2, <1>6 DEF Sending!Write
    <3>. QED  BY <1>2, <3>1 DEF Sending!ParcelRow
  <2>2. old.version + 1 \in 2 .. MaxVersion
    BY <2>1, SendsConstants
  <2>. QED  BY <1>2, <1>7, <2>2 DEF Sending!Fact, SendFacts, Sending!ParcelRow
<1>9. sFacts' = sFacts \cup {f} /\ sFacts' \subseteq SendFacts
  BY <1>1, <1>2, <1>7, <1>8 DEF SendsInv, SendsRowsOK
<1>10. /\ Sending!Made(p) /\ old = sParcel[p]
       /\ sParcel'[p] = [row EXCEPT !.version = @ + 1] /\ sParcel'[p] \in Sending!ParcelRow
       /\ \A q \in Parcels : q # p => sParcel'[q] = sParcel[q]
       /\ SendsRowsOK' /\ ParcelsGrow
       /\ DOMAIN sOpened' = Requests /\ \A d \in Requests : ClerkRead(d)'
  <2>1. \A q \in DOMAIN after : after[q] \in Sending!ParcelRow /\ after[q].version = sOpened[c][q].version
    BY <1>2, <1>4, <1>6
  <2>2. /\ \A q \in DOMAIN after :
            /\ Sending!Made(q) /\ sOpened[c][q] = sParcel[q] /\ after[q].version = sParcel[q].version
            /\ sParcel'[q] = [after[q] EXCEPT !.version = @ + 1] /\ sParcel'[q] \in Sending!ParcelRow
        /\ \A q \in Parcels : q \notin DOMAIN after => sParcel'[q] = sParcel[q]
        /\ SendsRowsOK' /\ ParcelsGrow
        /\ DOMAIN sOpened' = Requests /\ \A d \in Requests : ClerkRead(d)'
    BY <1>6, <1>9, <2>1, WrittenOver
  <2>. QED  BY <1>2, <1>6, <2>2
<1>11. /\ sParcel'[p].status = kind /\ sParcel'[p].label = old.label /\ sParcel'[p].order = old.order
       /\ sParcel'[p].window = old.window /\ sParcel'[p].version = old.version + 1
       /\ sParcel'[p].details = old.details /\ sParcel'[p].cod = old.cod /\ Sending!Made(p)'
  BY <1>4, <1>10, SendsConstants DEF Sending!ParcelRow, Sending!Made
<1>12. (\A q \in Parcels : Sending!Made(q) => SendRowTells(sParcel[q]))'
  <2>1. SendRowTells(old)
    BY <1>10 DEF SendsInv
  <2>2. SendRowTells(sParcel[p])'
    BY <1>2, <1>11, <2>1 DEF SendRowTells
  <2>3. \A q \in Parcels : q # p /\ Sending!Made(q)' => SendRowTells(sParcel[q])'
    BY <1>10 DEF SendsInv, Sending!Made, SendRowTells
  <2>. QED  BY <2>2, <2>3
<1>13. LabelsOnce'
  <2>1. \A q \in Parcels : Sending!Made(q)' =>
          /\ Sending!Made(q) /\ sParcel'[q].label = sParcel[q].label
          /\ sParcel[q].status = "CANCELLED" => sParcel'[q].status = "CANCELLED"
    BY <1>2, <1>10, <1>11 DEF Sending!Made, Sending!Ended
  <2>. QED  BY <2>1 DEF SendsInv, LabelsOnce
<1>14. (\A q \in Parcels : TaleOf(q))'
  <2>1. Told(p)' = {f} /\ \A q \in Parcels : q # p => Told(q)' = Told(q)
    <3>1. Told(p) = {}
      BY <1>2, <1>10 DEF SendsInv, TaleOf, Sending!IsLive
    <3>. QED  BY <1>8, <1>9, <3>1 DEF Told
  <2>2. TaleOf(p)'
    BY <1>8, <1>11, <2>1 DEF TaleOf, Sending!IsLive, Sending!Ended
  <2>3. \A q \in Parcels : q # p => TaleOf(q)'
    BY <1>10, <2>1 DEF SendsInv, TaleOf, Sending!Made, Sending!IsLive
  <2>. QED  BY <2>2, <2>3
<1>. QED  BY <1>10, <1>12, <1>13, <1>14 DEF SendsInv

LEMMA AddShipmentOK ==
    ASSUME SendsInv, NEW p \in Parcels, NEW o \in Orders, NEW details \in Details,
           NEW cod \in Amounts \cup {None}, Sending!AddShipment(p, o, details, cod)
    PROVE  SendsInv'
<1>1. PICK row : /\ row = [order |-> o, label |-> None, window |-> None, details |-> details, cod |-> cod,
                           version |-> 1,
                           status |-> IF o \in Merchants THEN "AWAITING_LABEL" ELSE "AWAITING_DROPOFF"]
                 /\ sParcel' = [sParcel EXCEPT ![p] = row] /\ UNCHANGED <<sPlaced, sFacts, sOpened>>
                 /\ ~Sending!Made(p)
  BY DEF Sending!AddShipment, Sending!IsNext
<1>2. /\ row \in Sending!ParcelRow /\ row.label = None /\ row.window # "BOOKED" /\ row.status \notin Sending!Ended
      /\ row.status # "READY_FOR_PICKUP" /\ (row.status = "AWAITING_DROPOFF" => row.order \notin Merchants)
  <2>1. /\ row.label = None /\ row.window = None /\ row.order = o /\ row.details = details
        /\ row.cod = cod /\ row.version = 1
        /\ row.status = IF o \in Merchants THEN "AWAITING_LABEL" ELSE "AWAITING_DROPOFF"
    BY <1>1
  <2>2. row \in Sending!ParcelRow
    BY <1>1, SendsConstants DEF Sending!ParcelRow
  <2>. QED  BY <2>1, <2>2, SendsConstants DEF Sending!Ended
<1>3. /\ sParcel'[p] = row /\ Sending!Made(p)' /\ \A q \in Parcels : q # p => sParcel'[q] = sParcel[q]
  BY <1>1, <1>2, SendsConstants DEF SendsInv, SendsRowsOK, Sending!Made
<1>4. SendsRowsOK' /\ ParcelsGrow
  <2>1. SendsRowsOK'
    BY <1>1, <1>2 DEF SendsInv, SendsRowsOK
  <2>2. ParcelsGrow
    BY <1>1, <1>3 DEF ParcelsGrow, Sending!Made
  <2>. QED  BY <2>1, <2>2
<1>5. (\A q \in Parcels : Sending!Made(q) => SendRowTells(sParcel[q]))'
  <2>1. SendRowTells(row)
    BY <1>2 DEF SendRowTells, Sending!Ended
  <2>. QED  BY <1>3, <2>1 DEF SendsInv, SendRowTells, Sending!Made
<1>6. LabelsOnce'
  BY <1>2, <1>3 DEF SendsInv, LabelsOnce, Sending!Made
<1>7. (\A q \in Parcels : TaleOf(q))'
  <2>1. \A q \in Parcels : Told(q)' = Told(q)
    BY <1>1 DEF Told
  <2>2. Told(p) = {}
    BY <1>1 DEF SendsInv, TaleOf
  <2>3. TaleOf(p)'
    BY <1>2, <1>3, <2>1, <2>2 DEF TaleOf
  <2>. QED  BY <1>3, <2>1, <2>3 DEF SendsInv, TaleOf, Sending!Made, Sending!IsLive
<1>8. DOMAIN sOpened' = Requests /\ \A c \in Requests : ClerkRead(c)'
  BY <1>1, <1>4, ClerksStillRead DEF SendsInv
<1>. QED  BY <1>4, <1>5, <1>6, <1>7, <1>8 DEF SendsInv

LEMMA SendsStep == SendsInv /\ [Sending!Next]_(Sending!vars) => SendsInv'
<1> SUFFICES ASSUME SendsInv, [Sending!Next]_(Sending!vars) PROVE SendsInv'
  OBVIOUS
<1>0. ASSUME UNCHANGED <<sParcel, sFacts, sOpened>>, sPlaced' \subseteq Orders PROVE SendsInv'
  BY <1>0
       DEF SendsInv, SendsRowsOK, ClerkRead, ParcelRead, Sending!Made, SendRowTells, LabelsOnce,
           TaleOf, Told, Sending!IsLive
<1>1. CASE UNCHANGED Sending!vars
  BY <1>0, <1>1 DEF Sending!vars, SendsInv, SendsRowsOK
<1>2. ASSUME NEW o \in Orders, Sending!OpenOrder(o) PROVE SendsInv'
  BY <1>0, <1>2 DEF Sending!OpenOrder, SendsInv, SendsRowsOK
<1>3. ASSUME NEW c \in Requests, NEW p \in Parcels, Sending!Made(p), Sending!Read(c, {p}) PROVE SendsInv'
  BY <1>3, ReadOK
<1>4. ASSUME NEW c \in Requests, NEW o \in Orders,
             Sending!Read(c, {p \in Parcels : Sending!IsLive(p) /\ sParcel[p].order = o})
      PROVE  SendsInv'
  BY <1>4, ReadOK DEF Sending!IsLive
<1>. QED
  BY <1>1, <1>2, <1>3, <1>4, ReadOK, AddShipmentOK, LinkLabelOK, BookPickupOK, AmendmentsOK, EndsOK
     DEF Sending!Next

-----------------------------------------------------------------------------
(* SignIn. SignInInv: what a request read is not newer than the row, and    *)
(* while the row keeps that version the code is open and the session alive. *)

\* What a request read is not newer than the row, and while the row has the version
\* that was read, a challenge is open and a session alive.
StillOpen(k, asRead) ==
    /\ k \in Challenges /\ Identity!Sent(k) /\ asRead \in Nat /\ asRead <= iChallenge[k].version
    /\ asRead = iChallenge[k].version => ~iChallenge[k].consumed /\ iChallenge[k].failed < MaxGuesses

StillLive(s, asRead) ==
    /\ s \in Sessions /\ Identity!Minted(s) /\ asRead \in Nat /\ asRead <= iSession[s].version
    /\ asRead = iSession[s].version => ~iSession[s].revoked

SignReadsTrue(r) ==
    /\ Identity!Is(r, "code") => \A k \in DOMAIN iRequest[r].open : StillOpen(k, iRequest[r].open[k])
    /\ Identity!Is(r, "verify") => StillOpen(iRequest[r].challenge, iRequest[r].version)
    /\ Identity!Is(r, "revoke") => \A s \in DOMAIN iRequest[r].live : StillLive(s, iRequest[r].live[s])

SessionsHaveCodes == \A s \in Sessions : Identity!Minted(s) => Identity!Sent(iSession[s].challenge)

UnsentIsUntried == \A k \in Challenges : ~Identity!Sent(k) => iMismatches[k] = 0

SignInInv ==
    /\ Identity!TypeOK /\ DOMAIN iRequest = Requests
    /\ \A r \in Requests : SignReadsTrue(r)
    /\ Identity!CodesOpenOneSession /\ SessionsHaveCodes /\ UnsentIsUntried

\* Rows come and are rewritten under a higher version.
RowsGrow ==
    /\ \A k \in Challenges : Identity!Sent(k) =>
          /\ Identity!Sent(k)'
          /\ iChallenge'[k] = iChallenge[k] \/ iChallenge'[k].version > iChallenge[k].version
    /\ \A s \in Sessions : Identity!Minted(s) =>
          /\ Identity!Minted(s)'
          /\ iSession'[s] = iSession[s] \/ iSession'[s].version > iSession[s].version

LEMMA RowsAreRows ==
    ASSUME Identity!TypeOK
    PROVE  /\ \A k \in Challenges : Identity!Sent(k) => iChallenge[k] \in Identity!ChallengeRow
           /\ \A s \in Sessions : Identity!Minted(s) => iSession[s] \in Identity!SessionRow
  BY DEF Identity!TypeOK, Identity!Sent, Identity!Minted

LEMMA ChallengeRewritten ==
    ASSUME NEW row \in Identity!ChallengeRow
    PROVE  [row EXCEPT !.consumed = TRUE, !.version = @ + 1]
              = [failed |-> row.failed, consumed |-> TRUE, version |-> row.version + 1]
<1> DEFINE f == [i \in {1} |-> row]
<1>1. [row EXCEPT !.consumed = TRUE, !.version = @ + 1]
          = [f EXCEPT ![1].consumed = TRUE, ![1].version = @ + 1][1]
  OBVIOUS
<1>2. f \in [{1} -> Identity!ChallengeRow]
  OBVIOUS
<1>. QED  BY <1>1, <1>2 DEF Identity!ChallengeRow

LEMMA SessionRewritten ==
    ASSUME NEW row \in Identity!SessionRow
    PROVE  Identity!Revoked(row) = [challenge |-> row.challenge, revoked |-> TRUE, version |-> row.version + 1]
<1> DEFINE f == [i \in {1} |-> row]
<1>1. Identity!Revoked(row) = [f EXCEPT ![1].revoked = TRUE, ![1].version = @ + 1][1]
  BY DEF Identity!Revoked
<1>2. f \in [{1} -> Identity!SessionRow]
  OBVIOUS
<1>. QED  BY <1>1, <1>2 DEF Identity!SessionRow

LEMMA SignReadsStayTrue ==
    ASSUME Identity!TypeOK, Identity!TypeOK', RowsGrow, NEW r \in Requests, SignReadsTrue(r),
           iRequest'[r] = iRequest[r]
    PROVE  SignReadsTrue(r)'
<1>1. \A k, v : StillOpen(k, v) => StillOpen(k, v)'
  BY RowsAreRows DEF StillOpen, RowsGrow, Identity!TypeOK, Identity!Sent, Identity!ChallengeRow
<1>2. \A s, v : StillLive(s, v) => StillLive(s, v)'
  BY RowsAreRows DEF StillLive, RowsGrow, Identity!TypeOK, Identity!Minted, Identity!SessionRow
<1>. QED  BY <1>1, <1>2 DEF SignReadsTrue, Identity!Is, Identity!Idle

LEMMA SignInInit == Identity!Init => SignInInv
  BY SignInConstants
       DEF Identity!Init, SignInInv, Identity!TypeOK, SignReadsTrue, Identity!CodesOpenOneSession,
           SessionsHaveCodes,
     UnsentIsUntried, Identity!Sent, Identity!Minted, Identity!Is, Identity!Idle

\* Every action but the six that write rows.
LEMMA SignInReads ==
    ASSUME SignInInv, UNCHANGED <<iChallenge, iSession, iMismatches>>,
           NEW r \in Requests, \A q \in Requests \ {r} : iRequest'[q] = iRequest[q],
           Identity!TypeOK', DOMAIN iRequest' = Requests, SignReadsTrue(r)'
    PROVE  SignInInv'
<1>1. RowsGrow
  BY DEF RowsGrow, Identity!Sent, Identity!Minted
<1>2. \A q \in Requests : SignReadsTrue(q)'
  BY <1>1, SignReadsStayTrue DEF SignInInv
<1>3. (Identity!CodesOpenOneSession /\ SessionsHaveCodes /\ UnsentIsUntried)'
  BY
       DEF SignInInv, Identity!CodesOpenOneSession, SessionsHaveCodes, UnsentIsUntried,
           Identity!Sent, Identity!Minted
<1>. QED  BY <1>2, <1>3 DEF SignInInv

Kinds == {"code", "verify", "block", "revoke", "grant"}

LEMMA Asked ==
    ASSUME SignInInv, NEW r \in Requests, NEW row, Identity!Reads(r, row), row.kind \in Kinds
    PROVE  /\ DOMAIN iRequest' = Requests
           /\ iRequest'[r] = row /\ \A q \in Requests \ {r} : iRequest'[q] = iRequest[q]
           /\ \A q \in Requests : Identity!Idle(q)' \/ iRequest'[q].kind \in Kinds
  BY DEF SignInInv, Identity!Reads, Identity!TypeOK, Identity!Idle, Kinds

LEMMA Answered ==
    ASSUME SignInInv, NEW r \in Requests, Identity!Over(r)
    PROVE  /\ DOMAIN iRequest' = Requests
           /\ iRequest'[r] = None /\ \A q \in Requests \ {r} : iRequest'[q] = iRequest[q]
           /\ \A q \in Requests : Identity!Idle(q)' \/ iRequest'[q].kind \in Kinds
           /\ SignReadsTrue(r)'
<1>1. /\ DOMAIN iRequest' = Requests
      /\ iRequest'[r] = None /\ \A q \in Requests \ {r} : iRequest'[q] = iRequest[q]
  BY DEF SignInInv, Identity!Over
<1>2. \A q \in Requests : Identity!Idle(q)' \/ iRequest'[q].kind \in Kinds
  BY <1>1 DEF SignInInv, Identity!TypeOK, Identity!Idle, Kinds
<1>3. SignReadsTrue(r)'
  BY <1>1 DEF SignReadsTrue, Identity!Is, Identity!Idle
<1>. QED  BY <1>1, <1>2, <1>3

\* A request that writes is over.
LEMMA SignInWrites ==
    ASSUME SignInInv, NEW r \in Requests, Identity!Over(r), Identity!TypeOK', RowsGrow
    PROVE  \A q \in Requests : SignReadsTrue(q)'
  BY Answered, SignReadsStayTrue DEF SignInInv

LEMMA SendCodeOK ==
    ASSUME SignInInv, NEW r \in Requests, NEW k \in Challenges, Identity!SendCode(r, k)
    PROVE  SignInInv' /\ Identity!SessionsStayEnded
<1>0. SignReadsTrue(r) /\ Identity!Over(r) /\ ~Identity!Sent(k) /\ Identity!Is(r, "code")
  BY DEF Identity!SendCode, SignInInv
<1>1. \A j \in DOMAIN iRequest[r].open :
         /\ j \in Challenges /\ j # k /\ iChallenge[j] \in Identity!ChallengeRow /\ ~iChallenge[j].consumed
         /\ iChallenge'[j] = [iChallenge[j] EXCEPT !.consumed = TRUE, !.version = @ + 1]
  BY <1>0, RowsAreRows DEF Identity!SendCode, SignReadsTrue, StillOpen, SignInInv, Identity!Sent
<1>2. /\ iChallenge' = [j \in Challenges |-> iChallenge'[j]]
      /\ iChallenge'[k] = [failed |-> 0, consumed |-> FALSE, version |-> 1]
      /\ \A j \in Challenges : j # k /\ j \notin DOMAIN iRequest[r].open => iChallenge'[j] = iChallenge[j]
  BY <1>1 DEF Identity!SendCode
<1>3. iChallenge'[k] \in Identity!ChallengeRow
  BY <1>2, SignInConstants DEF Identity!ChallengeRow
<1>4. \A j \in DOMAIN iRequest[r].open :
         /\ iChallenge'[j] \in Identity!ChallengeRow /\ iChallenge'[j].version > iChallenge[j].version
         /\ iChallenge'[j].consumed /\ iChallenge'[j].failed = iChallenge[j].failed
  <2> SUFFICES ASSUME NEW j \in DOMAIN iRequest[r].open
               PROVE  /\ iChallenge'[j] \in Identity!ChallengeRow /\ iChallenge'[j].version > iChallenge[j].version
                      /\ iChallenge'[j].consumed /\ iChallenge'[j].failed = iChallenge[j].failed
    OBVIOUS
  <2>1. iChallenge'[j] = [iChallenge[j] EXCEPT !.consumed = TRUE, !.version = @ + 1]
    BY <1>1
  <2>3. iChallenge[j] \in Identity!ChallengeRow
    BY <1>1
  <2>2. iChallenge'[j] = [failed |-> iChallenge[j].failed, consumed |-> TRUE,
                         version |-> iChallenge[j].version + 1]
    BY <2>1, <2>3, ChallengeRewritten
  <2>. QED  BY <2>2, <2>3 DEF Identity!ChallengeRow
<1>5. iChallenge' \in [Challenges -> Identity!ChallengeRow \cup {None}]
  BY <1>2, <1>3, <1>4 DEF SignInInv, Identity!TypeOK
<1>6. UNCHANGED <<iSession, iGrant, iExpired, iMismatches>>
  BY DEF Identity!SendCode
<1>7. Identity!TypeOK'
  BY <1>0, <1>5, <1>6, Answered DEF Identity!SendCode, SignInInv, Identity!TypeOK, Kinds
<1>8. RowsGrow
  BY <1>0, <1>1, <1>2, <1>4, <1>6, SignInConstants DEF RowsGrow, Identity!Sent, Identity!Minted
<1>9. \A j \in Challenges : j # k => (Identity!Sent(j)' <=> Identity!Sent(j)) /\ (Identity!Sent(j) =>
         /\ iChallenge'[j].failed = iChallenge[j].failed
         /\ iChallenge[j].consumed => iChallenge'[j].consumed)
  BY <1>1, <1>2, <1>4, SignInConstants DEF Identity!Sent
<1>10. Identity!Sent(k)'
  BY <1>3, SignInConstants DEF Identity!Sent
<1>11. SessionsHaveCodes' /\ UnsentIsUntried'
  BY <1>0, <1>6, <1>9, <1>10
       DEF SignInInv, SessionsHaveCodes, UnsentIsUntried, Identity!Minted, Identity!TypeOK,
           Identity!SessionRow
<1>12. Identity!CodesOpenOneSession'
  <2>1. \A s, t \in Sessions : Identity!Minted(s)' /\ Identity!Minted(t)' /\ iSession'[s].challenge = iSession'[t].challenge
          => s = t
    BY <1>6 DEF SignInInv, Identity!CodesOpenOneSession, Identity!Minted
  <2>2. \A s \in Sessions : Identity!Minted(s)' => iChallenge'[iSession'[s].challenge].consumed
    BY <1>0, <1>6, <1>9, RowsAreRows
         DEF SignInInv, Identity!CodesOpenOneSession, Identity!Minted, SessionsHaveCodes,
             Identity!SessionRow
  <2>3. \A j \in Challenges : Identity!Sent(j)' =>
          /\ iMismatches'[j] = iChallenge'[j].failed
          /\ iChallenge'[j].failed >= MaxGuesses => iChallenge'[j].consumed
    BY <1>0, <1>2, <1>6, <1>9, SignInConstants
         DEF SignInInv, Identity!CodesOpenOneSession, UnsentIsUntried
  <2>. QED  BY <1>6, <2>1, <2>2, <2>3 DEF SignInInv, Identity!CodesOpenOneSession
<1>13. Identity!SessionsStayEnded
  BY <1>6 DEF Identity!SessionsStayEnded
<1>. QED  BY <1>0, <1>7, <1>8, <1>11, <1>12, <1>13, SignInWrites, Answered DEF SignInInv

\* A guess, a refusal and a sign-in consume or count at the code they read.
LEMMA VerifyOK ==
    ASSUME SignInInv, NEW r \in Requests, NEW k \in Challenges,
           Identity!GuessWrong(r, k) \/ Identity!RefusePrincipal(r, k) \/ (\E s \in Sessions : Identity!MintSession(r, k, s))
    PROVE  /\ Identity!Over(r) /\ Identity!Is(r, "verify") /\ Identity!Sent(k)
           /\ iChallenge[k] \in Identity!ChallengeRow /\ ~iChallenge[k].consumed
           /\ iChallenge[k].failed < MaxGuesses
           /\ UNCHANGED <<iStatus, iRecent, iExpired, iGrant>>
  BY RowsAreRows
       DEF SignInInv, Identity!GuessWrong, Identity!RefusePrincipal, Identity!MintSession,
           Identity!Unchanged, SignReadsTrue, StillOpen

LEMMA GuessWrongOK ==
    ASSUME SignInInv, NEW r \in Requests, NEW k \in Challenges, Identity!GuessWrong(r, k)
    PROVE  SignInInv' /\ Identity!SessionsStayEnded
<1>0. /\ Identity!Over(r) /\ Identity!Is(r, "verify") /\ Identity!Sent(k)
      /\ iChallenge[k] \in Identity!ChallengeRow /\ ~iChallenge[k].consumed
      /\ iChallenge[k].failed < MaxGuesses
      /\ UNCHANGED <<iStatus, iRecent, iExpired, iGrant>>
  BY VerifyOK
<1>1. /\ iChallenge' = [j \in Challenges |-> iChallenge'[j]]
      /\ iMismatches' = [j \in Challenges |-> iMismatches'[j]]
      /\ \A j \in Challenges \ {k} : iChallenge'[j] = iChallenge[j] /\ iMismatches'[j] = iMismatches[j]
      /\ UNCHANGED iSession
  BY DEF Identity!GuessWrong, SignInInv, Identity!TypeOK
<1>2. /\ iChallenge'[k] \in Identity!ChallengeRow
      /\ iChallenge'[k].version > iChallenge[k].version
      /\ iChallenge'[k].failed = iChallenge[k].failed + 1
      /\ iChallenge'[k].failed >= MaxGuesses => iChallenge'[k].consumed
      /\ iMismatches'[k] = iMismatches[k] + 1
  BY <1>0, SignInConstants
       DEF Identity!GuessWrong, SignInInv, Identity!TypeOK, Identity!ChallengeRow
<1>7. Identity!TypeOK'
  BY <1>0, <1>1, <1>2, Answered DEF SignInInv, Identity!TypeOK, Kinds
<1>8. RowsGrow
  BY <1>0, <1>1, <1>2, SignInConstants DEF RowsGrow, Identity!Sent, Identity!Minted
<1>11. SessionsHaveCodes' /\ UnsentIsUntried'
  BY <1>0, <1>1, <1>2, SignInConstants
       DEF SignInInv, SessionsHaveCodes, UnsentIsUntried, Identity!Minted, Identity!Sent,
           Identity!TypeOK, Identity!SessionRow
<1>12. Identity!CodesOpenOneSession'
  <2>1. \A s \in Sessions : Identity!Minted(s)' =>
            iSession'[s].challenge # k /\ iSession'[s].challenge \in Challenges
    BY <1>0, <1>1, RowsAreRows
         DEF SignInInv, Identity!CodesOpenOneSession, Identity!Minted, Identity!SessionRow
  <2>2. \A j \in Challenges : iMismatches'[j] <= MaxGuesses
    BY <1>0, <1>1, <1>2, SignInConstants
         DEF SignInInv, Identity!CodesOpenOneSession, Identity!ChallengeRow
  <2>3. \A j \in Challenges : Identity!Sent(j)' =>
          /\ iMismatches'[j] = iChallenge'[j].failed
          /\ iChallenge'[j].failed >= MaxGuesses => iChallenge'[j].consumed
    BY <1>0, <1>1, <1>2 DEF SignInInv, Identity!CodesOpenOneSession, Identity!Sent
  <2>. QED  BY <1>1, <2>1, <2>2, <2>3 DEF SignInInv, Identity!CodesOpenOneSession, Identity!Minted
<1>13. Identity!SessionsStayEnded
  BY <1>1 DEF Identity!SessionsStayEnded
<1>. QED  BY <1>0, <1>7, <1>8, <1>11, <1>12, <1>13, SignInWrites, Answered DEF SignInInv

LEMMA RefusePrincipalOK ==
    ASSUME SignInInv, NEW r \in Requests, NEW k \in Challenges, Identity!RefusePrincipal(r, k)
    PROVE  SignInInv' /\ Identity!SessionsStayEnded
<1>0. /\ Identity!Over(r) /\ Identity!Is(r, "verify") /\ Identity!Sent(k)
      /\ iChallenge[k] \in Identity!ChallengeRow /\ ~iChallenge[k].consumed
      /\ iChallenge[k].failed < MaxGuesses
      /\ UNCHANGED <<iStatus, iRecent, iExpired, iGrant>>
  BY VerifyOK
<1>1. /\ iChallenge' = [j \in Challenges |-> iChallenge'[j]]
      /\ \A j \in Challenges \ {k} : iChallenge'[j] = iChallenge[j]
      /\ UNCHANGED <<iSession, iMismatches>>
  BY DEF Identity!RefusePrincipal, Identity!Consumed, SignInInv, Identity!TypeOK
<1>2. /\ iChallenge'[k] \in Identity!ChallengeRow
      /\ iChallenge'[k].version > iChallenge[k].version
      /\ iChallenge'[k].failed = iChallenge[k].failed
      /\ iChallenge'[k].consumed
  BY <1>0, SignInConstants
       DEF Identity!RefusePrincipal, Identity!Consumed, SignInInv, Identity!TypeOK,
           Identity!ChallengeRow
<1>7. Identity!TypeOK'
  BY <1>0, <1>1, <1>2, Answered DEF SignInInv, Identity!TypeOK, Kinds
<1>8. RowsGrow
  BY <1>0, <1>1, <1>2, SignInConstants DEF RowsGrow, Identity!Sent, Identity!Minted
<1>11. SessionsHaveCodes' /\ UnsentIsUntried'
  BY <1>0, <1>1, <1>2, SignInConstants
       DEF SignInInv, SessionsHaveCodes, UnsentIsUntried, Identity!Minted, Identity!Sent,
           Identity!TypeOK, Identity!SessionRow
<1>12. Identity!CodesOpenOneSession'
  <2>1. \A s \in Sessions : Identity!Minted(s)' => iSession'[s].challenge \in Challenges
    BY <1>1, RowsAreRows DEF SignInInv, Identity!Minted, Identity!SessionRow
  <2>. QED
    BY <1>0, <1>1, <1>2, <2>1
         DEF SignInInv, Identity!CodesOpenOneSession, Identity!Minted, Identity!Sent
<1>13. Identity!SessionsStayEnded
  BY <1>1 DEF Identity!SessionsStayEnded
<1>. QED  BY <1>0, <1>7, <1>8, <1>11, <1>12, <1>13, SignInWrites, Answered DEF SignInInv

LEMMA MintSessionOK ==
    ASSUME SignInInv, NEW r \in Requests, NEW k \in Challenges, NEW s \in Sessions,
           Identity!MintSession(r, k, s)
    PROVE  SignInInv' /\ Identity!SessionsStayEnded
<1>0. /\ Identity!Over(r) /\ Identity!Is(r, "verify") /\ Identity!Sent(k)
      /\ iChallenge[k] \in Identity!ChallengeRow /\ ~iChallenge[k].consumed
      /\ iChallenge[k].failed < MaxGuesses
      /\ UNCHANGED <<iStatus, iRecent, iExpired, iGrant, iMismatches>> /\ ~Identity!Minted(s)
  BY VerifyOK DEF Identity!MintSession
<1>1. /\ iChallenge' = [j \in Challenges |-> iChallenge'[j]]
      /\ \A j \in Challenges \ {k} : iChallenge'[j] = iChallenge[j]
      /\ iSession' = [t \in Sessions |-> iSession'[t]]
      /\ iSession'[s] = [challenge |-> k, revoked |-> FALSE, version |-> 1]
      /\ \A t \in Sessions \ {s} : iSession'[t] = iSession[t]
  BY DEF Identity!MintSession, Identity!Consumed, SignInInv, Identity!TypeOK
<1>2. /\ iChallenge'[k] \in Identity!ChallengeRow
      /\ iChallenge'[k].version > iChallenge[k].version
      /\ iChallenge'[k].failed = iChallenge[k].failed
      /\ iChallenge'[k].consumed
  BY <1>0, SignInConstants
       DEF Identity!MintSession, Identity!Consumed, SignInInv, Identity!TypeOK,
           Identity!ChallengeRow
<1>3. iSession'[s] \in Identity!SessionRow
  BY <1>1 DEF Identity!SessionRow
<1>4. /\ iChallenge' \in [Challenges -> Identity!ChallengeRow \cup {None}]
      /\ iSession' \in [Sessions -> Identity!SessionRow \cup {None}]
  BY <1>1, <1>2, <1>3 DEF SignInInv, Identity!TypeOK
<1>7. Identity!TypeOK'
  BY <1>0, <1>4, Answered DEF SignInInv, Identity!TypeOK, Kinds
<1>8. RowsGrow
  BY <1>0, <1>1, <1>2, SignInConstants DEF RowsGrow, Identity!Sent, Identity!Minted
<1>11. SessionsHaveCodes' /\ UnsentIsUntried'
  BY <1>0, <1>1, <1>2, SignInConstants
       DEF SignInInv, SessionsHaveCodes, UnsentIsUntried, Identity!Minted, Identity!Sent,
           Identity!TypeOK, Identity!SessionRow
<1>12. Identity!CodesOpenOneSession'
  <2>1. \A t \in Sessions : Identity!Minted(t) => iSession[t].challenge \in Challenges \ {k}
    BY <1>0, RowsAreRows
         DEF SignInInv, Identity!CodesOpenOneSession, Identity!Minted, Identity!SessionRow
  <2>2. \A t \in Sessions : Identity!Minted(t)' =>
            t = s \/ (Identity!Minted(t) /\ iSession'[t] = iSession[t])
    <3>1. \A t \in Sessions \ {s} : iSession'[t] = iSession[t]
      BY <1>1
    <3>. QED  BY <3>1 DEF Identity!Minted
  <2>. QED  BY <1>0, <1>1, <1>2, <2>1, <2>2 DEF SignInInv, Identity!CodesOpenOneSession, Identity!Sent
<1>13. Identity!SessionsStayEnded
  <2>1. \A q \in Requests : Identity!Is(q, "revoke") => iRequest'[q] # None
    BY <1>0, Answered DEF Identity!Is, Identity!Idle
  <2>. QED  BY <1>0, <1>1, <2>1 DEF Identity!SessionsStayEnded
<1>. QED  BY <1>0, <1>7, <1>8, <1>11, <1>12, <1>13, SignInWrites, Answered DEF SignInInv

LEMMA RevokeSessionOK ==
    ASSUME SignInInv, NEW s \in Sessions, Identity!RevokeSession(s)
    PROVE  SignInInv' /\ Identity!SessionsStayEnded
<1>1. /\ Identity!Minted(s) /\ iSession[s] \in Identity!SessionRow /\ ~iSession[s].revoked
      /\ iSession' = [t \in Sessions |-> iSession'[t]]
      /\ \A t \in Sessions \ {s} : iSession'[t] = iSession[t]
      /\ UNCHANGED <<iStatus, Identity!codes, iGrant, iRequest>>
  BY RowsAreRows DEF Identity!RevokeSession, Identity!LiveSessions, SignInInv, Identity!TypeOK
<1>2. /\ iSession'[s] \in Identity!SessionRow /\ iSession'[s].challenge = iSession[s].challenge
      /\ iSession'[s].version > iSession[s].version
  BY <1>1 DEF Identity!RevokeSession, Identity!SessionRow, SignInInv, Identity!TypeOK
<1>3. Identity!TypeOK'
  BY <1>1, <1>2 DEF SignInInv, Identity!TypeOK, Identity!codes, Identity!Idle
<1>4. RowsGrow
  BY <1>1, <1>2, SignInConstants DEF RowsGrow, Identity!Sent, Identity!Minted, Identity!codes
<1>5. \A r \in Requests : SignReadsTrue(r)'
  BY <1>1, <1>3, <1>4, SignReadsStayTrue DEF SignInInv
<1>6. \A t \in Sessions : Identity!Minted(t)' =>
          Identity!Minted(t) /\ iSession'[t].challenge = iSession[t].challenge
  BY <1>1, <1>2 DEF Identity!Minted
<1>7. (Identity!CodesOpenOneSession /\ SessionsHaveCodes /\ UnsentIsUntried)'
  BY <1>1, <1>6
       DEF SignInInv, Identity!CodesOpenOneSession, SessionsHaveCodes, UnsentIsUntried,
           Identity!Sent, Identity!codes
<1>8. Identity!SessionsStayEnded
  BY <1>1 DEF Identity!SessionsStayEnded, Identity!Is, Identity!Idle
<1>. QED  BY <1>1, <1>3, <1>5, <1>7, <1>8 DEF SignInInv

LEMMA RevokeAllOK ==
    ASSUME SignInInv, NEW r \in Requests, Identity!RevokeAllForPrincipal(r)
    PROVE  SignInInv' /\ Identity!SessionsStayEnded
<1>0. Identity!Over(r) /\ Identity!Is(r, "revoke") /\ SignReadsTrue(r) /\ UNCHANGED <<iStatus, Identity!codes, iGrant>>
  BY DEF Identity!RevokeAllForPrincipal, SignInInv
<1>1. \A s \in DOMAIN iRequest[r].live :
         /\ s \in Sessions /\ Identity!Minted(s) /\ iSession[s] \in Identity!SessionRow /\ ~iSession[s].revoked
         /\ iSession'[s] = Identity!Revoked(iSession[s])
  BY <1>0, RowsAreRows DEF Identity!RevokeAllForPrincipal, SignReadsTrue, StillLive, SignInInv
<1>2. /\ iSession' = [s \in Sessions |-> iSession'[s]]
      /\ \A s \in Sessions : s \notin DOMAIN iRequest[r].live => iSession'[s] = iSession[s]
  BY DEF Identity!RevokeAllForPrincipal
<1>3. \A s \in DOMAIN iRequest[r].live :
         /\ iSession'[s] \in Identity!SessionRow /\ iSession'[s].challenge = iSession[s].challenge
         /\ iSession'[s].version > iSession[s].version /\ iSession'[s].revoked
  <2> SUFFICES ASSUME NEW s \in DOMAIN iRequest[r].live
               PROVE  /\ iSession'[s] \in Identity!SessionRow /\ iSession'[s].challenge = iSession[s].challenge
                      /\ iSession'[s].version > iSession[s].version /\ iSession'[s].revoked
    OBVIOUS
  <2>1. iSession[s] \in Identity!SessionRow /\ iSession'[s] = Identity!Revoked(iSession[s])
    BY <1>1
  <2>2. iSession'[s] = [challenge |-> iSession[s].challenge, revoked |-> TRUE,
                       version |-> iSession[s].version + 1]
    BY <2>1, SessionRewritten
  <2>. QED  BY <2>1, <2>2 DEF Identity!SessionRow
<1>4. Identity!TypeOK'
  BY <1>0, <1>2, <1>3, Answered DEF SignInInv, Identity!TypeOK, Kinds, Identity!codes
<1>5. RowsGrow
  BY <1>0, <1>2, <1>3, SignInConstants DEF RowsGrow, Identity!Sent, Identity!Minted, Identity!codes
<1>6. \A s \in Sessions : Identity!Minted(s)' =>
          Identity!Minted(s) /\ iSession'[s].challenge = iSession[s].challenge
  BY <1>1, <1>2, <1>3 DEF Identity!Minted
<1>7. (Identity!CodesOpenOneSession /\ SessionsHaveCodes /\ UnsentIsUntried)'
  BY <1>0, <1>6
       DEF SignInInv, Identity!CodesOpenOneSession, SessionsHaveCodes, UnsentIsUntried,
           Identity!Sent, Identity!codes
<1>8. Identity!SessionsStayEnded
  <2>1. \A q \in Requests : q # r /\ Identity!Is(q, "revoke") => iRequest'[q] # None
    BY <1>0, Answered DEF Identity!Is, Identity!Idle
  <2>. QED  BY <1>1, <1>2, <1>3, <2>1 DEF Identity!SessionsStayEnded
<1>. QED  BY <1>0, <1>4, <1>5, <1>7, <1>8, SignInWrites, Answered DEF SignInInv
LEMMA OtherOK ==
    ASSUME SignInInv, NEW r \in Requests,
           Identity!Leave(r) \/ Identity!BeginCode(r) \/ Identity!BeginGrant(r) \/ Identity!ListSessions(r)
           \/ (\E to \in AccountStatuses : Identity!SetPrincipalStatus(r, to)) \/ (\E g \in Grants : Identity!GrantRole(r, g))
           \/ (\E k \in Challenges : Identity!BeginVerify(r, k))
    PROVE  SignInInv' /\ Identity!SessionsStayEnded
<1>1. UNCHANGED <<Identity!codes, iSession>>
  BY
       DEF Identity!Leave, Identity!BeginCode, Identity!BeginGrant, Identity!ListSessions,
           Identity!SetPrincipalStatus, Identity!GrantRole, Identity!BeginVerify
<1>0. /\ UNCHANGED <<iChallenge, iSession>>
      /\ Identity!OpenChallenges' = Identity!OpenChallenges /\ Identity!LiveSessions' = Identity!LiveSessions
  BY <1>1
       DEF Identity!codes, Identity!OpenChallenges, Identity!LiveSessions, Identity!Sent,
           Identity!Minted
<1>2. /\ iStatus' \in AccountStatuses \cup {"ACTIVE", None}
      /\ iGrant' \in [Grants -> {None, "ACTIVE", "REVOKED"}]
  BY
       DEF Identity!Leave, Identity!BeginCode, Identity!BeginGrant, Identity!ListSessions,
           Identity!SetPrincipalStatus, Identity!GrantRole, Identity!BeginVerify,
     SignInInv, Identity!TypeOK
<1>3. /\ DOMAIN iRequest' = Requests
      /\ \A q \in Requests \ {r} : iRequest'[q] = iRequest[q]
      /\ \A q \in Requests : Identity!Idle(q)' \/ iRequest'[q].kind \in Kinds
      /\ SignReadsTrue(r)'
  <2>1. CASE Identity!Over(r)
    BY <2>1, Answered
  <2>2. CASE UNCHANGED iRequest
    BY <2>2, <1>1
         DEF SignInInv, Identity!TypeOK, Identity!Idle, Kinds, SignReadsTrue, Identity!Is,
             StillOpen, StillLive, Identity!Sent, Identity!Minted, Identity!codes
  <2>3. ASSUME NEW row, Identity!Reads(r, row), row.kind \in {"block", "grant"}
        PROVE  <1>3
    <3>1. iRequest'[r] = row
      BY <2>3, Asked DEF Kinds
    <3>2. SignReadsTrue(r)'
      BY <2>3, <3>1 DEF SignReadsTrue, Identity!Is
    <3>. QED  BY <2>3, <3>2, Asked DEF Kinds
  <2>4. CASE Identity!BeginCode(r)
    <3>1. PICK new : Identity!Reads(r, [kind |-> "code", new |-> new,
                               open |-> [k \in Identity!OpenChallenges |-> iChallenge[k].version]])
      BY <2>4 DEF Identity!BeginCode
    <3>2. iRequest'[r] = [kind |-> "code", new |-> new,
                         open |-> [k \in Identity!OpenChallenges |-> iChallenge[k].version]]
      BY <3>1, Asked DEF Kinds
    <3>3. \A k \in Identity!OpenChallenges : StillOpen(k, iChallenge[k].version)'
      <4>1. \A k \in Identity!OpenChallenges : /\ k \in Challenges /\ Identity!Sent(k) /\ iChallenge[k] \in Identity!ChallengeRow
                                      /\ ~iChallenge[k].consumed
        BY RowsAreRows DEF SignInInv, Identity!OpenChallenges
      <4>2. \A k \in Identity!OpenChallenges : iChallenge[k].failed < MaxGuesses
        <5>1. \A k \in Identity!OpenChallenges : iChallenge[k].failed \in Nat
          BY <4>1, SignInConstants DEF Identity!ChallengeRow
        <5>2. \A k \in Identity!OpenChallenges : ~(iChallenge[k].failed >= MaxGuesses)
          BY <4>1 DEF SignInInv, Identity!CodesOpenOneSession
        <5>. QED  BY <5>1, <5>2, SignInConstants
      <4>. QED  BY <1>0, <4>1, <4>2 DEF StillOpen, Identity!Sent, Identity!ChallengeRow
    <3>4. SignReadsTrue(r)'
      BY <1>0, <3>2, <3>3 DEF SignReadsTrue, Identity!Is
    <3>. QED  BY <3>1, <3>4, Asked DEF Kinds
  <2>5. CASE \E k \in Challenges : Identity!BeginVerify(r, k)
    <3>1. PICK k \in Challenges : Identity!BeginVerify(r, k)
      BY <2>5
    <3>2. PICK row : Identity!Reads(r, row) /\ row.kind = "verify" /\ row.challenge = k
                     /\ row.version = iChallenge[k].version
      BY <3>1 DEF Identity!BeginVerify
    <3>3. StillOpen(k, iChallenge[k].version)'
      <4>1. /\ Identity!Sent(k) /\ iChallenge[k] \in Identity!ChallengeRow /\ ~iChallenge[k].consumed
            /\ iChallenge[k].failed < MaxGuesses
        BY <3>1, RowsAreRows DEF SignInInv, Identity!BeginVerify, Identity!OpenChallenges
      <4>. QED  BY <1>0, <4>1 DEF StillOpen, Identity!Sent, Identity!ChallengeRow
    <3>4. SignReadsTrue(r)'
      BY <1>0, <3>2, <3>3, Asked DEF SignReadsTrue, Identity!Is, Kinds
    <3>. QED  BY <3>2, <3>4, Asked DEF Kinds
  <2>6. CASE Identity!ListSessions(r)
    <3>1. Identity!Reads(r, [kind |-> "revoke", live |-> [s \in Identity!LiveSessions |-> iSession[s].version]])
      BY <2>6 DEF Identity!ListSessions
    <3>2. iRequest'[r] = [kind |-> "revoke", live |-> [s \in Identity!LiveSessions |-> iSession[s].version]]
      BY <3>1, Asked DEF Kinds
    <3>3. \A s \in Identity!LiveSessions : StillLive(s, iSession[s].version)'
      <4>1. \A s \in Identity!LiveSessions : /\ s \in Sessions /\ Identity!Minted(s) /\ iSession[s] \in Identity!SessionRow
                                    /\ ~iSession[s].revoked
        BY RowsAreRows DEF SignInInv, Identity!LiveSessions
      <4>. QED  BY <1>0, <4>1 DEF StillLive, Identity!Minted, Identity!SessionRow
    <3>4. SignReadsTrue(r)'
      BY <1>0, <3>2, <3>3 DEF SignReadsTrue, Identity!Is
    <3>. QED  BY <3>1, <3>4, Asked DEF Kinds
  <2>. QED
    <3>1. CASE Identity!Leave(r) \/ (\E g \in Grants : Identity!GrantRole(r, g))
      BY <2>1, <3>1 DEF Identity!Leave, Identity!GrantRole
    <3>2. CASE Identity!BeginGrant(r)
      BY <2>3, <3>2 DEF Identity!BeginGrant
    <3>3. CASE \E to \in AccountStatuses : Identity!SetPrincipalStatus(r, to)
      BY <2>2, <2>3, <3>3 DEF Identity!SetPrincipalStatus
    <3>. QED  BY <2>4, <2>5, <2>6, <3>1, <3>2, <3>3
<1>4. Identity!TypeOK'
  BY <1>1, <1>2, <1>3 DEF SignInInv, Identity!TypeOK, Kinds, Identity!codes
<1>5. SignInInv'
  BY <1>1, <1>3, <1>4, SignInReads DEF Identity!codes
<1>6. Identity!SessionsStayEnded
  BY <1>1 DEF Identity!SessionsStayEnded
<1>. QED  BY <1>5, <1>6

LEMMA AloneOK ==
    ASSUME SignInInv,
           (\E k \in Challenges : Identity!WindowPasses(k) \/ Identity!CodeExpires(k)) \/ (\E g \in Grants : Identity!RevokeRole(g))
           \/ UNCHANGED Identity!vars
    PROVE  SignInInv' /\ Identity!SessionsStayEnded
<1>1. UNCHANGED <<iStatus, iChallenge, iMismatches, iSession, iRequest>>
  BY
       DEF Identity!WindowPasses, Identity!CodeExpires, Identity!RevokeRole, Identity!vars,
           Identity!codes
<1>2. /\ iRecent' \subseteq Challenges /\ iExpired' \subseteq Challenges
      /\ iGrant' \in [Grants -> {None, "ACTIVE", "REVOKED"}]
  BY
       DEF Identity!WindowPasses, Identity!CodeExpires, Identity!RevokeRole, SignInInv,
           Identity!TypeOK, Identity!vars, Identity!codes
<1>3. Identity!TypeOK'
  BY <1>1, <1>2 DEF SignInInv, Identity!TypeOK, Identity!Idle
<1>4. RowsGrow
  BY <1>1 DEF RowsGrow, Identity!Sent, Identity!Minted
<1>5. \A r \in Requests : SignReadsTrue(r)'
  BY <1>1, <1>3, <1>4, SignReadsStayTrue DEF SignInInv
<1>6. (Identity!CodesOpenOneSession /\ SessionsHaveCodes /\ UnsentIsUntried)'
  BY <1>1
       DEF SignInInv, Identity!CodesOpenOneSession, SessionsHaveCodes, UnsentIsUntried,
           Identity!Sent, Identity!Minted
<1>7. Identity!SessionsStayEnded
  BY <1>1 DEF Identity!SessionsStayEnded
<1>. QED  BY <1>1, <1>3, <1>5, <1>6, <1>7 DEF SignInInv

LEMMA SignInStep == SignInInv /\ [Identity!Next]_(Identity!vars) =>
    SignInInv' /\ Identity!SessionsStayEnded
<1> SUFFICES ASSUME SignInInv, [Identity!Next]_(Identity!vars)
             PROVE SignInInv' /\ Identity!SessionsStayEnded
  OBVIOUS
<1>. QED  BY SendCodeOK, GuessWrongOK, RefusePrincipalOK, MintSessionOK, RevokeSessionOK, RevokeAllOK,
             OtherOK, AloneOK DEF Identity!Next

-----------------------------------------------------------------------------
(* ClaimDesk. ClaimInv: who read a claim read it as it is or was, one claim *)
(* is open, an incident is written once for each step of its life.          *)

LEMMA ClaimCounts == \A S : Claiming!Cardinality(S) = Cardinality(S)
  BY Zenon DEF Cardinality, IsFiniteSet, Claiming!Cardinality, Claiming!IsFiniteSet

\* What a request read is the row, or one the row has had under an older version.
ClaimRead(c, row) ==
    /\ c \in Claims /\ Claiming!Filed(c) /\ row \in Claiming!ClaimRow /\ row.version <= cClaim[c].version
    /\ row.version = cClaim[c].version => row = cClaim[c]

IncidentRead(i, row) ==
    /\ i \in Incidents /\ Claiming!Reported(i) /\ row \in Claiming!IncidentRow /\ row.version <= cIncident[i].version
    /\ row.version = cIncident[i].version => row = cIncident[i]

RowsRead(r) ==
    cRequest[r] # None =>
       \/ /\ cRequest[r] \in [claim: Claims, row: Claiming!ClaimRow]
          /\ ClaimRead(cRequest[r].claim, cRequest[r].row)
       \/ /\ cRequest[r] \in [incident: Incidents, row: Claiming!IncidentRow]
          /\ IncidentRead(cRequest[r].incident, cRequest[r].row)

OneOpenClaim ==
    \A c, d \in Claims :
        Claiming!Filed(c) /\ Claiming!Filed(d) /\ cClaim[c].parcel = cClaim[d].parcel /\ Claiming!IsOpen(cClaim[c]) /\ Claiming!IsOpen(cClaim[d])
            => c = d

ReviewedFirst == \A c \in Claims : Claiming!Filed(c) /\ Claiming!IsDecided(cClaim[c]) =>
                     cClaim[c].custodyReviewed

\* An incident is written once for each step of its life.
StepsAreCounted ==
    \A i \in Incidents : Claiming!Reported(i) =>
        /\ cIncident[i].status = "SUBMITTED" => cIncident[i].version = 1
        /\ cIncident[i].status = "UNDER_INVESTIGATION" => cIncident[i].version = 2

ClaimRowsOK ==
    /\ cClaim \in [Claims -> Claiming!ClaimRow \cup {None}] /\ cThread \subseteq Claims
    /\ cIncident \in [Incidents -> Claiming!IncidentRow \cup {None}]

ClaimInv ==
    /\ ClaimRowsOK /\ DOMAIN cRequest = Requests
    /\ \A r \in Requests : RowsRead(r)
    /\ OneOpenClaim /\ ReviewedFirst /\ StepsAreCounted

LEMMA ClaimTells == ClaimInv => Claiming!TypeOK /\ Claiming!OneClaimAtATime
<1> SUFFICES ASSUME ClaimInv PROVE Claiming!TypeOK /\ Claiming!OneClaimAtATime
  OBVIOUS
<1>1. Claiming!TypeOK
  <2>1. \A r \in Requests : cRequest[r] # None =>
          IF Claiming!Has(r, "claim") THEN cRequest[r] \in [claim: Claims, row: Claiming!ClaimRow]
                             ELSE cRequest[r] \in [incident: Incidents, row: Claiming!IncidentRow]
    BY DEF ClaimInv, RowsRead, Claiming!Has
  <2>. QED  BY <2>1 DEF ClaimInv, ClaimRowsOK, Claiming!TypeOK
<1>2. ASSUME NEW p \in Parcels
      PROVE  Cardinality({c \in Claims : Claiming!Filed(c) /\ cClaim[c].parcel = p /\ Claiming!IsOpen(cClaim[c])}) <= 1
  <2> DEFINE open == {c \in Claims : Claiming!Filed(c) /\ cClaim[c].parcel = p /\ Claiming!IsOpen(cClaim[c])}
  <2>1. \A c, d \in open : c = d
    BY DEF ClaimInv, OneOpenClaim
  <2> HIDE DEF open
  <2>2. Cardinality(open) <= 1
    BY <2>1, AtMostOne
  <2>. QED  BY <2>2 DEF open
<1>. QED  BY <1>1, <1>2, ClaimCounts DEF ClaimInv, ReviewedFirst, Claiming!OneClaimAtATime

LEMMA ClaimInit == Claiming!Init => ClaimInv
  BY ClaimConstants
       DEF Claiming!Init, ClaimInv, ClaimRowsOK, RowsRead, OneOpenClaim, ReviewedFirst,
           StepsAreCounted,
     Claiming!Filed, Claiming!Reported

\* A claim and an incident are written under a higher version.
ClaimsGrow ==
    /\ \A c \in Claims : Claiming!Filed(c) =>
          Claiming!Filed(c)' /\ (cClaim'[c] = cClaim[c] \/ cClaim'[c].version > cClaim[c].version)
    /\ \A i \in Incidents : Claiming!Reported(i) =>
          Claiming!Reported(i)' /\ (cIncident'[i] = cIncident[i] \/ cIncident'[i].version > cIncident[i].version)

LEMMA RowsStayRead ==
    ASSUME ClaimInv, ClaimRowsOK', ClaimsGrow, NEW r \in Requests, cRequest'[r] = cRequest[r]
    PROVE  RowsRead(r)'
<1>0. /\ \A c \in Claims : Claiming!Filed(c) => cClaim[c].version \in Nat
      /\ \A c \in Claims : Claiming!Filed(c)' => cClaim'[c].version \in Nat
  BY ClaimConstants DEF ClaimInv, ClaimRowsOK, Claiming!Filed, Claiming!ClaimRow
<1>9. /\ \A i \in Incidents : Claiming!Reported(i) => cIncident[i].version \in Nat
      /\ \A i \in Incidents : Claiming!Reported(i)' => cIncident'[i].version \in Nat
  BY ClaimConstants DEF ClaimInv, ClaimRowsOK, Claiming!Reported, Claiming!IncidentRow
<1>8. /\ \A row \in Claiming!ClaimRow : row.version \in Nat
      /\ \A row \in Claiming!IncidentRow : row.version \in Nat
  BY ClaimConstants DEF Claiming!ClaimRow, Claiming!IncidentRow
<1>1. \A c, row : ClaimRead(c, row) => ClaimRead(c, row)'
  BY <1>0, <1>8 DEF ClaimRead, ClaimsGrow
<1>2. \A i, row : IncidentRead(i, row) => IncidentRead(i, row)'
  BY <1>9, <1>8 DEF IncidentRead, ClaimsGrow
<1>3. RowsRead(r)
  BY DEF ClaimInv
<1>. QED  BY <1>1, <1>2, <1>3 DEF RowsRead

\* A request that is over has read nothing.
LEMMA ClaimReadsOver ==
    ASSUME ClaimInv, ClaimRowsOK', ClaimsGrow, NEW r \in Requests,
           cRequest' = [cRequest EXCEPT ![r] = None]
    PROVE  DOMAIN cRequest' = Requests /\ \A q \in Requests : RowsRead(q)'
<1>1. /\ DOMAIN cRequest' = Requests /\ cRequest'[r] = None
      /\ \A q \in Requests : q # r => cRequest'[q] = cRequest[q]
  BY DEF ClaimInv
<1>2. \A q \in Requests : q # r => RowsRead(q)'
  BY <1>1, RowsStayRead
<1>3. RowsRead(r)'
  BY <1>1 DEF RowsRead
<1>. QED  BY <1>1, <1>2, <1>3

\* What a write of a claim may change in the row it read.
MayBecome(old, new) ==
    /\ new \in Claiming!ClaimRow /\ new.parcel = old.parcel /\ new.version = old.version
    /\ new.status \in {old.status} \cup Claiming!OnwardOf(old.status)
    /\ Claiming!IsDecided(new) => new.custodyReviewed
    /\ old.custodyReviewed /\ ~new.custodyReviewed =>
          old.status = "SUBMITTED" /\ new.status = "UNDER_REVIEW"
    /\ ~Claiming!IsDecided(old)

LEMMA SaveOK ==
    ASSUME ClaimInv, NEW r \in Requests, Claiming!Has(r, "claim"), NEW row,
           MayBecome(cRequest[r].row, row), Claiming!Save(r, cRequest[r].claim, row)
    PROVE  ClaimInv' /\ Claiming!DecisionsStay
<1>1. PICK c : /\ c = cRequest[r].claim
               /\ c \in Claims /\ Claiming!Filed(c) /\ cRequest[r].row = cClaim[c] /\ cClaim[c] \in Claiming!ClaimRow
  <2>1. cRequest[r] # None /\ "claim" \in DOMAIN cRequest[r] /\ RowsRead(r)
    BY DEF Claiming!Has, ClaimInv
  <2>2. cRequest[r] \notin [incident: Incidents, row: Claiming!IncidentRow]
    BY <2>1
  <2>3. ClaimRead(cRequest[r].claim, cRequest[r].row)
    BY <2>1, <2>2 DEF RowsRead
  <2>4. row.version = cRequest[r].row.version /\ cClaim[cRequest[r].claim].version = row.version
    BY DEF MayBecome, Claiming!Save
  <2>. QED  BY <2>3, <2>4 DEF ClaimRead
<1> DEFINE old == cClaim[c]
<1>2. MayBecome(old, row)
  BY <1>1
<1>3. /\ cClaim' = [d \in Claims |-> cClaim'[d]]
      /\ cClaim'[c] = [row EXCEPT !.version = @ + 1]
      /\ \A d \in Claims : d # c => cClaim'[d] = cClaim[d]
      /\ UNCHANGED <<cThread, cIncident>> /\ cRequest' = [cRequest EXCEPT ![r] = None]
  BY <1>1 DEF Claiming!Save, ClaimInv, ClaimRowsOK
<1>4. row \in Claiming!ClaimRow /\ row.version < MaxVersion
  BY <1>2 DEF MayBecome, Claiming!Save
<1>5. /\ cClaim'[c] \in Claiming!ClaimRow /\ cClaim'[c].version = old.version + 1
      /\ cClaim'[c].status = row.status /\ cClaim'[c].parcel = row.parcel
      /\ cClaim'[c].custodyReviewed = row.custodyReviewed
  <2>1. row.version = old.version
    BY <1>2 DEF MayBecome
  <2>. QED  BY <1>3, <1>4, <2>1, ClaimConstants DEF Claiming!ClaimRow
<1> HIDE DEF old
<1>5a. old.version \in Nat
  BY <1>1, ClaimConstants DEF Claiming!ClaimRow, old
<1>6. ClaimRowsOK'
  BY <1>3, <1>5 DEF ClaimInv, ClaimRowsOK
<1>7. ClaimsGrow
  <2>1. cClaim'[c].version > cClaim[c].version /\ Claiming!Filed(c)'
    BY <1>5, <1>5a, ClaimConstants DEF old, Claiming!Filed
  <2>. QED  BY <2>1, <1>3 DEF ClaimsGrow, Claiming!Filed, Claiming!Reported
<1>8. DOMAIN cRequest' = Requests /\ \A q \in Requests : RowsRead(q)'
  BY <1>3, <1>6, <1>7, ClaimReadsOver
<1>9. /\ Claiming!IsOpen(cClaim'[c]) => Claiming!IsOpen(old)
      /\ Claiming!IsDecided(cClaim'[c]) => cClaim'[c].custodyReviewed
      /\ cClaim'[c].parcel = old.parcel
  BY <1>2, <1>5 DEF MayBecome, Claiming!OnwardOf, Claiming!IsOpen, Claiming!IsDecided
<1>10. OneOpenClaim'
  <2>1. \A d \in Claims : /\ Claiming!Filed(d)' => Claiming!Filed(d)
                          /\ cClaim'[d].parcel = cClaim[d].parcel
                          /\ Claiming!IsOpen(cClaim'[d]) => Claiming!IsOpen(cClaim[d])
    BY <1>1, <1>3, <1>9 DEF old, Claiming!Filed
  <2>. QED  BY <2>1 DEF ClaimInv, OneOpenClaim
<1>11. ReviewedFirst' /\ StepsAreCounted'
  BY <1>3, <1>9
       DEF ClaimInv, ReviewedFirst, StepsAreCounted, Claiming!Filed, Claiming!IsDecided,
           Claiming!Reported
<1>12. Claiming!DecisionsStay
  <2>1. /\ cClaim'[c].status \in {cClaim[c].status} \cup Claiming!OnwardOf(cClaim[c].status)
        /\ cClaim[c].custodyReviewed /\ ~cClaim'[c].custodyReviewed =>
              cClaim[c].status = "SUBMITTED" /\ cClaim'[c].status = "UNDER_REVIEW"
        /\ ~Claiming!IsDecided(cClaim[c])
    BY <1>2, <1>5 DEF MayBecome, old
  <2>. QED  BY <1>3, <2>1 DEF Claiming!DecisionsStay
<1>. QED  BY <1>6, <1>8, <1>10, <1>11, <1>12 DEF ClaimInv

\* Each write of a claim is one of these.
LEMMA WritesMayBe ==
    ASSUME NEW old \in Claiming!ClaimRow, NEW r, NEW c
    PROVE  /\ \A reviewed \in BOOLEAN : "UNDER_REVIEW" \in Claiming!OnwardOf(old.status) =>
                 MayBecome(old, [old EXCEPT !.status = "UNDER_REVIEW", !.custodyReviewed = reviewed])
           /\ ~Claiming!IsDecided(old) => MayBecome(old, [old EXCEPT !.custodyReviewed = TRUE])
           /\ \A to \in {"APPROVED", "REJECTED"} : to \in Claiming!OnwardOf(old.status) /\ old.custodyReviewed =>
                 MayBecome(old, [old EXCEPT !.status = to])
           /\ "WITHDRAWN" \in Claiming!OnwardOf(old.status) =>
                  MayBecome(old, [old EXCEPT !.status = "WITHDRAWN"])
<1>1. ASSUME NEW reviewed \in BOOLEAN, "UNDER_REVIEW" \in Claiming!OnwardOf(old.status)
      PROVE  MayBecome(old, [old EXCEPT !.status = "UNDER_REVIEW", !.custodyReviewed = reviewed])
  <2> DEFINE f == [i \in {1} |-> old]
  <2>1. [old EXCEPT !.status = "UNDER_REVIEW", !.custodyReviewed = reviewed]
          = [f EXCEPT ![1].status = "UNDER_REVIEW", ![1].custodyReviewed = reviewed][1]
    OBVIOUS
  <2>2. f \in [{1} -> Claiming!ClaimRow]
    OBVIOUS
  <2>3. [old EXCEPT !.status = "UNDER_REVIEW", !.custodyReviewed = reviewed]
          = [parcel |-> old.parcel, custodyReviewed |-> reviewed, version |-> old.version,
             status |-> "UNDER_REVIEW"]
    BY <2>1, <2>2 DEF Claiming!ClaimRow
  <2>4. old.status = "SUBMITTED"
    BY <1>1 DEF Claiming!OnwardOf, Claiming!ClaimRow
  <2>. QED  BY <1>1, <2>3, <2>4 DEF MayBecome, Claiming!ClaimRow, Claiming!IsDecided, Claiming!OnwardOf
<1>2. ASSUME ~Claiming!IsDecided(old)
      PROVE  MayBecome(old, [old EXCEPT !.custodyReviewed = TRUE])
  BY <1>2 DEF MayBecome, Claiming!ClaimRow, Claiming!IsDecided
<1>3. ASSUME NEW to \in {"APPROVED", "REJECTED"}, to \in Claiming!OnwardOf(old.status),
             old.custodyReviewed
      PROVE  MayBecome(old, [old EXCEPT !.status = to])
  BY <1>3 DEF MayBecome, Claiming!ClaimRow, Claiming!IsDecided, Claiming!OnwardOf
<1>4. ASSUME "WITHDRAWN" \in Claiming!OnwardOf(old.status)
      PROVE  MayBecome(old, [old EXCEPT !.status = "WITHDRAWN"])
  BY <1>4 DEF MayBecome, Claiming!ClaimRow, Claiming!IsDecided, Claiming!OnwardOf
<1>. QED  BY <1>1, <1>2, <1>3, <1>4

LEMMA ClaimWritesOK ==
    ASSUME ClaimInv, NEW r \in Requests,
           (\E reviewed \in BOOLEAN : Claiming!StartReview(r, reviewed)) \/ Claiming!RecordCustodyReview(r)
           \/ Claiming!Approve(r) \/ Claiming!Reject(r) \/ Claiming!Withdraw(r)
    PROVE  ClaimInv' /\ Claiming!DecisionsStay
<1>1. Claiming!Has(r, "claim")
  BY
       DEF Claiming!StartReview, Claiming!RecordCustodyReview, Claiming!Approve, Claiming!Reject,
           Claiming!Decide, Claiming!Withdraw
<1>2. cRequest[r].row \in Claiming!ClaimRow
  <2>1. cRequest[r] # None /\ "claim" \in DOMAIN cRequest[r] /\ RowsRead(r)
    BY <1>1 DEF Claiming!Has, ClaimInv
  <2>2. cRequest[r] \notin [incident: Incidents, row: Claiming!IncidentRow]
    BY <2>1
  <2>. QED  BY <2>1, <2>2 DEF RowsRead, ClaimRead
<1>3. PICK row : MayBecome(cRequest[r].row, row) /\ Claiming!Save(r, cRequest[r].claim, row)
  <2>1. CASE \E reviewed \in BOOLEAN : Claiming!StartReview(r, reviewed)
    BY <2>1, <1>2, WritesMayBe DEF Claiming!StartReview
  <2>2. CASE Claiming!RecordCustodyReview(r)
    BY <2>2, <1>2, WritesMayBe DEF Claiming!RecordCustodyReview
  <2>3. CASE Claiming!Approve(r) \/ Claiming!Reject(r)
    BY <2>3, <1>2, WritesMayBe DEF Claiming!Approve, Claiming!Reject, Claiming!Decide
  <2>4. CASE Claiming!Withdraw(r)
    BY <2>4, <1>2, WritesMayBe DEF Claiming!Withdraw
  <2>. QED  BY <2>1, <2>2, <2>3, <2>4
<1>. QED  BY <1>1, <1>3, SaveOK

LEMMA FileClaimOK ==
    ASSUME ClaimInv, NEW c \in Claims, NEW p \in Parcels, Claiming!FileClaim(c, p)
    PROVE  ClaimInv' /\ Claiming!DecisionsStay
<1>1. /\ cClaim' = [d \in Claims |-> cClaim'[d]]
      /\ cClaim'[c] = [parcel |-> p, custodyReviewed |-> FALSE, version |-> 1, status |-> "SUBMITTED"]
      /\ \A d \in Claims : d # c => cClaim'[d] = cClaim[d]
      /\ UNCHANGED <<cThread, cIncident, cRequest>> /\ ~Claiming!Filed(c)
  BY DEF Claiming!FileClaim, ClaimInv, ClaimRowsOK
<1>2. cClaim'[c] \in Claiming!ClaimRow
  BY <1>1, ClaimConstants DEF Claiming!ClaimRow
<1>3. ClaimRowsOK'
  BY <1>1, <1>2 DEF ClaimInv, ClaimRowsOK
<1>4. \A d \in Claims : Claiming!Filed(d) => d # c /\ Claiming!Filed(d)'
  BY <1>1 DEF Claiming!Filed
<1>5. ClaimsGrow
  BY <1>1, <1>4 DEF ClaimsGrow, Claiming!Reported
<1>6. \A r \in Requests : RowsRead(r)'
  BY <1>1, <1>3, <1>5, RowsStayRead
<1>7. \A d \in Claims : d # c /\ Claiming!Filed(d)' /\ cClaim'[d].parcel = p =>
          ~Claiming!IsOpen(cClaim'[d])
  BY <1>1 DEF Claiming!FileClaim, Claiming!OpenFor, Claiming!Filed
<1>8. \A d \in Claims : d # c => (Claiming!Filed(d)' <=> Claiming!Filed(d))
  BY <1>1 DEF Claiming!Filed
<1>9. OneOpenClaim'
  BY <1>1, <1>7, <1>8 DEF ClaimInv, OneOpenClaim
<1>10. ~Claiming!IsDecided(cClaim'[c])
  BY <1>1 DEF Claiming!IsDecided
<1>11. ReviewedFirst' /\ StepsAreCounted'
  BY <1>1, <1>8, <1>10 DEF ClaimInv, ReviewedFirst, StepsAreCounted, Claiming!Reported
<1>12. Claiming!DecisionsStay
  BY <1>1, <1>4 DEF Claiming!DecisionsStay
<1>. QED  BY <1>1, <1>3, <1>6, <1>9, <1>11, <1>12 DEF ClaimInv

LEMMA ReportIncidentOK ==
    ASSUME ClaimInv, NEW i \in Incidents, NEW p \in Parcels \cup {None}, Claiming!ReportIncident(i, p)
    PROVE  ClaimInv' /\ Claiming!DecisionsStay
<1>1. /\ cIncident' = [j \in Incidents |-> cIncident'[j]]
      /\ cIncident'[i] = [parcel |-> p, linked |-> None, version |-> 1, status |-> "SUBMITTED"]
      /\ \A j \in Incidents : j # i => cIncident'[j] = cIncident[j]
      /\ UNCHANGED <<cThread, cClaim, cRequest>> /\ ~Claiming!Reported(i)
  BY DEF Claiming!ReportIncident, ClaimInv, ClaimRowsOK
<1>2. cIncident'[i] \in Claiming!IncidentRow
  BY <1>1, ClaimConstants DEF Claiming!IncidentRow
<1>3. ClaimRowsOK'
  BY <1>1, <1>2 DEF ClaimInv, ClaimRowsOK
<1>4. \A j \in Incidents : Claiming!Reported(j) => j # i /\ Claiming!Reported(j)'
  BY <1>1 DEF Claiming!Reported
<1>5. ClaimsGrow
  BY <1>1, <1>4 DEF ClaimsGrow, Claiming!Filed
<1>6. \A r \in Requests : RowsRead(r)'
  BY <1>1, <1>3, <1>5, RowsStayRead
<1>7. OneOpenClaim' /\ ReviewedFirst'
  BY <1>1 DEF ClaimInv, OneOpenClaim, ReviewedFirst, Claiming!Filed
<1>8. StepsAreCounted'
  BY <1>1 DEF ClaimInv, StepsAreCounted, Claiming!Reported
<1>9. Claiming!DecisionsStay
  BY <1>1, <1>4 DEF Claiming!DecisionsStay
<1>. QED  BY <1>1, <1>3, <1>6, <1>7, <1>8, <1>9 DEF ClaimInv

LEMMA AdvanceOK ==
    ASSUME ClaimInv, NEW r \in Requests, NEW to \in {"UNDER_INVESTIGATION", "RESOLVED"},
           NEW link \in Claims \cup {None}, Claiming!Advance(r, to, link)
    PROVE  ClaimInv' /\ Claiming!DecisionsStay
<1>1. PICK i : /\ i = cRequest[r].incident
               /\ i \in Incidents /\ Claiming!Reported(i) /\ cRequest[r].row = cIncident[i]
               /\ cIncident[i] \in Claiming!IncidentRow
  <2>1. cRequest[r] # None /\ "incident" \in DOMAIN cRequest[r] /\ RowsRead(r)
    BY DEF Claiming!Advance, Claiming!Has, ClaimInv
  <2>2. cRequest[r] \notin [claim: Claims, row: Claiming!ClaimRow]
    BY <2>1
  <2>3. IncidentRead(cRequest[r].incident, cRequest[r].row)
    BY <2>1, <2>2 DEF RowsRead
  <2>4. cIncident[cRequest[r].incident].version = cRequest[r].row.version
    BY DEF Claiming!Advance
  <2>. QED  BY <2>3, <2>4 DEF IncidentRead
<1>2. /\ cIncident' = [j \in Incidents |-> cIncident'[j]]
      /\ \A j \in Incidents : j # i => cIncident'[j] = cIncident[j]
      /\ UNCHANGED <<cThread, cClaim>> /\ cRequest' = [cRequest EXCEPT ![r] = None]
      /\ to \in Claiming!IncidentOnwardOf(cIncident[i].status)
      /\ cIncident'[i] = [cIncident[i] EXCEPT !.status = to, !.linked = link, !.version = @ + 1]
  BY <1>1 DEF Claiming!Advance, ClaimInv, ClaimRowsOK
<1>3. cIncident'[i] = [parcel |-> cIncident[i].parcel, linked |-> link,
                      version |-> cIncident[i].version + 1, status |-> to]
  <2> SUFFICES ASSUME NEW row \in Claiming!IncidentRow
               PROVE  [row EXCEPT !.status = to, !.linked = link, !.version = @ + 1]
                         = [parcel |-> row.parcel, linked |-> link, version |-> row.version + 1, status |-> to]
    BY <1>1, <1>2
  <2> DEFINE f == [j \in {1} |-> row]
  <2>1. [row EXCEPT !.status = to, !.linked = link, !.version = @ + 1]
          = [f EXCEPT ![1].status = to, ![1].linked = link, ![1].version = @ + 1][1]
    OBVIOUS
  <2>2. f \in [{1} -> Claiming!IncidentRow]
    OBVIOUS
  <2>. QED  BY <2>1, <2>2 DEF Claiming!IncidentRow
<1>4. /\ cIncident[i].status = "SUBMITTED" => cIncident[i].version = 1
      /\ cIncident[i].status = "UNDER_INVESTIGATION" => cIncident[i].version = 2
      /\ cIncident[i].status \in {"SUBMITTED", "UNDER_INVESTIGATION"}
      /\ to = "UNDER_INVESTIGATION" => cIncident[i].status = "SUBMITTED"
  BY <1>1, <1>2 DEF ClaimInv, StepsAreCounted, Claiming!IncidentOnwardOf
<1>5. cIncident'[i] \in Claiming!IncidentRow
  BY <1>1, <1>3, <1>4 DEF Claiming!IncidentRow
<1>6. ClaimRowsOK'
  BY <1>2, <1>5 DEF ClaimInv, ClaimRowsOK
<1>7. Claiming!Reported(i)'
  BY <1>5, ClaimConstants DEF Claiming!Reported
<1>8. cIncident'[i].version > cIncident[i].version
  BY <1>3, <1>4
<1>9. ClaimsGrow
  BY <1>2, <1>7, <1>8 DEF ClaimsGrow, Claiming!Filed, Claiming!Reported
<1>10. DOMAIN cRequest' = Requests /\ \A q \in Requests : RowsRead(q)'
  BY <1>2, <1>6, <1>9, ClaimReadsOver
<1>11. OneOpenClaim' /\ ReviewedFirst'
  BY <1>2 DEF ClaimInv, OneOpenClaim, ReviewedFirst, Claiming!Filed
<1>12. StepsAreCounted'
  <2>1. /\ cIncident'[i].status = to
        /\ to = "UNDER_INVESTIGATION" => cIncident'[i].version = 2
    BY <1>3, <1>4
  <2>. QED  BY <1>2, <2>1 DEF ClaimInv, StepsAreCounted, Claiming!Reported
<1>13. Claiming!DecisionsStay
  <2>1. cIncident'[i].status \in Claiming!IncidentOnwardOf(cIncident[i].status)
    BY <1>2, <1>3
  <2>. QED  BY <1>2, <2>1 DEF Claiming!DecisionsStay
<1>. QED  BY <1>6, <1>10, <1>11, <1>12, <1>13 DEF ClaimInv

LEMMA ClaimReadsOK ==
    ASSUME ClaimInv,
           \/ \E r \in Requests : \/ Claiming!Leave(r) \/ Claiming!PostMessage(r)
                                  \/ \E c \in Claims : Claiming!ReadClaim(r, c)
                                  \/ \E i \in Incidents : Claiming!ReadIncident(r, i)
           \/ UNCHANGED Claiming!vars
    PROVE  ClaimInv' /\ Claiming!DecisionsStay
<1>1. UNCHANGED <<cClaim, cIncident>>
  BY
       DEF Claiming!Leave, Claiming!PostMessage, Claiming!ReadClaim, Claiming!ReadIncident,
           Claiming!vars
<1>2. ClaimRowsOK'
  <2>1. ASSUME NEW r \in Requests, Claiming!PostMessage(r)
        PROVE  cThread' \subseteq Claims
    <3>1. cRequest[r] # None /\ "claim" \in DOMAIN cRequest[r] /\ RowsRead(r)
      BY <2>1 DEF Claiming!PostMessage, Claiming!Has, ClaimInv
    <3>2. cRequest[r] \notin [incident: Incidents, row: Claiming!IncidentRow]
      BY <3>1
    <3>3. cRequest[r].claim \in Claims
      BY <3>1, <3>2 DEF RowsRead
    <3>. QED  BY <2>1, <3>3 DEF Claiming!PostMessage, ClaimInv, ClaimRowsOK
  <2>2. UNCHANGED cThread \/ \E r \in Requests : Claiming!PostMessage(r)
    BY DEF Claiming!Leave, Claiming!ReadClaim, Claiming!ReadIncident, Claiming!vars
  <2>. QED  BY <1>1, <2>1, <2>2 DEF ClaimInv, ClaimRowsOK
<1>3. ClaimsGrow
  BY <1>1 DEF ClaimsGrow, Claiming!Filed, Claiming!Reported
<1>4. DOMAIN cRequest' = Requests /\ \A q \in Requests : RowsRead(q)'
  <2>1. ASSUME NEW r \in Requests, Claiming!Leave(r) \/ Claiming!PostMessage(r)
        PROVE  <1>4
    BY <2>1, <1>2, <1>3, ClaimReadsOver DEF Claiming!Leave, Claiming!PostMessage
  <2>2. ASSUME NEW r \in Requests, NEW c \in Claims, Claiming!ReadClaim(r, c)
        PROVE  <1>4
    <3>1. /\ DOMAIN cRequest' = Requests /\ cRequest'[r] = [claim |-> c, row |-> cClaim[c]]
          /\ \A q \in Requests : q # r => cRequest'[q] = cRequest[q]
      BY <2>2 DEF ClaimInv, Claiming!ReadClaim
    <3>2. cClaim[c] \in Claiming!ClaimRow /\ Claiming!Filed(c)
      BY <2>2 DEF Claiming!ReadClaim, ClaimInv, ClaimRowsOK, Claiming!Filed
    <3>3. ClaimRead(c, cClaim[c])'
      BY <1>1, <3>2, ClaimConstants DEF ClaimRead, Claiming!Filed, Claiming!ClaimRow
    <3>4. RowsRead(r)'
      BY <1>1, <3>1, <3>2, <3>3 DEF RowsRead
    <3>. QED  BY <1>2, <1>3, <3>1, <3>4, RowsStayRead
  <2>3. ASSUME NEW r \in Requests, NEW i \in Incidents, Claiming!ReadIncident(r, i)
        PROVE  <1>4
    <3>1. /\ DOMAIN cRequest' = Requests /\ cRequest'[r] = [incident |-> i, row |-> cIncident[i]]
          /\ \A q \in Requests : q # r => cRequest'[q] = cRequest[q]
      BY <2>3 DEF ClaimInv, Claiming!ReadIncident
    <3>2. cIncident[i] \in Claiming!IncidentRow /\ Claiming!Reported(i)
      BY <2>3 DEF Claiming!ReadIncident, ClaimInv, ClaimRowsOK, Claiming!Reported
    <3>3. IncidentRead(i, cIncident[i])'
      BY <1>1, <3>2, ClaimConstants DEF IncidentRead, Claiming!Reported, Claiming!IncidentRow
    <3>4. RowsRead(r)'
      BY <1>1, <3>1, <3>2, <3>3 DEF RowsRead
    <3>. QED  BY <1>2, <1>3, <3>1, <3>4, RowsStayRead
  <2>4. CASE UNCHANGED Claiming!vars
    BY <2>4, <1>2, <1>3, RowsStayRead DEF Claiming!vars, ClaimInv
  <2>. QED  BY <2>1, <2>2, <2>3, <2>4
<1>5. (OneOpenClaim /\ ReviewedFirst /\ StepsAreCounted)'
  BY <1>1
       DEF ClaimInv, OneOpenClaim, ReviewedFirst, StepsAreCounted, Claiming!Filed, Claiming!Reported
<1>6. Claiming!DecisionsStay
  BY <1>1 DEF Claiming!DecisionsStay
<1>. QED  BY <1>2, <1>4, <1>5, <1>6 DEF ClaimInv

LEMMA ClaimStep == ClaimInv /\ [Claiming!Next]_(Claiming!vars) => ClaimInv' /\ Claiming!DecisionsStay
<1> SUFFICES ASSUME ClaimInv, [Claiming!Next]_(Claiming!vars) PROVE ClaimInv' /\ Claiming!DecisionsStay
  OBVIOUS
<1>1. ASSUME NEW r \in Requests,
             (\E link \in Claims \cup {None} : Claiming!Resolve(r, link)) \/ Claiming!StartInvestigation(r)
      PROVE  ClaimInv' /\ Claiming!DecisionsStay
  BY <1>1, AdvanceOK DEF Claiming!Resolve, Claiming!StartInvestigation
<1>. QED  BY <1>1, ClaimWritesOK, FileClaimOK, ReportIncidentOK, ClaimReadsOK DEF Claiming!Next

-----------------------------------------------------------------------------
(* Notices. NoticesInv: a message and its SMS go together, centre and rows  *)
(* agree, and a message is sent at most as often as its row and the         *)
(* dispatches still at work account for.                                    *)

LEMMA NoticeCounts == \A S : Telling!Cardinality(S) = Cardinality(S)
  BY Zenon DEF Cardinality, IsFiniteSet, Telling!Cardinality, Telling!IsFiniteSet

FanOutRow == [people: [Phones -> Nat], twice: BOOLEAN, planned: SUBSET Telling!Key, muted: SUBSET Telling!Key]
DispatchRow == [key: Telling!Key, version: Nat, answer: {None, "SENT", "FAILED"}]

LEMMA NoDispatch == None \notin DispatchRow
  BY NoticeConstants DEF DispatchRow

NoticeRowsOK ==
    /\ nProfile \in [Phones -> 0 .. MaxUpdates]
    /\ nOptedOut \subseteq [phone: Known, channel: {"APP", "SMS", "WHATSAPP"}]
    /\ nNotice \in [Telling!Key -> Telling!NoticeRow \cup {None}]
    /\ \A k \in Telling!Key : nNotice[k] # None /\ nNotice[k].status # "DELIVERED" =>
           nNotice[k].version <= MaxSends + 1
    /\ \A k \in Telling!Key : nNotice[k] # None /\ nNotice[k].status = "SUPPRESSED" =>
           ~Telling!IsMandatory(k.to)
    /\ nSent \in [Telling!Key -> 0 .. MaxSends] /\ nLost \in [Telling!Key -> Nat]
    /\ DOMAIN nFanOut = Readers /\ DOMAIN nDispatch = Senders
    /\ nCentre \subseteq Telling!Key

\* The SMS that goes with a message.
Sms(k) == [k EXCEPT !.to.channel = "SMS"]

FanOutHolds(f) ==
    nFanOut[f] # None =>
        /\ DOMAIN nFanOut[f].people \subseteq Phones
        /\ nFanOut[f].planned \subseteq Telling!Key /\ nFanOut[f].muted \subseteq Telling!Key
        /\ nFanOut[f].planned \cap nFanOut[f].muted = {}
        /\ \A k \in nFanOut[f].muted : ~Telling!IsMandatory(k.to)
        /\ \A k \in nFanOut[f].planned \cup nFanOut[f].muted :
              k.to.audience = "RECEIVER" => Sms(k) \in nFanOut[f].planned \/ nNotice[Sms(k)] # None

DispatchHolds(d) ==
    nDispatch[d] # None =>
        /\ nDispatch[d] \in DispatchRow
        /\ nNotice[nDispatch[d].key] # None
        /\ nDispatch[d].version <= nNotice[nDispatch[d].key].version
        /\ nDispatch[d].version = nNotice[nDispatch[d].key].version =>
              nNotice[nDispatch[d].key].status \in {"PENDING", "FAILED"}

ToldBySms ==
    \A k \in Telling!Key : nNotice[k] # None /\ k.to.audience = "RECEIVER" => nNotice[Sms(k)] # None

Shown == {k \in Telling!Key : nNotice[k] # None /\ nNotice[k].status # "SUPPRESSED"}

Answering(k) == {d \in Senders : nDispatch[d] # None /\ nDispatch[d].key = k /\ nDispatch[d].answer = "SENT"}

NoticeWritten(k) == IF nNotice[k] # None /\ nNotice[k].status \in {"SENT", "DELIVERED"} THEN 1 ELSE 0

Adds(k) == nSent[k] = nLost[k] + Cardinality(Answering(k)) + NoticeWritten(k)

NoticesInv ==
    /\ NoticeRowsOK
    /\ \A f \in Readers : FanOutHolds(f)
    /\ \A d \in Senders : DispatchHolds(d)
    /\ ToldBySms
    /\ nCentre = Telling!InCentre(Shown)
    /\ \A k \in Telling!Key : Adds(k)

LEMMA SmsIs ==
    ASSUME NEW k \in Telling!Key
    PROVE  /\ Sms(k) \in Telling!Key /\ Sms(k).fact = k.fact
           /\ Sms(k).to.channel = "SMS" /\ Sms(k).to.audience = k.to.audience /\ Sms(k).to.phone = k.to.phone
           /\ \A s \in Telling!Key : s.fact = k.fact /\ s.to.channel = "SMS" /\ s.to.audience = k.to.audience
                             /\ s.to.phone = k.to.phone => s = Sms(k)
<1>1. PICK to \in Telling!Message : to = [k.to EXCEPT !.channel = "SMS"]
  BY DEF Telling!Key, Telling!Message
<1>2. to.channel = "SMS" /\ to.audience = k.to.audience /\ to.phone = k.to.phone
  BY <1>1 DEF Telling!Key, Telling!Message
<1>3. Sms(k) = [k EXCEPT !.to = to]
  BY <1>1 DEF Telling!Key, Telling!Message, Sms
<1>4. Sms(k) \in Telling!Key /\ Sms(k).to = to /\ Sms(k).fact = k.fact
  BY <1>3 DEF Telling!Key
<1>5. ASSUME NEW s \in Telling!Key, s.fact = k.fact, s.to.channel = "SMS",
             s.to.audience = k.to.audience, s.to.phone = k.to.phone
      PROVE s = Sms(k)
  <2>1. s.to = to
    BY <1>2, <1>5 DEF Telling!Key, Telling!Message
  <2>. QED  BY <1>4, <1>5, <2>1 DEF Telling!Key
<1>. QED  BY <1>2, <1>4, <1>5

LEMMA AnsweringIs == \A k \in Telling!Key : Cardinality(Answering(k)) \in Nat /\ IsFiniteSet(Answering(k))
<1> SUFFICES ASSUME NEW k \in Telling!Key
             PROVE Cardinality(Answering(k)) \in Nat /\ IsFiniteSet(Answering(k))
  OBVIOUS
<1>1. Answering(k) \subseteq Senders
  BY DEF Answering
<1>. QED  BY <1>1, NoticeConstants, NoDispatch, FS_Subset, FS_CardinalityType

LEMMA NoticesTell == NoticesInv => Telling!TypeOK /\ Telling!NoticesAreWhole
<1> SUFFICES ASSUME NoticesInv PROVE Telling!TypeOK /\ Telling!NoticesAreWhole
  OBVIOUS
<1>1. Telling!TypeOK
  <2>1. nLost \in [Telling!Key -> 0 .. MaxSends]
    <3>1. ASSUME NEW k \in Telling!Key PROVE nLost[k] \in 0 .. MaxSends
      <4>1. PICK l, n, w : l = nLost[k] /\ n = Cardinality(Answering(k)) /\ w = NoticeWritten(k)
        OBVIOUS
      <4>2. l \in Nat /\ n \in Nat /\ w \in Nat /\ nSent[k] = l + n + w /\ nSent[k] \in 0 .. MaxSends
        BY <4>1, AnsweringIs DEF NoticesInv, NoticeRowsOK, Adds, NoticeWritten
      <4>. QED  BY <4>1, <4>2, NoticeConstants, NoDispatch
    <3>. QED  BY <3>1 DEF NoticesInv, NoticeRowsOK
  <2>2. \A d \in Senders : nDispatch[d] # None =>
            nDispatch[d].key \in Telling!Key /\ nDispatch[d].answer \in {None, "SENT", "FAILED"}
    BY DEF NoticesInv, DispatchHolds, DispatchRow
  <2>3. \A f \in Readers : nFanOut[f] # None =>
            nFanOut[f].planned \subseteq Telling!Key /\ nFanOut[f].muted \subseteq Telling!Key
    BY DEF NoticesInv, FanOutHolds
  <2>. QED  BY <2>1, <2>2, <2>3 DEF NoticesInv, NoticeRowsOK, Telling!TypeOK
<1>2. ASSUME NEW k \in Telling!Key, nNotice[k] # None, k.to.audience = "RECEIVER"
      PROVE  nNotice[Sms(k)] # None /\ nNotice[Sms(k)].status # "SUPPRESSED"
  BY <1>2, SmsIs DEF NoticesInv, ToldBySms, NoticeRowsOK, Telling!IsMandatory
<1>3. Telling!NoticesAreWhole
  BY <1>2, NoticeCounts
       DEF NoticesInv, Telling!NoticesAreWhole, Sms, Shown, Adds, Answering, NoticeWritten
<1>. QED  BY <1>1, <1>3

LEMMA NoticesInit == Telling!Init => NoticesInv
<1> SUFFICES ASSUME Telling!Init PROVE NoticesInv
  OBVIOUS
<1>1. NoticeRowsOK
  BY NoticeConstants, NoDispatch DEF Telling!Init, NoticeRowsOK
<1>2. \A k \in Telling!Key : nNotice[k] = None /\ nSent[k] = 0 /\ nLost[k] = 0
  BY DEF Telling!Init
<1>3. Telling!InCentre(Shown) = {}
  BY <1>2 DEF Telling!InCentre, Shown
<1>4. ASSUME NEW k \in Telling!Key PROVE Adds(k)
  <2>1. Answering(k) = {}
    BY DEF Telling!Init, Answering
  <2>2. Cardinality(Answering(k)) = 0
    BY <2>1, FS_EmptySet
  <2>. QED  BY <1>2, <2>2 DEF Adds, NoticeWritten
<1>. QED  BY <1>1, <1>2, <1>3, <1>4 DEF Telling!Init, NoticesInv, FanOutHolds, DispatchHolds, ToldBySms

\* Rows never vanish, and each change of one has a new version.
NoticesGrow ==
    \A k \in Telling!Key : nNotice[k] # None =>
        nNotice'[k] # None /\ (nNotice'[k] = nNotice[k] \/ nNotice'[k].version > nNotice[k].version)

LEMMA FanOutsStillHold ==
    ASSUME NoticesInv, NoticesGrow, NEW f \in Readers, nFanOut'[f] = nFanOut[f]
    PROVE  FanOutHolds(f)'
BY SmsIs DEF NoticesInv, NoticesGrow, FanOutHolds, Telling!IsMandatory, Sms

LEMMA DispatchesStillHold ==
    ASSUME NoticesInv, NoticesGrow, NoticeRowsOK', NEW d \in Senders, nDispatch'[d] = nDispatch[d]
    PROVE  DispatchHolds(d)'
<1>1. CASE nDispatch[d] = None
  BY <1>1 DEF DispatchHolds
<1>2. CASE nDispatch[d] # None
  <2>1. nDispatch[d].key \in Telling!Key /\ nDispatch[d].version \in Nat /\ nNotice[nDispatch[d].key] # None
    BY <1>2 DEF NoticesInv, DispatchHolds, DispatchRow
  <2>2. PICK k \in Telling!Key : k = nDispatch[d].key
    BY <2>1
  <2>3. nNotice[k].version \in Nat /\ nNotice'[k].version \in Nat
    <3>1. nNotice[k] \in Telling!NoticeRow /\ nNotice'[k] \in Telling!NoticeRow
      BY <2>1, <2>2 DEF NoticesInv, NoticeRowsOK, NoticesGrow
    <3>. QED  BY <3>1, NoticeConstants, NoDispatch DEF Telling!NoticeRow
  <2>. QED  BY <1>2, <2>1, <2>2, <2>3 DEF NoticesInv, NoticesGrow, DispatchHolds, DispatchRow
<1>. QED  BY <1>1, <1>2

LEMMA PreferenceOK ==
    ASSUME NoticesInv, NEW phone \in Phones, NEW channel \in {"APP", "SMS", "WHATSAPP"},
           Telling!SetPreference(phone, channel)
    PROVE  NoticesInv'
<1>1. nOptedOut' \subseteq [phone: Known, channel: {"APP", "SMS", "WHATSAPP"}]
  BY DEF Telling!SetPreference, NoticesInv, NoticeRowsOK
<1>2. UNCHANGED <<nProfile, nNotice, nCentre, nFanOut, nDispatch, nSent, nLost>>
  BY DEF Telling!SetPreference
<1>3. NoticeRowsOK' /\ NoticesGrow
  BY <1>1, <1>2 DEF NoticesInv, NoticeRowsOK, NoticesGrow, Telling!IsMandatory
<1>4. \A f \in Readers : FanOutHolds(f)'
  BY <1>2, <1>3, FanOutsStillHold
<1>5. \A d \in Senders : DispatchHolds(d)'
  BY <1>2, <1>3, DispatchesStillHold
<1>. QED  BY <1>2, <1>3, <1>4, <1>5
     DEF NoticesInv, ToldBySms, Telling!InCentre, Shown, Adds, Answering, NoticeWritten, Sms

LEMMA BeginOK ==
    ASSUME NoticesInv, NEW f \in Readers, NEW trigger \in Triggers, NEW trip \in Trips,
           NEW reach \in Reaches,
           Telling!Begin(f, trigger, trip[1], trip[2], reach)
    PROVE  NoticesInv'
<1>1. PICK sender, receiver : sender = trip[1] /\ receiver = trip[2]
  OBVIOUS
<1>2. sender \in Phones /\ receiver \in Phones
  BY <1>1, NoticeConstants, NoDispatch
<1>3. PICK all : all = Telling!Deliverable(sender, "SENDER", reach) \cup Telling!Deliverable(receiver, "RECEIVER", reach)
  OBVIOUS
<1>4. all \subseteq Telling!Message /\ \A m \in all : m.audience = "RECEIVER" =>
         m.phone = receiver
  BY <1>2, <1>3 DEF Telling!Deliverable, Telling!Message
<1>5. [phone |-> receiver, audience |-> "RECEIVER", channel |-> "SMS"] \in all
  BY <1>3 DEF Telling!Deliverable
<1>6. PICK fresh : fresh = {k \in {[fact |-> trigger, to |-> m] : m \in all} : nNotice[k] = None}
  OBVIOUS
<1>7. fresh \subseteq Telling!Key
  BY <1>4, <1>6 DEF Telling!Key
<1>8. PICK planned : planned = {k \in fresh : ~Telling!IsSuppressed(k.to)}
  OBVIOUS
<1>9. PICK muted : muted = {k \in fresh : Telling!IsSuppressed(k.to)}
  OBVIOUS
<1>10. PICK people : people = [phone \in {sender, receiver} |-> nProfile[phone]]
  OBVIOUS
<1>11. PICK row : row = [people |-> people, twice |-> sender = receiver, planned |-> planned, muted |-> muted]
  OBVIOUS
<1>12. nFanOut' = [nFanOut EXCEPT ![f] = row] /\ UNCHANGED <<Telling!tables, nDispatch, nSent, nLost>>
  BY <1>1, <1>3, <1>6, <1>8, <1>9, <1>10, <1>11 DEF Telling!Begin
<1>13. nFanOut'[f] = row /\ DOMAIN nFanOut' = Readers /\ \A g \in Readers : g # f =>
           nFanOut'[g] = nFanOut[g]
  BY <1>12 DEF NoticesInv, NoticeRowsOK
<1>14. NoticeRowsOK' /\ NoticesGrow
  BY <1>12, <1>13 DEF NoticesInv, NoticeRowsOK, NoticesGrow, Telling!tables, Telling!IsMandatory
<1>15. ASSUME NEW k \in fresh, k.to.audience = "RECEIVER"
       PROVE  Sms(k) \in planned \/ nNotice[Sms(k)] # None
  <2>1. k.fact = trigger /\ k.to \in all /\ k.to.phone = receiver
    BY <1>4, <1>6, <1>15
  <2>2. PICK s : s = [fact |-> trigger, to |-> [phone |-> receiver, audience |-> "RECEIVER", channel |-> "SMS"]]
    OBVIOUS
  <2>3. s \in Telling!Key /\ s \in {[fact |-> trigger, to |-> m] : m \in all}
    BY <1>4, <1>5, <2>2 DEF Telling!Key
  <2>4. s = Sms(k)
    BY <1>7, <1>15, <2>1, <2>2, <2>3, SmsIs
  <2>5. ~Telling!IsSuppressed(s.to)
    BY <2>2 DEF Telling!IsSuppressed, Telling!IsMandatory
  <2>. QED  BY <1>6, <1>8, <2>3, <2>4, <2>5
<1>16. FanOutHolds(f)'
  <2>1. /\ row.planned = planned /\ row.muted = muted /\ DOMAIN row.people \subseteq Phones
    BY <1>2, <1>10, <1>11
  <2>2. \A k \in muted : ~Telling!IsMandatory(k.to)
    BY <1>9 DEF Telling!IsSuppressed
  <2>3. nNotice' = nNotice
    BY <1>12 DEF Telling!tables
  <2>. QED  BY <1>7, <1>8, <1>9, <1>13, <1>15, <2>1, <2>2, <2>3 DEF FanOutHolds, Telling!IsMandatory, Sms
<1>17. \A g \in Readers : FanOutHolds(g)'
  BY <1>13, <1>14, <1>16, FanOutsStillHold
<1>18. \A d \in Senders : DispatchHolds(d)'
  BY <1>12, <1>14, DispatchesStillHold
<1>. QED  BY <1>12, <1>14, <1>17, <1>18
     DEF NoticesInv, ToldBySms, Telling!InCentre, Shown, Adds, Answering, NoticeWritten,
          Telling!tables, Sms

LEMMA NoticeCommitOK ==
    ASSUME NoticesInv, NEW f \in Readers, Telling!Commit(f)
    PROVE  NoticesInv'
<1>1. PICK planned : planned = nFanOut[f].planned
  OBVIOUS
<1>2. PICK muted : muted = nFanOut[f].muted
  OBVIOUS
<1>3. /\ planned \subseteq Telling!Key /\ muted \subseteq Telling!Key /\ planned \cap muted = {}
      /\ \A k \in muted : ~Telling!IsMandatory(k.to)
      /\ \A k \in planned \cup muted : nNotice[k] = None
      /\ \A k \in planned \cup muted : k.to.audience = "RECEIVER" =>
             Sms(k) \in planned \/ nNotice[Sms(k)] # None
  BY <1>1, <1>2 DEF Telling!Commit, Telling!CanCommit, NoticesInv, FanOutHolds
<1>4. /\ nNotice' = [k \in Telling!Key |->
            IF k \in planned THEN [status |-> "PENDING", version |-> 1]
            ELSE IF k \in muted THEN [status |-> "SUPPRESSED", version |-> 1]
            ELSE nNotice[k]]
      /\ nCentre' = nCentre \cup Telling!InCentre(planned)
      /\ nFanOut' = [nFanOut EXCEPT ![f] = None]
      /\ UNCHANGED <<nOptedOut, nDispatch, nSent, nLost>>
  BY <1>1, <1>2 DEF Telling!Commit
<1>5. nProfile' \in [Phones -> 0 .. MaxUpdates]
  <2>1. PICK saved : saved = IF nFanOut[f].twice THEN 2 ELSE 1
    OBVIOUS
  <2>2. /\ \A phone \in DOMAIN nFanOut[f].people : nProfile[phone] + saved <= MaxUpdates
        /\ nProfile' = [phone \in Phones |->
                 IF phone \in DOMAIN nFanOut[f].people THEN nProfile[phone] + saved
                                                      ELSE nProfile[phone]]
    BY <2>1 DEF Telling!Commit
  <2>3. saved \in Nat
    BY <2>1
  <2>. QED  BY <2>2, <2>3, NoticeConstants, NoDispatch DEF NoticesInv, NoticeRowsOK
<1>6. PICK pending : pending = [status |-> "PENDING", version |-> 1]
  OBVIOUS
<1>7. PICK hushed : hushed = [status |-> "SUPPRESSED", version |-> 1]
  OBVIOUS
<1>8. /\ pending \in Telling!NoticeRow /\ pending.status = "PENDING" /\ pending.version = 1
      /\ hushed \in Telling!NoticeRow /\ hushed.status = "SUPPRESSED" /\ hushed.version = 1
  BY <1>6, <1>7, NoticeConstants, NoDispatch DEF Telling!NoticeRow
<1>9. /\ \A k \in Telling!Key : nNotice'[k] = IF k \in planned THEN pending ELSE IF k \in muted THEN hushed ELSE nNotice[k]
      /\ pending # None /\ hushed # None
  BY <1>4, <1>6, <1>7, <1>8, NoticeConstants, NoDispatch
<1>10. NoticeRowsOK'
  <2>1. nNotice' \in [Telling!Key -> Telling!NoticeRow \cup {None}]
    <3>1. \A k \in Telling!Key : nNotice'[k] \in Telling!NoticeRow \cup {None}
      BY <1>8, <1>9 DEF NoticesInv, NoticeRowsOK
    <3>. QED  BY <1>4, <3>1
  <2>2. nCentre' \subseteq Telling!Key
    BY <1>3, <1>4 DEF Telling!InCentre, NoticesInv, NoticeRowsOK
  <2>3. \A k \in Telling!Key : nNotice'[k] # None /\ nNotice'[k].status # "DELIVERED" =>
            nNotice'[k].version <= MaxSends + 1
    BY <1>8, <1>9, NoticeConstants, NoDispatch DEF NoticesInv, NoticeRowsOK
  <2>4. \A k \in Telling!Key : nNotice'[k] # None /\ nNotice'[k].status = "SUPPRESSED" =>
            ~Telling!IsMandatory(k.to)
    BY <1>3, <1>8, <1>9 DEF NoticesInv, NoticeRowsOK
  <2>. QED  BY <1>4, <1>5, <2>1, <2>2, <2>3, <2>4 DEF NoticesInv, NoticeRowsOK, Telling!IsMandatory
<1>11. NoticesGrow
  BY <1>3, <1>9 DEF NoticesGrow
<1>12. \A g \in Readers : FanOutHolds(g)'
  <2>1. nFanOut'[f] = None /\ \A g \in Readers : g # f => nFanOut'[g] = nFanOut[g]
    BY <1>4 DEF NoticesInv, NoticeRowsOK
  <2>2. FanOutHolds(f)'
    BY <2>1 DEF FanOutHolds
  <2>. QED  BY <1>11, <2>1, <2>2, FanOutsStillHold
<1>13. \A d \in Senders : DispatchHolds(d)'
  BY <1>4, <1>10, <1>11, DispatchesStillHold
<1>14. ToldBySms'
  <2>1. ASSUME NEW k \in Telling!Key, nNotice'[k] # None, k.to.audience = "RECEIVER"
        PROVE nNotice'[Sms(k)] # None
    <3>1. CASE k \in planned \cup muted
      BY <1>3, <1>9, <1>11, <2>1, <3>1, SmsIs DEF NoticesGrow
    <3>2. CASE k \notin planned \cup muted
      BY <1>9, <1>11, <2>1, <3>2, SmsIs DEF NoticesInv, ToldBySms, NoticesGrow
    <3>. QED  BY <3>1, <3>2
  <2>. QED  BY <2>1 DEF ToldBySms, Sms
<1>15. nCentre' = Telling!InCentre(Shown)'
  <2>1. Shown' = Shown \cup planned
    BY <1>3, <1>8, <1>9 DEF Shown
  <2>. QED  BY <1>4, <2>1 DEF NoticesInv, Telling!InCentre
<1>16. ASSUME NEW k \in Telling!Key PROVE Adds(k)'
  <2>1. Answering(k)' = Answering(k)
    BY <1>4 DEF Answering
  <2>2. NoticeWritten(k)' = NoticeWritten(k)
    BY <1>3, <1>8, <1>9 DEF NoticeWritten
  <2>. QED  BY <1>4, <2>1, <2>2 DEF NoticesInv, Adds
<1>. QED  BY <1>10, <1>12, <1>13, <1>14, <1>15, <1>16 DEF NoticesInv

\* A step on messages alone: one row moves to a new version, and keeps
\* whether it was suppressed.
LEMMA OneMovesOK ==
    ASSUME NoticesInv, NEW k \in Telling!Key, NEW row \in Telling!NoticeRow, nNotice[k] # None,
           nNotice' = [nNotice EXCEPT ![k] = row], row.version > nNotice[k].version,
           row.status # "DELIVERED" => row.version <= MaxSends + 1,
           row.status # "SUPPRESSED", nNotice[k].status # "SUPPRESSED",
           UNCHANGED <<nProfile, nOptedOut, nCentre, nFanOut, nSent, nLost>>, DOMAIN nDispatch' = Senders,
           \A d \in Senders : nDispatch'[d] = nDispatch[d] \/ nDispatch'[d] = None
    PROVE  /\ NoticeRowsOK' /\ \A f \in Readers : FanOutHolds(f)'
           /\ \A d \in Senders : DispatchHolds(d)'
           /\ ToldBySms' /\ nCentre' = Telling!InCentre(Shown)'
<1>1. nNotice'[k] = row /\ row # None /\ \A j \in Telling!Key : j # k => nNotice'[j] = nNotice[j]
  BY NoticeConstants, NoDispatch DEF NoticesInv, NoticeRowsOK
<1>2. NoticeRowsOK'
  BY <1>1 DEF NoticesInv, NoticeRowsOK, Telling!IsMandatory
<1>3. NoticesGrow
  BY <1>1 DEF NoticesGrow
<1>4. \A f \in Readers : FanOutHolds(f)'
  BY <1>3, FanOutsStillHold
<1>5. \A d \in Senders : DispatchHolds(d)'
  <2>1. ASSUME NEW d \in Senders, nDispatch'[d] = None PROVE DispatchHolds(d)'
    BY <2>1 DEF DispatchHolds
  <2>. QED  BY <1>2, <1>3, <2>1, DispatchesStillHold
<1>6. ToldBySms'
  BY <1>1, <1>3, SmsIs DEF NoticesInv, ToldBySms, NoticesGrow, Sms
<1>7. Shown' = Shown
  BY <1>1 DEF Shown
<1>. QED  BY <1>2, <1>4, <1>5, <1>6, <1>7 DEF NoticesInv, Telling!InCentre

LEMMA MarkDeliveredOK ==
    ASSUME NoticesInv, NEW k \in Telling!Key, Telling!MarkDelivered(k) PROVE NoticesInv'
<1>1. nNotice[k] \in Telling!NoticeRow /\ nNotice[k].status = "SENT" /\ nNotice[k].version <= MaxSends + 1
  BY DEF Telling!MarkDelivered, NoticesInv, NoticeRowsOK
<1>2. nNotice[k].version \in Nat /\ nNotice[k].version >= 1
  BY <1>1, NoticeConstants, NoDispatch DEF Telling!NoticeRow
<1>3. PICK row : row = [status |-> "DELIVERED", version |-> nNotice[k].version + 1]
  OBVIOUS
<1>4. row \in Telling!NoticeRow /\ row.version > nNotice[k].version /\ row.status = "DELIVERED"
  BY <1>1, <1>2, <1>3, NoticeConstants, NoDispatch DEF Telling!NoticeRow
<1>5. nNotice' = [nNotice EXCEPT ![k] = row]
  <2>1. nNotice'[k].status = "DELIVERED" /\ nNotice'[k].version = nNotice[k].version + 1 /\ nNotice'[k] \in [status : STRING, version : Nat]
    BY <1>1, <1>2 DEF Telling!MarkDelivered, NoticesInv, NoticeRowsOK, Telling!NoticeRow
  <2>2. nNotice'[k] = row
    BY <1>3, <2>1
  <2>. QED  BY <2>2 DEF Telling!MarkDelivered, NoticesInv, NoticeRowsOK
<1>6. UNCHANGED <<nProfile, nOptedOut, nCentre, nFanOut, nDispatch, nSent, nLost>>
  BY DEF Telling!MarkDelivered
<1>7. ASSUME NEW j \in Telling!Key PROVE Adds(j)'
  <2>1. Answering(j)' = Answering(j)
    BY <1>6 DEF Answering
  <2>2. NoticeWritten(j)' = NoticeWritten(j)
    BY <1>1, <1>4, <1>5, NoticeConstants, NoDispatch DEF NoticeWritten, NoticesInv, NoticeRowsOK
  <2>. QED  BY <1>6, <2>1, <2>2 DEF NoticesInv, Adds
<1>8. DOMAIN nDispatch' = Senders
  BY <1>6 DEF NoticesInv, NoticeRowsOK
<1>9. nNotice[k] # None
  BY DEF Telling!MarkDelivered
<1>10. /\ NoticeRowsOK' /\ \A f \in Readers : FanOutHolds(f)'
       /\ \A d \in Senders : DispatchHolds(d)'
       /\ ToldBySms' /\ nCentre' = Telling!InCentre(Shown)'
  BY <1>1, <1>4, <1>5, <1>6, <1>8, <1>9, OneMovesOK
<1>. QED  BY <1>7, <1>10 DEF NoticesInv

LEMMA RollBackOK ==
    ASSUME NoticesInv, NEW f \in Readers, Telling!RollBack(f) PROVE NoticesInv'
<1>1. nFanOut'[f] = None /\ DOMAIN nFanOut' = Readers /\ \A g \in Readers : g # f =>
          nFanOut'[g] = nFanOut[g]
  BY DEF Telling!RollBack, NoticesInv, NoticeRowsOK
<1>2. NoticeRowsOK' /\ NoticesGrow
  BY <1>1
       DEF Telling!RollBack, NoticesInv, NoticeRowsOK, NoticesGrow, Telling!tables,
           Telling!IsMandatory
<1>3. FanOutHolds(f)'
  BY <1>1 DEF FanOutHolds
<1>4. \A g \in Readers : FanOutHolds(g)'
  BY <1>1, <1>2, <1>3, FanOutsStillHold
<1>5. \A d \in Senders : DispatchHolds(d)'
  BY <1>2, DispatchesStillHold DEF Telling!RollBack
<1>. QED  BY <1>2, <1>4, <1>5
     DEF Telling!RollBack, NoticesInv, ToldBySms, Telling!InCentre, Shown, Adds, Answering,
          NoticeWritten, Telling!tables, Sms

\* Steps of one dispatch that write nothing.
LEMMA DispatchOK ==
    ASSUME NoticesInv, NEW d \in Senders, UNCHANGED <<Telling!tables, nFanOut>>,
           DOMAIN nDispatch' = Senders, \A e \in Senders : e # d => nDispatch'[e] = nDispatch[e],
           nSent' \in [Telling!Key -> 0 .. MaxSends], nLost' \in [Telling!Key -> Nat], DispatchHolds(d)',
           \A k \in Telling!Key : Adds(k)'
    PROVE  NoticesInv'
<1>1. NoticeRowsOK' /\ NoticesGrow
  BY DEF NoticesInv, NoticeRowsOK, NoticesGrow, Telling!tables, Telling!IsMandatory
<1>2. \A f \in Readers : FanOutHolds(f)'
  BY <1>1, FanOutsStillHold
<1>3. \A e \in Senders : DispatchHolds(e)'
  BY <1>1, DispatchesStillHold
<1>. QED  BY <1>1, <1>2, <1>3 DEF NoticesInv, ToldBySms, Telling!InCentre, Shown, Telling!tables, Sms

LEMMA LoadOK ==
    ASSUME NoticesInv, NEW d \in Senders, NEW k \in Telling!Key, Telling!Load(d, k) PROVE NoticesInv'
<1>1. PICK row : row = [key |-> k, version |-> nNotice[k].version, answer |-> None]
  OBVIOUS
<1>2. nDispatch' = [nDispatch EXCEPT ![d] = row] /\ UNCHANGED <<Telling!tables, nFanOut, nSent, nLost>>
      /\ nDispatch[d] = None
  BY <1>1 DEF Telling!Load
<1>3. nDispatch'[d] = row /\ DOMAIN nDispatch' = Senders /\ \A e \in Senders : e # d =>
          nDispatch'[e] = nDispatch[e]
  BY <1>2 DEF NoticesInv, NoticeRowsOK
<1>4. nNotice[k] \in Telling!NoticeRow /\ nNotice[k].status \in {"PENDING", "FAILED"} /\ nNotice[k] # None
  BY DEF Telling!Load, NoticesInv, NoticeRowsOK
<1>5. nNotice[k].version \in Nat
  BY <1>4, NoticeConstants, NoDispatch DEF Telling!NoticeRow
<1>6. row \in DispatchRow /\ row.key = k /\ row.version = nNotice[k].version /\ row.answer = None
  BY <1>1, <1>5 DEF DispatchRow
<1>7. DispatchHolds(d)'
  <2>1. nNotice' = nNotice
    BY <1>2 DEF Telling!tables
  <2>. QED  BY <1>3, <1>4, <1>5, <1>6, <2>1 DEF DispatchHolds, DispatchRow
<1>8. ASSUME NEW j \in Telling!Key PROVE Adds(j)'
  <2>1. Answering(j)' = Answering(j)
    BY <1>2, <1>3, <1>6, NoticeConstants, NoDispatch DEF Answering
  <2>2. NoticeWritten(j)' = NoticeWritten(j)
    BY <1>2 DEF NoticeWritten, Telling!tables
  <2>. QED  BY <1>2, <2>1, <2>2 DEF NoticesInv, Adds
<1>. QED  BY <1>2, <1>3, <1>7, <1>8, DispatchOK DEF NoticesInv, NoticeRowsOK

LEMMA SendOK ==
    ASSUME NoticesInv, NEW d \in Senders, NEW accepted \in BOOLEAN, Telling!Send(d, accepted)
    PROVE NoticesInv'
<1>1. nDispatch[d] # None /\ nDispatch[d] \in DispatchRow /\ nDispatch[d].answer = None
  BY DEF Telling!Send, NoticesInv, DispatchHolds
<1>2. PICK k \in Telling!Key : k = nDispatch[d].key
  BY <1>1 DEF DispatchRow
<1>3. PICK answer : answer = IF accepted THEN "SENT" ELSE "FAILED"
  OBVIOUS
<1>4. nDispatch' = [nDispatch EXCEPT ![d].answer = answer] /\ UNCHANGED <<Telling!tables, nFanOut, nLost>>
  BY <1>3 DEF Telling!Send
<1>5. /\ nDispatch'[d] \in DispatchRow /\ nDispatch'[d].answer = answer /\ nDispatch'[d].key = k
      /\ nDispatch'[d].version = nDispatch[d].version
      /\ DOMAIN nDispatch' = Senders /\ \A e \in Senders : e # d => nDispatch'[e] = nDispatch[e]
  BY <1>1, <1>2, <1>3, <1>4 DEF DispatchRow, NoticesInv, NoticeRowsOK
<1>6. /\ nSent' = IF accepted THEN [nSent EXCEPT ![k] = @ + 1] ELSE nSent
      /\ nSent[k] < MaxSends
  BY <1>2 DEF Telling!Send
<1>7. nSent' \in [Telling!Key -> 0 .. MaxSends] /\ nLost' \in [Telling!Key -> Nat]
  BY <1>4, <1>6, NoticeConstants, NoDispatch DEF NoticesInv, NoticeRowsOK
<1>8. DispatchHolds(d)'
  <2>1. nNotice' = nNotice
    BY <1>4 DEF Telling!tables
  <2>. QED  BY <1>1, <1>2, <1>5, <2>1 DEF NoticesInv, DispatchHolds
<1>9. ASSUME NEW j \in Telling!Key PROVE Adds(j)'
  <2>1. NoticeWritten(j)' = NoticeWritten(j) /\ nLost'[j] = nLost[j]
    BY <1>4 DEF NoticeWritten, Telling!tables
  <2>2. CASE ~accepted \/ j # k
    <3>1. Answering(j)' = Answering(j)
      BY <1>1, <1>2, <1>3, <1>5, <2>2, NoticeConstants, NoDispatch DEF Answering
    <3>2. nSent'[j] = nSent[j]
      BY <1>6, <2>2 DEF NoticesInv, NoticeRowsOK
    <3>. QED  BY <2>1, <3>1, <3>2 DEF NoticesInv, Adds
  <2>3. CASE accepted /\ j = k
    <3>1. Answering(j)' = Answering(j) \cup {d} /\ d \notin Answering(j)
      BY <1>1, <1>2, <1>3, <1>5, <2>3, NoticeConstants, NoDispatch DEF Answering, DispatchRow
    <3>2. Cardinality(Answering(j) \cup {d}) = Cardinality(Answering(j)) + 1
      BY <3>1, AnsweringIs, FS_AddElement
    <3>3. nSent'[j] = nSent[j] + 1 /\ nSent[j] \in Nat /\ nLost[j] \in Nat
      BY <1>6, <2>3 DEF NoticesInv, NoticeRowsOK
    <3>4. PICK n \in Nat : n = Cardinality(Answering(j))
      BY AnsweringIs
    <3>5. PICK w \in Nat : w = NoticeWritten(j)
      BY DEF NoticeWritten
    <3>6. nSent[j] = nLost[j] + n + w
      BY <3>4, <3>5 DEF NoticesInv, Adds
    <3>7. Cardinality(Answering(j)') = n + 1 /\ NoticeWritten(j)' = w
      BY <2>1, <3>1, <3>2, <3>4, <3>5
    <3>8. nSent'[j] = nLost'[j] + (n + 1) + w
      BY <2>1, <3>3, <3>6
    <3>. QED  BY <3>7, <3>8 DEF Adds
  <2>. QED  BY <2>2, <2>3
<1>. QED  BY <1>4, <1>5, <1>7, <1>8, <1>9, DispatchOK

\* A dispatch that ends takes itself out of those that answer.
LEMMA OutOf ==
    ASSUME NoticesInv, NEW d \in Senders, nDispatch[d] # None,
           nDispatch' = [nDispatch EXCEPT ![d] = None],
           NEW j \in Telling!Key
    PROVE  /\ nDispatch'[d] = None /\ DOMAIN nDispatch' = Senders
           /\ \A e \in Senders : e # d => nDispatch'[e] = nDispatch[e]
           /\ Answering(j)' = Answering(j) \ {d}
           /\ d \notin Answering(j) => Answering(j)' = Answering(j)
           /\ d \in Answering(j) => Cardinality(Answering(j)) = Cardinality(Answering(j)') + 1
           /\ Cardinality(Answering(j)') \in Nat
<1>1. /\ nDispatch'[d] = None /\ DOMAIN nDispatch' = Senders
      /\ \A e \in Senders : e # d => nDispatch'[e] = nDispatch[e]
  BY DEF NoticesInv, NoticeRowsOK
<1>2. Answering(j)' = Answering(j) \ {d}
  BY <1>1 DEF Answering
<1>3. d \notin Answering(j) => Answering(j)' = Answering(j)
  BY <1>2
<1>4. PICK S : S = Answering(j)'
  OBVIOUS
<1>5. IsFiniteSet(S) /\ Cardinality(S) \in Nat
  BY <1>2, <1>4, AnsweringIs, FS_RemoveElement, FS_CardinalityType, FS_Subset
<1>6. d \in Answering(j) => Cardinality(Answering(j)) = Cardinality(S) + 1
  <2>1. ASSUME d \in Answering(j) PROVE Answering(j) = S \cup {d} /\ d \notin S
    BY <1>2, <1>4, <2>1
  <2>. QED  BY <1>5, <2>1, FS_AddElement
<1>. QED  BY <1>1, <1>2, <1>3, <1>4, <1>5, <1>6

LEMMA AbandonOK ==
    ASSUME NoticesInv, NEW d \in Senders, Telling!Abandon(d) PROVE NoticesInv'
<1>1. nDispatch[d] # None /\ nDispatch[d] \in DispatchRow
  BY DEF Telling!Abandon, NoticesInv, DispatchHolds
<1>2. PICK k \in Telling!Key : k = nDispatch[d].key
  BY <1>1 DEF DispatchRow
<1>3. /\ nLost' = IF nDispatch[d].answer = "SENT" THEN [nLost EXCEPT ![k] = @ + 1] ELSE nLost
      /\ nDispatch' = [nDispatch EXCEPT ![d] = None]
      /\ UNCHANGED <<Telling!tables, nFanOut, nSent>>
  BY <1>2 DEF Telling!Abandon
<1>4. nLost' \in [Telling!Key -> Nat] /\ nSent' \in [Telling!Key -> 0 .. MaxSends]
  BY <1>3 DEF NoticesInv, NoticeRowsOK
<1>5. ASSUME NEW j \in Telling!Key PROVE Adds(j)'
  <2>1. NoticeWritten(j)' = NoticeWritten(j) /\ nSent'[j] = nSent[j]
    BY <1>3 DEF NoticeWritten, Telling!tables
  <2>2. CASE d \notin Answering(j)
    <3>1. nLost'[j] = nLost[j]
      BY <1>1, <1>2, <1>3, <2>2 DEF Answering, NoticesInv, NoticeRowsOK
    <3>2. Answering(j)' = Answering(j)
      BY <1>1, <1>3, <2>2, OutOf
    <3>. QED  BY <2>1, <3>1, <3>2 DEF NoticesInv, Adds
  <2>3. CASE d \in Answering(j)
    <3>1. nLost'[j] = nLost[j] + 1 /\ nLost[j] \in Nat
      BY <1>2, <1>3, <2>3 DEF Answering, NoticesInv, NoticeRowsOK
    <3>2. PICK n \in Nat : n = Cardinality(Answering(j)')
      BY <1>1, <1>3, OutOf
    <3>3. Cardinality(Answering(j)) = n + 1
      BY <1>1, <1>3, <2>3, <3>2, OutOf
    <3>4. PICK w \in Nat : w = NoticeWritten(j)
      BY DEF NoticeWritten
    <3>5. nSent[j] = nLost[j] + (n + 1) + w
      BY <3>3, <3>4 DEF NoticesInv, Adds
    <3>6. nSent'[j] = nLost'[j] + n + w
      BY <2>1, <3>1, <3>5
    <3>. QED  BY <2>1, <3>2, <3>4, <3>6 DEF Adds
  <2>. QED  BY <2>2, <2>3
<1>6. nDispatch'[d] = None /\ DOMAIN nDispatch' = Senders /\ \A e \in Senders : e # d =>
          nDispatch'[e] = nDispatch[e]
  BY <1>3 DEF NoticesInv, NoticeRowsOK
<1>7. DispatchHolds(d)'
  BY <1>6 DEF DispatchHolds
<1>. QED  BY <1>3, <1>4, <1>5, <1>6, <1>7, DispatchOK

LEMMA RecordOK ==
    ASSUME NoticesInv, NEW d \in Senders, Telling!Record(d) PROVE NoticesInv'
<1>1. nDispatch[d] # None /\ nDispatch[d] \in DispatchRow /\ nDispatch[d].answer \in {"SENT", "FAILED"}
  BY DEF Telling!Record, NoticesInv, DispatchHolds, DispatchRow
<1>2. PICK k \in Telling!Key : k = nDispatch[d].key
  BY <1>1 DEF DispatchRow
<1>3. PICK answer \in {"SENT", "FAILED"} : answer = nDispatch[d].answer
  BY <1>1
<1>4. /\ nNotice[k] # None /\ nNotice[k].version = nDispatch[d].version /\ nNotice[k].version <= MaxSends
      /\ nNotice[k].status \in {"PENDING", "FAILED"} /\ nNotice[k] \in Telling!NoticeRow
  BY <1>1, <1>2 DEF Telling!Record, Telling!SaveOutcome, NoticesInv, DispatchHolds, NoticeRowsOK
<1>5. nNotice[k].version \in Nat
  BY <1>4, NoticeConstants, NoDispatch DEF Telling!NoticeRow
<1>6. PICK row : row = [status |-> answer, version |-> nNotice[k].version + 1]
  OBVIOUS
<1>7. /\ row \in Telling!NoticeRow /\ row.version > nNotice[k].version /\ row.version <= MaxSends + 1
      /\ row.status = answer
  BY <1>4, <1>5, <1>6, NoticeConstants, NoDispatch DEF Telling!NoticeRow
<1>8. /\ nNotice' = [nNotice EXCEPT ![k] = row] /\ nDispatch' = [nDispatch EXCEPT ![d] = None]
      /\ UNCHANGED <<nProfile, nOptedOut, nCentre, nFanOut, nSent, nLost>>
  BY <1>2, <1>3, <1>6 DEF Telling!Record, Telling!SaveOutcome
<1>9. nDispatch'[d] = None /\ DOMAIN nDispatch' = Senders /\ \A e \in Senders : e # d =>
          nDispatch'[e] = nDispatch[e]
  BY <1>8 DEF NoticesInv, NoticeRowsOK
<1>10. row.status # "SUPPRESSED" /\ nNotice[k].status # "SUPPRESSED"
  BY <1>4, <1>7
<1>11. /\ NoticeRowsOK' /\ \A f \in Readers : FanOutHolds(f)'
       /\ \A e \in Senders : DispatchHolds(e)'
       /\ ToldBySms' /\ nCentre' = Telling!InCentre(Shown)'
  BY <1>4, <1>7, <1>8, <1>9, <1>10, OneMovesOK
<1>12. /\ nNotice'[k] = row /\ row # None /\ \A j \in Telling!Key : j # k => nNotice'[j] = nNotice[j]
  BY <1>7, <1>8, NoticeConstants, NoDispatch DEF NoticesInv, NoticeRowsOK
<1>13. ASSUME NEW j \in Telling!Key PROVE Adds(j)'
  <2>1. CASE d \notin Answering(j)
    <3>1. Answering(j)' = Answering(j)
      BY <1>1, <1>8, <2>1, OutOf
    <3>2. NoticeWritten(j)' = NoticeWritten(j)
      BY <1>1, <1>2, <1>3, <1>4, <1>7, <1>12, <2>1 DEF Answering, NoticeWritten
    <3>. QED  BY <1>8, <3>1, <3>2 DEF NoticesInv, Adds
  <2>2. CASE d \in Answering(j)
    <3>1. j = k /\ answer = "SENT"
      BY <1>2, <1>3, <2>2 DEF Answering
    <3>2. PICK n \in Nat : n = Cardinality(Answering(j)')
      BY <1>1, <1>8, OutOf
    <3>3. Cardinality(Answering(j)) = n + 1
      BY <1>1, <1>8, <2>2, <3>2, OutOf
    <3>4. NoticeWritten(j) = 0
      BY <1>4, <3>1 DEF NoticeWritten
    <3>5. NoticeWritten(j)' = 1
      BY <1>7, <1>12, <3>1 DEF NoticeWritten
    <3>6. nSent[j] = nLost[j] + (n + 1) + 0 /\ nLost[j] \in Nat
      BY <3>3, <3>4 DEF NoticesInv, Adds, NoticeRowsOK
    <3>7. nSent'[j] = nLost'[j] + n + 1
      BY <1>8, <3>6
    <3>. QED  BY <3>2, <3>5, <3>7 DEF Adds
  <2>. QED  BY <2>1, <2>2
<1>. QED  BY <1>11, <1>13 DEF NoticesInv

LEMMA NoticesStep == NoticesInv /\ [Telling!Next]_(Telling!vars) => NoticesInv'
<1> SUFFICES ASSUME NoticesInv, [Telling!Next]_(Telling!vars) PROVE NoticesInv'
  OBVIOUS
<1>1. CASE UNCHANGED Telling!vars
  BY <1>1
       DEF Telling!vars, Telling!tables, NoticesInv, NoticeRowsOK, FanOutHolds, DispatchHolds,
           DispatchRow, ToldBySms,
     Telling!InCentre, Shown, Adds, Answering, NoticeWritten, Telling!IsMandatory, Sms
<1>. QED
  BY <1>1, PreferenceOK, BeginOK, NoticeCommitOK, RollBackOK, MarkDeliveredOK, LoadOK, SendOK,
       RecordOK, AbandonOK
     DEF Telling!Next

-----------------------------------------------------------------------------
(* DurableInbox. LedgerInv: what a delivery found in the inbox, which may   *)
(* be out of date, bounds what its effects can have been.                   *)

Found == [found: Ledger!InboxRow \cup {None}, answer: {None, "ACK", "NAK"}]

LEMMA NoFound == None \notin Found
  BY LedgerConstants DEF Found

LedgerRowsOK ==
    /\ lRecord \in Ledger!InboxRow \cup {None}
    /\ lFirst \in Nat /\ lSecond \in Nat /\ lFailures \in Nat
    /\ lFirst <= MaxRuns /\ lSecond <= MaxRuns /\ lFailures <= MaxRuns
    /\ lDelivery \in [Deliveries -> Found \cup {None}]
    /\ lAcked \in BOOLEAN

\* What a row that is, or was, in storage says of the effects.
LedgerRowTells(row) ==
    row # None => /\ lRecord # None
                  /\ row.attempts <= lFirst + lFailures
                  /\ row.status = "FAILED" => lFailures >= 1
                  /\ row.status = "PROCESSED" => lSecond >= 1

LedgerInv ==
    /\ LedgerRowsOK /\ Ledger!EffectsTellTheRecord /\ LedgerRowTells(lRecord)
    /\ \A w \in Deliveries : lDelivery[w] # None =>
          /\ LedgerRowTells(lDelivery[w].found)
          /\ lDelivery[w].answer = "ACK" => lRecord # None /\ lSecond >= 1
    /\ lAcked => lRecord # None /\ lSecond >= 1

LEMMA LedgerTells == LedgerInv => Ledger!TypeOK /\ Ledger!EffectsTellTheRecord
<1> SUFFICES ASSUME LedgerInv PROVE Ledger!TypeOK /\ Ledger!EffectsTellTheRecord
  OBVIOUS
<1>1. /\ lFirst \in 0 .. MaxRuns /\ lSecond \in 0 .. MaxRuns /\ lFailures \in 0 .. MaxRuns
  BY LedgerConstants, NoFound DEF LedgerInv, LedgerRowsOK
<1>. QED  BY <1>1 DEF LedgerInv, LedgerRowsOK, Found, Ledger!TypeOK

LEMMA LedgerInit == Ledger!Init => LedgerInv
<1> SUFFICES ASSUME Ledger!Init PROVE LedgerInv
  OBVIOUS
<1>1. LedgerRowsOK
  <2>1. lDelivery \in [Deliveries -> Found \cup {None}] /\ lRecord \in Ledger!InboxRow \cup {None}
    BY DEF Ledger!Init
  <2>2. /\ lFirst \in Nat /\ lSecond \in Nat /\ lFailures \in Nat
        /\ lFirst <= MaxRuns /\ lSecond <= MaxRuns /\ lFailures <= MaxRuns
    BY LedgerConstants, NoFound DEF Ledger!Init
  <2>3. lAcked \in BOOLEAN
    BY DEF Ledger!Init
  <2>. QED  BY <2>1, <2>2, <2>3 DEF LedgerRowsOK
<1>2. Ledger!EffectsTellTheRecord
  BY DEF Ledger!Init, Ledger!EffectsTellTheRecord
<1>. QED  BY <1>1, <1>2 DEF Ledger!Init, LedgerInv, LedgerRowTells

\* The steps that commit nothing.
LEMMA LedgerStays ==
    ASSUME LedgerInv, NEW w \in Deliveries, UNCHANGED <<lRecord, lFirst, lSecond, lFailures>>,
           lAcked' \in BOOLEAN,
           lAcked' = lAcked \/ (lAcked' => lRecord # None /\ lSecond >= 1),
           NEW d \in Found \cup {None}, lDelivery' = [lDelivery EXCEPT ![w] = d],
           d # None => /\ LedgerRowTells(d.found)
                       /\ d.answer = "ACK" => lRecord # None /\ lSecond >= 1
    PROVE  LedgerInv'
<1>1. /\ lDelivery' \in [Deliveries -> Found \cup {None}] /\ lDelivery'[w] = d
      /\ \A v \in Deliveries : v # w => lDelivery'[v] = lDelivery[v]
  BY DEF LedgerInv, LedgerRowsOK
<1>2. LedgerRowsOK' /\ Ledger!EffectsTellTheRecord'
  <2>1. lAcked' => lAcked \/ lSecond >= 1
    OBVIOUS
  <2>. QED  BY <1>1, <2>1 DEF LedgerInv, LedgerRowsOK, Ledger!EffectsTellTheRecord
<1>3. \A row : LedgerRowTells(row) => LedgerRowTells(row)'
  BY DEF LedgerRowTells
<1>4. (LedgerRowTells(lRecord))'
  BY <1>3 DEF LedgerInv, LedgerRowTells
<1>5. (\A v \in Deliveries : lDelivery[v] # None =>
          /\ LedgerRowTells(lDelivery[v].found)
          /\ lDelivery[v].answer = "ACK" => lRecord # None /\ lSecond >= 1)'
  <2>1. ASSUME NEW v \in Deliveries, lDelivery'[v] # None
        PROVE  \E e : /\ e = lDelivery'[v] /\ LedgerRowTells(e.found)'
                      /\ e.answer = "ACK" => lRecord # None /\ lSecond >= 1
    <3>1. CASE v = w
      BY <1>1, <1>3, <2>1, <3>1
    <3>2. CASE v # w
      <4>1. PICK e : e = lDelivery[v] /\ LedgerRowTells(e.found)
                     /\ (e.answer = "ACK" => lRecord # None /\ lSecond >= 1)
        BY <1>1, <2>1, <3>2 DEF LedgerInv
      <4>2. e = lDelivery'[v] /\ LedgerRowTells(e.found)'
        BY <1>1, <1>3, <3>2, <4>1
      <4>. QED  BY <4>1, <4>2
    <3>. QED  BY <3>1, <3>2
  <2>. QED  BY <2>1 DEF LedgerRowTells
<1>. QED  BY <1>2, <1>4, <1>5 DEF LedgerInv

LEMMA DeliveriesOK ==
    ASSUME LedgerInv, NEW w \in Deliveries
    PROVE  /\ Ledger!Deliver(w) => LedgerInv'
           /\ Ledger!AnswerDuplicate(w) => LedgerInv'
           /\ Ledger!RollBack(w) => LedgerInv'
           /\ \A lost \in BOOLEAN : Ledger!Respond(w, lost) => LedgerInv'
<1>1. ASSUME Ledger!Deliver(w) PROVE LedgerInv'
  <2>1. PICK d : d = [found |-> lRecord, answer |-> None]
    OBVIOUS
  <2>2. d \in Found /\ lDelivery' = [lDelivery EXCEPT ![w] = d]
    BY <1>1, <2>1 DEF Ledger!Deliver, Found, LedgerInv, LedgerRowsOK
  <2>3. d.answer # "ACK" /\ LedgerRowTells(d.found)
    BY <2>1, LedgerConstants, NoFound DEF LedgerInv
  <2>. QED  BY <1>1, <2>2, <2>3, LedgerStays DEF Ledger!Deliver, LedgerInv, LedgerRowsOK
<1>2. ASSUME Ledger!AnswerDuplicate(w) PROVE LedgerInv'
  <2>1. /\ lDelivery[w] \in Found /\ lDelivery[w].found # None /\ lDelivery[w].found.status = "PROCESSED"
        /\ LedgerRowTells(lDelivery[w].found)
    BY <1>2
         DEF Ledger!AnswerDuplicate, Ledger!Handling, Ledger!RerunHandler, LedgerInv, LedgerRowsOK,
             Found, Ledger!InboxRow
  <2>2. PICK d : d = [found |-> lDelivery[w].found, answer |-> "ACK"]
    OBVIOUS
  <2>3. d \in Found /\ lDelivery' = [lDelivery EXCEPT ![w] = d]
    <3>1. lDelivery' = [lDelivery EXCEPT ![w] = [lDelivery[w] EXCEPT !.answer = "ACK"]]
      BY <1>2 DEF Ledger!AnswerDuplicate, Ledger!Answer, LedgerInv, LedgerRowsOK
    <3>2. [lDelivery[w] EXCEPT !.answer = "ACK"] = d
      BY <2>1, <2>2 DEF Found
    <3>. QED  BY <2>1, <2>2, <3>1, <3>2 DEF Found
  <2>4. d.found = lDelivery[w].found /\ lSecond >= 1 /\ lRecord # None
    BY <2>1, <2>2 DEF LedgerRowTells
  <2>. QED  BY <1>2, <2>1, <2>3, <2>4, LedgerStays DEF Ledger!AnswerDuplicate, LedgerInv, LedgerRowsOK
<1>3. ASSUME Ledger!RollBack(w) PROVE LedgerInv'
  BY <1>3, LedgerStays DEF Ledger!RollBack, LedgerInv, LedgerRowsOK
<1>4. ASSUME NEW lost \in BOOLEAN, Ledger!Respond(w, lost) PROVE LedgerInv'
  <2>1. /\ lDelivery' = [lDelivery EXCEPT ![w] = None] /\ UNCHANGED <<lRecord, lFirst, lSecond, lFailures>>
        /\ lDelivery[w] # None
        /\ lAcked' = (lAcked \/ (lDelivery[w].answer = "ACK" /\ ~lost))
    BY <1>4 DEF Ledger!Respond
  <2>2. lAcked' => lRecord # None /\ lSecond >= 1
    BY <2>1 DEF LedgerInv
  <2>3. lAcked' \in BOOLEAN
    BY <2>1
  <2>. QED  BY <2>1, <2>2, <2>3, LedgerStays
<1>. QED  BY <1>1, <1>2, <1>3, <1>4

LEMMA RunsOK ==
    ASSUME LedgerInv, NEW w \in Deliveries
    PROVE  /\ Ledger!RunSucceeds(w) => LedgerInv'
           /\ \A torn \in BOOLEAN : Ledger!RunFails(w, torn) => LedgerInv'
<1>1. ASSUME NEW status \in {"PROCESSED", "FAILED"}, NEW a \in {"ACK", "NAK"},
             Ledger!Run(w, status), Ledger!Answer(w, a), UNCHANGED lAcked,
             \/ /\ status = "PROCESSED" /\ lFirst' = lFirst + 1 /\ lSecond' = lSecond + 1 /\ lFailures' = lFailures
             \/ /\ status = "FAILED" /\ a = "NAK" /\ lFirst' \in {lFirst, lFirst + 1} /\ lSecond' = lSecond
                /\ lFailures' = lFailures + 1 /\ lFailures < MaxRuns
      PROVE  LedgerInv'
  <2>1. /\ lDelivery[w] \in Found /\ lDelivery[w].answer = None
        /\ lFirst < MaxRuns
        /\ lDelivery[w].found # None => lDelivery[w].found.status = "FAILED"
        /\ lDelivery[w].found = None => lRecord = None
        /\ LedgerRowTells(lDelivery[w].found)
    BY <1>1
         DEF Ledger!Run, Ledger!Handling, Ledger!RerunHandler, Ledger!CanWrite, LedgerInv,
             LedgerRowsOK
  <2>2. PICK found : found = lDelivery[w].found /\ found \in Ledger!InboxRow \cup {None}
    BY <2>1 DEF Found
  <2>3. /\ lFirst \in Nat /\ lSecond \in Nat /\ lFailures \in Nat
        /\ lFirst <= MaxRuns /\ lSecond <= MaxRuns /\ lFailures <= MaxRuns /\ MaxRuns \in Nat
        /\ lSecond <= lFirst /\ lFirst <= lSecond + lFailures
    BY LedgerConstants, NoFound DEF LedgerInv, LedgerRowsOK, Ledger!EffectsTellTheRecord
  <2>4. PICK n \in Nat : /\ n >= 1 /\ n <= lFirst + lFailures + 1
                         /\ lRecord' = [status |-> status, attempts |-> n]
    <3>1. found # None => found.attempts \in 1 .. 2 * MaxRuns /\ found.attempts <= lFirst + lFailures
      BY <2>1, <2>2 DEF LedgerRowTells, Ledger!InboxRow
    <3>2. found # None => found.attempts \in Nat
      BY <2>3, <3>1
    <3>3. lRecord' = [status |-> status, attempts |-> IF found = None THEN 1 ELSE found.attempts + 1]
      BY <1>1, <2>2 DEF Ledger!Run, Ledger!Settled
    <3>. QED  BY <2>3, <3>1, <3>2, <3>3
  <2>5. /\ lFirst' \in Nat /\ lSecond' \in Nat /\ lFailures' \in Nat
        /\ lSecond <= lSecond'
        /\ lFirst' <= MaxRuns /\ lSecond' <= MaxRuns /\ lFailures' <= MaxRuns
    BY <1>1, <2>1, <2>3
  <2>20. PICK total : total = lFirst' + lFailures'
    OBVIOUS
  <2>21. /\ total \in Nat /\ lFirst + lFailures + 1 <= total /\ total <= 2 * MaxRuns
         /\ total = lFirst' + lFailures'
    <3>0. PICK f, g : f = lFirst' /\ g = lFailures'
      OBVIOUS
    <3>4. \/ f = lFirst + 1 /\ g = lFailures
          \/ (f = lFirst \/ f = lFirst + 1) /\ g = lFailures + 1 /\ lFailures < MaxRuns
      BY <1>1, <3>0
    <3>1. /\ f \in Nat /\ g \in Nat /\ f <= MaxRuns /\ g <= MaxRuns
          /\ lFirst + lFailures + 1 <= f + g
      BY <2>1, <2>3, <3>4
    <3>2. total = f + g
      BY <2>20, <3>0
    <3>. QED  BY <2>3, <2>20, <3>1, <3>2
  <2>6. /\ lRecord' \in Ledger!InboxRow /\ lRecord'.attempts = n /\ lRecord'.status = status /\ lRecord' # None
        /\ n <= total
    <3>4. n <= total
      BY <2>3, <2>4, <2>21
    <3>6. 2 * MaxRuns \in Nat
      BY <2>3
    <3>1. n \in 1 .. 2 * MaxRuns
      BY <2>4, <2>21, <3>4, <3>6
    <3>2. lRecord' \in Ledger!InboxRow
      BY <2>4, <3>1 DEF Ledger!InboxRow
    <3>3. lRecord'.attempts = n /\ lRecord'.status = status
      BY <2>4
    <3>7. lRecord' # None
      BY <3>2, LedgerConstants, NoFound
    <3>. QED  BY <3>2, <3>3, <3>4, <3>7
  <2>7. PICK d \in Found : d = [found |-> found, answer |-> a]
    BY <2>2 DEF Found
  <2>8. /\ lDelivery' = [lDelivery EXCEPT ![w] = d] /\ d.found = found /\ d.answer = a
    <3>1. lDelivery' = [lDelivery EXCEPT ![w] = [lDelivery[w] EXCEPT !.answer = a]]
      BY <1>1 DEF Ledger!Answer, LedgerInv, LedgerRowsOK
    <3>2. [lDelivery[w] EXCEPT !.answer = a] = d
      BY <2>1, <2>2, <2>7 DEF Found
    <3>3. d.found = found /\ d.answer = a
      BY <2>7
    <3>. QED  BY <3>1, <3>2, <3>3
  <2>9. /\ lDelivery' \in [Deliveries -> Found \cup {None}] /\ lDelivery'[w] = d
        /\ \A v \in Deliveries : v # w => lDelivery'[v] = lDelivery[v]
    BY <2>8 DEF LedgerInv, LedgerRowsOK
  <2>10. LedgerRowsOK'
    BY <1>1, <2>5, <2>6, <2>9 DEF LedgerInv, LedgerRowsOK
  <2>11. \A row \in Ledger!InboxRow : row.attempts \in Nat
    BY <2>3 DEF Ledger!InboxRow
  <2>12. \A row \in Ledger!InboxRow \cup {None} : LedgerRowTells(row) => LedgerRowTells(row)'
    <3>1. ASSUME NEW row \in Ledger!InboxRow \cup {None}, LedgerRowTells(row) PROVE LedgerRowTells(row)'
      <4>1. CASE row = None
        BY <4>1 DEF LedgerRowTells
      <4>2. CASE row # None
        <5>1. row.attempts \in Nat /\ row.attempts <= lFirst + lFailures
          BY <2>11, <3>1, <4>2 DEF LedgerRowTells
        <5>2. row.attempts <= total
          BY <2>3, <2>21, <5>1
        <5>3. (lFailures >= 1 => lFailures' >= 1) /\ (lSecond >= 1 => lSecond' >= 1)
          BY <1>1, <2>3, <2>5
        <5>. QED  BY <2>6, <2>20, <3>1, <4>2, <5>2, <5>3 DEF LedgerRowTells
      <4>. QED  BY <4>1, <4>2
    <3>. QED  BY <3>1
  <2>13. (LedgerRowTells(lRecord))'
    <3>1. lRecord'.attempts <= total
      BY <2>6
    <3>2. /\ status = "FAILED" => lFailures' >= 1
          /\ status = "PROCESSED" => lSecond' >= 1
      BY <1>1, <2>3
    <3>. QED  BY <2>6, <2>20, <3>1, <3>2 DEF LedgerRowTells
  <2>14. Ledger!EffectsTellTheRecord'
    <3>1. lFailures' = 0 => lFirst = 0 /\ lSecond = 0 /\ status = "PROCESSED"
      <4>1. lFailures' = 0 => lFailures = 0 /\ status = "PROCESSED"
        BY <1>1, <2>3
      <4>2. lFailures = 0 => found = None
        BY <2>1, <2>2, <2>3 DEF LedgerRowTells
      <4>. QED  BY <2>1, <2>2, <4>1, <4>2 DEF LedgerInv, Ledger!EffectsTellTheRecord
    <3>2. lFailures' = 0 => lFirst' = lSecond' /\ lSecond' <= 1
      BY <1>1, <3>1
    <3>3. lSecond' <= lFirst' /\ lFirst' <= lSecond' + lFailures'
      BY <1>1, <2>3
    <3>4. lRecord'.status = "PROCESSED" \/ lAcked' => lSecond' >= 1
      BY <1>1, <2>3, <2>5, <2>6 DEF LedgerInv
    <3>. QED  BY <2>6, <3>2, <3>3, <3>4 DEF Ledger!EffectsTellTheRecord
  <2>15. (\A v \in Deliveries : lDelivery[v] # None =>
          /\ LedgerRowTells(lDelivery[v].found)
          /\ lDelivery[v].answer = "ACK" => lRecord # None /\ lSecond >= 1)'
    <3>1. ASSUME NEW v \in Deliveries, lDelivery'[v] # None
          PROVE  \E e : /\ e = lDelivery'[v] /\ LedgerRowTells(e.found)'
                        /\ e.answer = "ACK" => lRecord' # None /\ lSecond' >= 1
      <4>1. CASE v = w
        <5>1. LedgerRowTells(d.found)'
          BY <2>1, <2>2, <2>8, <2>12
        <5>2. a = "ACK" => lSecond' >= 1
          BY <1>1, <2>3
        <5>. QED  BY <2>6, <2>8, <2>9, <4>1, <5>1, <5>2
      <4>2. CASE v # w
        <5>1. PICK e : /\ e = lDelivery[v] /\ e \in Found /\ e = lDelivery'[v] /\ LedgerRowTells(e.found)
                       /\ e.answer = "ACK" => lRecord # None /\ lSecond >= 1
          BY <2>9, <3>1, <4>2 DEF LedgerInv, LedgerRowsOK
        <5>2. LedgerRowTells(e.found)'
          BY <2>12, <5>1 DEF Found
        <5>3. lSecond >= 1 => lSecond' >= 1
          BY <2>3, <2>5
        <5>. QED  BY <2>6, <5>1, <5>2, <5>3
      <4>. QED  BY <4>1, <4>2
    <3>. QED  BY <3>1 DEF LedgerRowTells
  <2>16. lAcked' => lRecord' # None /\ lSecond' >= 1
    BY <1>1, <2>3, <2>5, <2>6 DEF LedgerInv
  <2>. QED  BY <2>10, <2>13, <2>14, <2>15, <2>16 DEF LedgerInv
<1>2. ASSUME Ledger!RunSucceeds(w) PROVE LedgerInv'
  BY <1>1, <1>2 DEF Ledger!RunSucceeds
<1>3. ASSUME NEW torn \in BOOLEAN, Ledger!RunFails(w, torn) PROVE LedgerInv'
  BY <1>1, <1>3 DEF Ledger!RunFails
<1>. QED  BY <1>2, <1>3

LEMMA LedgerStep == LedgerInv /\ [Ledger!Next]_(Ledger!vars) => LedgerInv'
<1> SUFFICES ASSUME LedgerInv, [Ledger!Next]_(Ledger!vars) PROVE LedgerInv'
  OBVIOUS
<1>1. CASE UNCHANGED Ledger!vars
  BY <1>1 DEF Ledger!vars, LedgerInv, LedgerRowsOK, Ledger!EffectsTellTheRecord, LedgerRowTells
<1>2. CASE Ledger!Next
  BY <1>2, DeliveriesOK, RunsOK DEF Ledger!Next
<1>. QED  BY <1>1, <1>2

-----------------------------------------------------------------------------
(* Workforce. StaffInv: what a request saw of its day, of the driver and of *)
(* the blocks still holds where it will rely on it.                         *)

LEMMA StaffCounts == \A S : Staff!Cardinality(S) = Cardinality(S)
  BY Zenon DEF Cardinality, IsFiniteSet, Staff!Cardinality, Staff!IsFiniteSet

\* What a request saw of the day it was made.
StaffReadsTrue(r) ==
    wRequest[r] # None =>
       \/ /\ wRequest[r].kind = "pattern" /\ wRequest[r].day \in 1 .. wToday
          /\ wRequest[r].found # None =>
                /\ wRequest[r].found \in Patterns /\ wRequest[r].row \in Staff!PatternRow
                /\ Staff!AppliesOn(wRequest[r].row, wRequest[r].day)
       \/ /\ wRequest[r].kind = "shift" /\ wRequest[r].day \in 1 .. wToday
          /\ wRequest[r].late \in BOOLEAN /\ wRequest[r].covered \in BOOLEAN /\ wRequest[r].blocked \in BOOLEAN
          /\ wRequest[r].covered =>
                \E l \in Leaves : wLeave[l] # None /\ Staff!AppliesOn(wLeave[l], wRequest[r].day)
          /\ wRequest[r].blocked =>
                \E b \in Blocks : wBlock[b] # None /\ wBlock[b].day <= wRequest[r].day
       \/ wRequest[r].kind = "leave" /\ wRequest[r].from \in Staff!Days /\ wRequest[r].to \in Staff!Days

OneOpen    == \A a, b \in Staff!Open : a = b
OneBlock   == \A b, c \in Staff!ActiveBlocks : b = c
OneProfile ==
    /\ \A a, b \in Applications : wApplication[a] = "VERIFIED" /\ wApplication[b] = "VERIFIED" => a = b
    /\ wDriver # None <=> \E a \in Applications : wApplication[a] = "VERIFIED"

LateIsAnswered ==
    \A day \in wLate :
        \/ \E b \in Blocks : wBlock[b] # None /\ wBlock[b].day <= day
        \/ \E l \in Leaves : wLeave[l] # None /\ Staff!AppliesOn(wLeave[l], day)

BlocksHaveBegun == \A b \in Blocks : wBlock[b] # None => wBlock[b].day <= wToday

StaffRows ==
    /\ wToday \in 1 .. LastDay
    /\ wApplication \in [Applications ->
          {None, "AWAITING_OFFICE_VERIFICATION", "VERIFIED", "REJECTED", "WITHDRAWN"}]
    /\ wDriver \in DriverStatuses \cup {"ACTIVE", None}
    /\ wPattern \in [Patterns -> Staff!PatternRow \cup {None}]
    /\ wLate \subseteq wStarted /\ wStarted \subseteq Staff!Days
    /\ wBlock \in [Blocks -> Staff!BlockRow \cup {None}]
    /\ wAsked \subseteq Blocks
    /\ wLeave \in [Leaves -> Staff!LeaveRow \cup {None}]

StaffInv ==
    /\ StaffRows /\ DOMAIN wRequest = Requests
    /\ \A r \in Requests : StaffReadsTrue(r)
    /\ OneOpen /\ OneBlock /\ OneProfile /\ LateIsAnswered /\ BlocksHaveBegun

LEMMA StaffTells == StaffInv => Staff!TypeOK /\ Staff!WhoMayWork
<1> SUFFICES ASSUME StaffInv PROVE Staff!TypeOK /\ Staff!WhoMayWork
  OBVIOUS
<1>1. Staff!TypeOK
  BY DEF StaffInv, StaffRows, StaffReadsTrue, Staff!TypeOK
<1>2. Cardinality(Staff!Open) <= 1 /\ Cardinality(Staff!ActiveBlocks) <= 1
  BY AtMostOne DEF StaffInv, OneOpen, OneBlock
<1>3. Cardinality({a \in Applications : wApplication[a] = "VERIFIED"}) = (IF wDriver = None THEN 0 ELSE 1)
  <2> DEFINE V == {a \in Applications : wApplication[a] = "VERIFIED"}
  <2>1. CASE wDriver = None
    <3>1. V = {}
      BY <2>1 DEF StaffInv, OneProfile
    <3>. QED  BY <2>1, <3>1, FS_EmptySet
  <2>2. CASE wDriver # None
    <3>1. PICK a \in Applications : V = {a}
      BY <2>2 DEF StaffInv, OneProfile
    <3>. QED  BY <2>2, <3>1, FS_Singleton
  <2>. QED  BY <2>1, <2>2
<1>4. Staff!Eligible =>
          \A l \in Staff!Protecting(wToday) : wLeave[l].status = "APPROVED" =>
              \E k \in Staff!Protecting(wToday) : wLeave[k].status = "PENDING"
  BY DEF Staff!Eligible, Staff!FindCovering
<1>. QED  BY <1>1, <1>2, <1>3, <1>4, StaffCounts DEF StaffInv, LateIsAnswered, Staff!WhoMayWork

LEMMA StaffInit == Staff!Init => StaffInv
<1> SUFFICES ASSUME Staff!Init PROVE StaffInv
  OBVIOUS
<1>1. StaffRows
  BY StaffConstants DEF Staff!Init, StaffRows, Staff!Days
<1>2. Staff!Open = {} /\ Staff!ActiveBlocks = {}
  BY StaffConstants DEF Staff!Init, Staff!Open, Staff!ActiveBlocks
<1>3. OneProfile
  BY StaffConstants DEF Staff!Init, OneProfile
<1>. QED
  BY <1>1, <1>2, <1>3
       DEF Staff!Init, StaffInv, StaffReadsTrue, OneOpen, OneBlock, LateIsAnswered, BlocksHaveBegun

\* Time passes, and blocks and leave are kept with their days.
DaysAreKept ==
    /\ wToday' \in Nat /\ wToday <= wToday'
    /\ \A b \in Blocks : wBlock[b] # None => wBlock'[b] # None /\ wBlock'[b].day = wBlock[b].day
    /\ \A l \in Leaves : wLeave[l] # None =>
          wLeave'[l] # None /\ wLeave'[l].from = wLeave[l].from /\ wLeave'[l].to = wLeave[l].to

LEMMA StaffReadsStayTrue ==
    ASSUME StaffInv, DaysAreKept, NEW r \in Requests, wRequest'[r] = wRequest[r]
    PROVE  StaffReadsTrue(r)'
<1>1. \A day : day \in 1 .. wToday => day \in 1 .. wToday'
  BY DEF StaffInv, StaffRows, DaysAreKept
<1>2. ASSUME NEW day, \E l \in Leaves : wLeave[l] # None /\ Staff!AppliesOn(wLeave[l], day)
      PROVE  \E l \in Leaves : wLeave'[l] # None /\ Staff!AppliesOn(wLeave'[l], day)
  BY <1>2 DEF DaysAreKept, Staff!AppliesOn
<1>3. ASSUME NEW day, \E b \in Blocks : wBlock[b] # None /\ wBlock[b].day <= day
      PROVE  \E b \in Blocks : wBlock'[b] # None /\ wBlock'[b].day <= day
  BY <1>3 DEF DaysAreKept
<1>4. StaffReadsTrue(r)
  BY DEF StaffInv
<1>. QED  BY <1>1, <1>2, <1>3, <1>4 DEF StaffReadsTrue

LEMMA StaffReadsOver ==
    ASSUME StaffInv, DaysAreKept, NEW r \in Requests, Staff!Over(r)
    PROVE  /\ DOMAIN wRequest' = Requests /\ wRequest'[r] = None
           /\ \A q \in Requests : StaffReadsTrue(q)'
<1>1. /\ DOMAIN wRequest' = Requests /\ wRequest'[r] = None
      /\ \A q \in Requests : q # r => wRequest'[q] = wRequest[q]
  BY DEF StaffInv, Staff!Over
<1>2. StaffReadsTrue(r)'
  BY <1>1 DEF StaffReadsTrue
<1>. QED  BY <1>1, <1>2, StaffReadsStayTrue

LEMMA LateStaysAnswered ==
    ASSUME StaffInv, DaysAreKept, NEW day \in wLate
    PROVE  \/ \E b \in Blocks : wBlock'[b] # None /\ wBlock'[b].day <= day
           \/ \E l \in Leaves : wLeave'[l] # None /\ Staff!AppliesOn(wLeave'[l], day)
  BY DEF StaffInv, LateIsAnswered, DaysAreKept, Staff!AppliesOn

-----------------------------------------------------------------------------
LEMMA ReadersOK ==
    ASSUME StaffInv, NEW r \in Requests,
           \/ Staff!GiveUp(r) \/ Staff!BeginPattern(r) \/ \E isLate \in BOOLEAN : Staff!BeginShift(r, isLate)
           \/ \E from, to \in 1 .. LastDay : Staff!BeginLeave(r, from, to)
    PROVE  StaffInv' /\ Staff!DaysStay
<1>1. UNCHANGED <<wToday, Staff!file>>
  BY DEF Staff!GiveUp, Staff!BeginPattern, Staff!BeginShift, Staff!BeginLeave, Staff!Reads
<1>2. DaysAreKept
  BY <1>1 DEF DaysAreKept, StaffInv, StaffRows, Staff!file
<1>3. (StaffRows /\ OneOpen /\ OneBlock /\ OneProfile /\ LateIsAnswered /\ BlocksHaveBegun)'
  BY <1>1 DEF StaffInv, StaffRows, OneOpen, OneBlock, OneProfile, LateIsAnswered, BlocksHaveBegun,
     Staff!Open, Staff!ActiveBlocks, Staff!file, Staff!attendance
<1>4. Staff!DaysStay
  BY <1>1 DEF Staff!DaysStay, Staff!file
<1>5. ASSUME NEW row, Staff!Reads(r, row)
      PROVE  /\ DOMAIN wRequest' = Requests /\ wRequest'[r] = row
             /\ \A q \in Requests : q # r => StaffReadsTrue(q)'
  BY <1>2, <1>5, StaffReadsStayTrue DEF StaffInv, Staff!Reads
<1>6. DOMAIN wRequest' = Requests /\ \A q \in Requests : StaffReadsTrue(q)'
  <2>1. CASE Staff!GiveUp(r)
    BY <2>1, <1>2, StaffReadsOver DEF Staff!GiveUp
  <2>2. CASE Staff!BeginPattern(r)
    <3>1. PICK found \in IF Staff!CurrentFor(wToday) = {} THEN {None} ELSE Staff!CurrentFor(wToday) :
              Staff!Reads(r, [kind |-> "pattern", day |-> wToday, found |-> found,
                        row |-> IF found = None THEN None ELSE wPattern[found]])
      BY <2>2 DEF Staff!BeginPattern
    <3>2. found # None =>
              found \in Patterns /\ wPattern[found] \in Staff!PatternRow /\ Staff!AppliesOn(wPattern[found], wToday)
      BY DEF Staff!CurrentFor, StaffInv, StaffRows
    <3>3. wRequest'[r] = [kind |-> "pattern", day |-> wToday, found |-> found,
                         row |-> IF found = None THEN None ELSE wPattern[found]]
      BY <1>5, <3>1
    <3>4. wToday \in 1 .. wToday /\ UNCHANGED wToday
      BY <1>1 DEF StaffInv, StaffRows
    <3>5. StaffReadsTrue(r)'
      BY <3>2, <3>3, <3>4 DEF StaffReadsTrue
    <3>. QED  BY <1>5, <3>1, <3>5
  <2>3. CASE \E isLate \in BOOLEAN : Staff!BeginShift(r, isLate)
    <3>1. PICK isLate \in BOOLEAN, covered \in BOOLEAN, blocked \in BOOLEAN :
              /\ Staff!Reads(r, [kind |-> "shift", day |-> wToday, late |-> isLate,
                           covered |-> covered, blocked |-> blocked])
              /\ covered => Staff!FindCovering(wToday) # None
              /\ blocked => Staff!ActiveBlocks # {}
      BY <2>3 DEF Staff!BeginShift
    <3>2. wRequest'[r] = [kind |-> "shift", day |-> wToday, late |-> isLate,
                         covered |-> covered, blocked |-> blocked]
      BY <1>5, <3>1
    <3>3. covered => \E l \in Leaves : wLeave[l] # None /\ Staff!AppliesOn(wLeave[l], wToday)
      BY <3>1 DEF Staff!FindCovering, Staff!Protecting
    <3>4. blocked => \E b \in Blocks : wBlock[b] # None /\ wBlock[b].day <= wToday
      BY <3>1 DEF Staff!ActiveBlocks, StaffInv, BlocksHaveBegun
    <3>5. wToday \in 1 .. wToday /\ UNCHANGED <<wToday, wBlock, wLeave>>
      BY <1>1 DEF StaffInv, StaffRows, Staff!file
    <3>6. StaffReadsTrue(r)'
      BY <3>2, <3>3, <3>4, <3>5 DEF StaffReadsTrue
    <3>. QED  BY <1>5, <3>1, <3>6
  <2>4. CASE \E from, to \in 1 .. LastDay : Staff!BeginLeave(r, from, to)
    <3>1. PICK from, to \in 1 .. LastDay : Staff!Reads(r, [kind |-> "leave", from |-> from, to |-> to])
      BY <2>4 DEF Staff!BeginLeave
    <3>2. wRequest'[r] = [kind |-> "leave", from |-> from, to |-> to]
      BY <1>5, <3>1
    <3>3. from \in Staff!Days /\ to \in Staff!Days
      BY StaffConstants DEF Staff!Days
    <3>4. StaffReadsTrue(r)'
      BY <3>2, <3>3 DEF StaffReadsTrue
    <3>. QED  BY <1>5, <3>1, <3>4
  <2>. QED  BY <2>1, <2>2, <2>3, <2>4
<1>. QED  BY <1>3, <1>4, <1>6 DEF StaffInv

\* Applications, profiles and the calendar.
LEMMA FileOK ==
    ASSUME StaffInv,
           \/ Staff!NextDay \/ UNCHANGED Staff!vars \/ \E status \in DriverStatuses : Staff!SetDriverStatus(status)
           \/ \E b \in Blocks : Staff!RequestUnblock(b)
           \/ \E a \in Applications :
                 \/ Staff!SubmitApplication(a)
                 \/ \E status \in {"REJECTED", "WITHDRAWN"} : Staff!CloseApplication(a, status)
                 \/ \E p \in Patterns, from \in 1 .. LastDay : Staff!RecordOfficeVerification(a, p, from)
    PROVE  StaffInv' /\ Staff!DaysStay
<1>1. UNCHANGED <<Staff!attendance, wBlock, wLeave, wRequest>>
  BY
       DEF Staff!NextDay, Staff!vars, Staff!file, Staff!SetDriverStatus, Staff!SubmitApplication,
           Staff!CloseApplication,
     Staff!RecordOfficeVerification, Staff!RequestUnblock
<1>2. wToday' \in 1 .. LastDay /\ wToday <= wToday'
  BY StaffConstants
       DEF Staff!NextDay, Staff!vars, Staff!file, Staff!SetDriverStatus, Staff!SubmitApplication,
           Staff!CloseApplication,
     Staff!RecordOfficeVerification, Staff!RequestUnblock, StaffInv, StaffRows
<1>3. DaysAreKept
  BY <1>1, <1>2 DEF DaysAreKept
<1>4. DOMAIN wRequest' = Requests /\ \A q \in Requests : StaffReadsTrue(q)'
  BY <1>1, <1>3, StaffReadsStayTrue DEF StaffInv
<1>5. LateIsAnswered' /\ OneBlock' /\ BlocksHaveBegun'
  <2>1. LateIsAnswered' /\ OneBlock'
    BY <1>1 DEF StaffInv, LateIsAnswered, OneBlock, Staff!ActiveBlocks, Staff!attendance
  <2>2. \A b \in Blocks : wBlock[b] # None => wBlock[b].day \in Nat /\ wBlock[b].day <= wToday
    BY StaffConstants DEF StaffInv, StaffRows, BlocksHaveBegun, Staff!BlockRow, Staff!Days
  <2>3. wToday \in Nat /\ wToday' \in Nat
    BY <1>2 DEF StaffInv, StaffRows
  <2>4. BlocksHaveBegun'
    BY <1>1, <1>2, <2>2, <2>3 DEF BlocksHaveBegun
  <2>. QED  BY <2>1, <2>4
<1>6. wAsked' \subseteq Blocks
  BY
       DEF Staff!NextDay, Staff!vars, Staff!file, Staff!SetDriverStatus, Staff!SubmitApplication,
           Staff!CloseApplication,
     Staff!RecordOfficeVerification, Staff!RequestUnblock, StaffInv, StaffRows, Staff!ActiveBlocks
<1>7. CASE Staff!NextDay \/ UNCHANGED Staff!vars \/ \E b \in Blocks : Staff!RequestUnblock(b)
  <2>1. UNCHANGED <<wApplication, wDriver, wPattern>>
    BY <1>7 DEF Staff!NextDay, Staff!vars, Staff!file, Staff!RequestUnblock
  <2>2. StaffRows' /\ OneOpen' /\ OneProfile'
    BY <1>1, <1>2, <1>6, <2>1
         DEF StaffInv, StaffRows, OneOpen, OneProfile, Staff!Open, Staff!attendance
  <2>. QED  BY <1>4, <1>5, <2>1, <2>2 DEF StaffInv, Staff!DaysStay
<1>8. CASE \E status \in DriverStatuses : Staff!SetDriverStatus(status)
  <2>1. UNCHANGED <<wApplication, wPattern>> /\ wDriver' \in DriverStatuses /\ wDriver # None
    BY <1>8 DEF Staff!SetDriverStatus
  <2>2. StaffRows' /\ OneOpen' /\ OneProfile'
    BY <1>1, <1>2, <1>6, <2>1, StaffConstants
         DEF StaffInv, StaffRows, OneOpen, OneProfile, Staff!Open, Staff!attendance
  <2>. QED  BY <1>4, <1>5, <2>1, <2>2 DEF StaffInv, Staff!DaysStay
<1>9. ASSUME NEW a \in Applications,
             Staff!SubmitApplication(a) \/ (\E status \in {"REJECTED", "WITHDRAWN"} : Staff!CloseApplication(a, status))
      PROVE  StaffInv' /\ Staff!DaysStay
  <2>1. UNCHANGED <<wDriver, wPattern>>
    BY <1>9 DEF Staff!SubmitApplication, Staff!CloseApplication
  <2>2. /\ wApplication' = [b \in Applications |-> wApplication'[b]]
        /\ \A b \in Applications : b # a => wApplication'[b] = wApplication[b]
        /\ wApplication'[a] \in {"AWAITING_OFFICE_VERIFICATION", "REJECTED", "WITHDRAWN"}
        /\ wApplication[a] \in {None, "AWAITING_OFFICE_VERIFICATION"}
        /\ wApplication'[a] = "AWAITING_OFFICE_VERIFICATION" => Staff!Open = {}
    BY <1>9
         DEF Staff!SubmitApplication, Staff!CloseApplication, Staff!Decide, Staff!Open,
             Staff!IsNext, StaffInv, StaffRows
  <2>3. StaffRows'
    BY <1>1, <1>2, <1>6, <2>1, <2>2 DEF StaffInv, StaffRows, Staff!attendance
  <2>4. OneOpen'
    BY <2>2 DEF StaffInv, OneOpen, Staff!Open
  <2>5. wApplication[a] # "VERIFIED"
    BY <2>2, StaffConstants
  <2>6. OneProfile'
    BY <2>1, <2>2, <2>5 DEF StaffInv, OneProfile
  <2>. QED  BY <1>4, <1>5, <2>1, <2>3, <2>4, <2>6 DEF StaffInv, Staff!DaysStay
<1>10. ASSUME NEW a \in Applications, NEW p \in Patterns, NEW from \in 1 .. LastDay,
              Staff!RecordOfficeVerification(a, p, from)
       PROVE  StaffInv' /\ Staff!DaysStay
  <2>1. wDriver = None /\ wDriver' = "ACTIVE"
    BY <1>10 DEF Staff!RecordOfficeVerification, Staff!IsNewDriver
  <2>2. /\ wApplication' = [b \in Applications |-> wApplication'[b]]
        /\ \A b \in Applications : b # a => wApplication'[b] = wApplication[b]
        /\ wApplication'[a] = "VERIFIED"
    BY <1>10 DEF Staff!RecordOfficeVerification, Staff!Decide, StaffInv, StaffRows
  <2>3. [from |-> from, to |-> LastDay + 1] \in Staff!PatternRow
    BY StaffConstants DEF Staff!PatternRow, Staff!Days
  <2>4. wPattern' \in [Patterns -> Staff!PatternRow \cup {None}]
    BY <1>10, <2>3 DEF Staff!RecordOfficeVerification, StaffInv, StaffRows
  <2>5. StaffRows'
    BY <1>1, <1>2, <1>6, <2>1, <2>2, <2>4 DEF StaffInv, StaffRows, Staff!attendance
  <2>6. OneOpen'
    BY <2>2 DEF StaffInv, OneOpen, Staff!Open
  <2>7. OneProfile'
    BY <2>1, <2>2, StaffConstants DEF StaffInv, OneProfile
  <2>. QED  BY <1>4, <1>5, <2>1, <2>5, <2>6, <2>7 DEF StaffInv, Staff!DaysStay
<1>. QED  BY <1>7, <1>8, <1>9, <1>10

\* A change of pattern that was read today holds from tomorrow.
LEMMA SetShiftPatternOK ==
    ASSUME StaffInv, NEW r \in Requests, NEW p \in Patterns, Staff!SetShiftPattern(r, p)
    PROVE  StaffInv' /\ Staff!DaysStay
<1>1. /\ Staff!Is(r, "pattern") /\ Staff!Over(r) /\ wPattern[p] = None
      /\ UNCHANGED <<wToday, wApplication, wDriver, Staff!attendance, wBlock, wAsked, wLeave>>
  BY DEF Staff!SetShiftPattern, Staff!IsNext
<1>2. PICK day, found : /\ day = wRequest[r].day /\ found = wRequest[r].found
  OBVIOUS
<1>3. /\ day \in 1 .. wToday
      /\ found # None => /\ found \in Patterns /\ wPattern[found] \in Staff!PatternRow
                         /\ Staff!AppliesOn(wPattern[found], day)
  <2>1. StaffReadsTrue(r)
    BY DEF StaffInv
  <2>2. found # None => wPattern[found] = wRequest[r].row
    BY <1>2 DEF Staff!SetShiftPattern
  <2>. QED  BY <1>1, <1>2, <2>1, <2>2 DEF StaffReadsTrue, Staff!Is
<1>4. /\ wPattern' = [q \in Patterns |-> wPattern'[q]]
      /\ wPattern'[p] = [from |-> day + 1, to |-> LastDay + 1]
      /\ found # None => wPattern'[found] = [wPattern[found] EXCEPT !.to = day]
      /\ \A q \in Patterns : q # p /\ q # found => wPattern'[q] = wPattern[q]
  <2>1. found # None => found # p
    BY <1>1, <1>3, StaffConstants
  <2>. QED  BY <1>2, <1>3, <2>1 DEF Staff!SetShiftPattern, Staff!EffectiveFrom
<1>5. found # None =>
          /\ wPattern'[found] \in Staff!PatternRow
          /\ wPattern'[found].from = wPattern[found].from /\ wPattern'[found].to = day
  BY <1>3, <1>4, StaffConstants DEF Staff!PatternRow, Staff!Days, StaffInv, StaffRows
<1>6. wPattern'[p] \in Staff!PatternRow
  BY <1>3, <1>4, StaffConstants DEF Staff!PatternRow, Staff!Days, StaffInv, StaffRows
<1>7. StaffRows'
  <2>1. wPattern' \in [Patterns -> Staff!PatternRow \cup {None}]
    <3>1. \A q \in Patterns : wPattern'[q] \in Staff!PatternRow \cup {None}
      BY <1>4, <1>5, <1>6, StaffConstants DEF StaffInv, StaffRows
    <3>. QED  BY <1>4, <3>1
  <2>. QED  BY <1>1, <2>1 DEF StaffInv, StaffRows, Staff!attendance
<1>8. DaysAreKept
  BY <1>1 DEF DaysAreKept, StaffInv, StaffRows
<1>9. DOMAIN wRequest' = Requests /\ wRequest'[r] = None /\ \A q \in Requests : StaffReadsTrue(q)'
  BY <1>1, <1>8, StaffReadsOver
<1>10. (OneOpen /\ OneBlock /\ OneProfile /\ LateIsAnswered /\ BlocksHaveBegun)'
  BY <1>1
       DEF StaffInv, OneOpen, OneBlock, OneProfile, LateIsAnswered, BlocksHaveBegun, Staff!Open,
           Staff!ActiveBlocks,
     Staff!attendance
<1>11. ASSUME NEW d \in 1 .. wToday, ~(day < d)
       PROVE  Staff!CurrentFor(d)' = Staff!CurrentFor(d)
  <2>1. d \in Nat /\ day \in Nat /\ d <= day
    BY <1>3, <1>11 DEF StaffInv, StaffRows
  <2>2. ~Staff!AppliesOn(wPattern'[p], d)
    BY <1>4, <2>1 DEF Staff!AppliesOn
  <2>3. found # None => (Staff!AppliesOn(wPattern'[found], d) <=> Staff!AppliesOn(wPattern[found], d))
    BY <1>3, <1>5, <2>1 DEF Staff!AppliesOn, Staff!PatternRow, Staff!Days
  <2>4. \A q \in Patterns :
            /\ wPattern'[q] # None /\ Staff!AppliesOn(wPattern'[q], d)
                   <=> wPattern[q] # None /\ Staff!AppliesOn(wPattern[q], d)
            /\ wPattern[q] # None => wPattern'[q].from = wPattern[q].from
    BY <1>1, <1>3, <1>4, <1>5, <2>2, <2>3, StaffConstants
  <2>5. {q \in Patterns : wPattern'[q] # None /\ Staff!AppliesOn(wPattern'[q], d)}
            = {q \in Patterns : wPattern[q] # None /\ Staff!AppliesOn(wPattern[q], d)}
    BY <2>4
  <2> DEFINE apply == {q \in Patterns : wPattern[q] # None /\ Staff!AppliesOn(wPattern[q], d)}
  <2>6. Staff!CurrentFor(d) = {q \in apply : \A s \in apply : wPattern[s].from <= wPattern[q].from}
    BY DEF Staff!CurrentFor
  <2>7. Staff!CurrentFor(d)' = {q \in apply : \A s \in apply : wPattern'[s].from <= wPattern'[q].from}
    BY <2>5 DEF Staff!CurrentFor
  <2>. QED  BY <2>4, <2>6, <2>7
<1>12. Staff!DaysStay
  BY <1>1, <1>2, <1>9, <1>11 DEF Staff!DaysStay
<1>. QED  BY <1>7, <1>9, <1>10, <1>12 DEF StaffInv

\* The start of a shift is answered by what it saw, or by a block of its own.
LEMMA AttendOK ==
    ASSUME StaffInv, NEW r \in Requests,
           Staff!StartShift(r) \/ \E b \in Blocks : Staff!StartShiftLate(r, b)
    PROVE  StaffInv' /\ Staff!DaysStay
<1>1. Staff!Attend(r)
  BY DEF Staff!StartShift, Staff!StartShiftLate
<1>2. /\ Staff!Is(r, "shift") /\ Staff!Over(r)
      /\ UNCHANGED <<wToday, wApplication, wDriver, wPattern, wAsked, wLeave>>
  BY <1>1 DEF Staff!Attend
<1>3. PICK day : day = wRequest[r].day
  OBVIOUS
<1>4. /\ day \in 1 .. wToday
      /\ wRequest[r].late \in BOOLEAN /\ wRequest[r].covered \in BOOLEAN /\ wRequest[r].blocked \in BOOLEAN
      /\ wRequest[r].covered => \E l \in Leaves : wLeave[l] # None /\ Staff!AppliesOn(wLeave[l], day)
      /\ wRequest[r].blocked => \E b \in Blocks : wBlock[b] # None /\ wBlock[b].day <= day
  <2>1. StaffReadsTrue(r)
    BY DEF StaffInv
  <2>. QED  BY <1>2, <1>3, <2>1 DEF StaffReadsTrue, Staff!Is
<1>5. /\ day \in Staff!Days
      /\ wStarted' = wStarted \cup {day} /\ wLate' \subseteq wLate \cup {day}
      /\ day \in wLate' => day \in wLate \/ wRequest[r].late
      /\ wLate' \subseteq wStarted'
  <2>1. day \in Staff!Days
    BY <1>4, StaffConstants DEF Staff!Days, StaffInv, StaffRows
  <2>2. /\ wStarted' = wStarted \cup {day} /\ wLate' \subseteq wLate \cup {day}
        /\ day \in wLate' => day \in wLate \/ wRequest[r].late
    BY <1>1, <1>3 DEF Staff!Attend
  <2>. QED  BY <2>1, <2>2 DEF StaffInv, StaffRows
<1>6. /\ wBlock' \in [Blocks -> Staff!BlockRow \cup {None}]
      /\ \A b \in Blocks : wBlock[b] # None => wBlock'[b] = wBlock[b]
      /\ \A b \in Blocks : wBlock'[b] # None => wBlock'[b].day <= wToday
      /\ OneBlock'
      /\ \/ ~Staff!Penalised(r)
         \/ \E b \in Blocks : wBlock'[b] # None /\ wBlock'[b].day <= day
  <2>1. CASE Staff!StartShift(r)
    BY <2>1 DEF Staff!StartShift, StaffInv, StaffRows, BlocksHaveBegun, OneBlock, Staff!ActiveBlocks
  <2>2. ASSUME NEW b \in Blocks, Staff!StartShiftLate(r, b)
        PROVE  <1>6
    <3>1. /\ wBlock[b] = None /\ Staff!ActiveBlocks = {}
          /\ wBlock' = [c \in Blocks |-> wBlock'[c]]
          /\ wBlock'[b] = [day |-> day, status |-> "ACTIVE"]
          /\ \A c \in Blocks : c # b => wBlock'[c] = wBlock[c]
      BY <2>2, <1>3 DEF Staff!StartShiftLate, Staff!IsNext, StaffInv, StaffRows
    <3>2. wBlock'[b] \in Staff!BlockRow /\ wBlock'[b].day = day
      BY <3>1, <1>5 DEF Staff!BlockRow
    <3>3. wBlock' \in [Blocks -> Staff!BlockRow \cup {None}]
      BY <3>1, <3>2 DEF StaffInv, StaffRows
    <3>4. Staff!ActiveBlocks' \subseteq {b}
      BY <3>1 DEF Staff!ActiveBlocks
    <3>5. day <= day /\ day <= wToday
      BY <1>4
    <3>6. wBlock'[b] # None
      BY <3>2, StaffConstants
    <3>7. OneBlock'
      BY <3>4 DEF OneBlock
    <3>. QED  BY <3>1, <3>2, <3>3, <3>5, <3>6, <3>7 DEF StaffInv, BlocksHaveBegun
  <2>. QED  BY <2>1, <2>2
<1>7. DaysAreKept
  BY <1>2, <1>6, StaffConstants DEF DaysAreKept, StaffInv, StaffRows
<1>8. StaffRows'
  BY <1>2, <1>5, <1>6 DEF StaffInv, StaffRows
<1>9. DOMAIN wRequest' = Requests /\ \A q \in Requests : StaffReadsTrue(q)'
  BY <1>2, <1>7, StaffReadsOver
<1>10. LateIsAnswered'
  <2>1. ASSUME NEW d \in wLate
        PROVE  \/ \E b \in Blocks : wBlock'[b] # None /\ wBlock'[b].day <= d
               \/ \E l \in Leaves : wLeave'[l] # None /\ Staff!AppliesOn(wLeave'[l], d)
    BY <1>7, LateStaysAnswered
  <2>2. ASSUME day \in wLate', day \notin wLate
        PROVE  \/ \E b \in Blocks : wBlock'[b] # None /\ wBlock'[b].day <= day
               \/ \E l \in Leaves : wLeave'[l] # None /\ Staff!AppliesOn(wLeave'[l], day)
    BY <1>2, <1>4, <1>5, <1>6, <2>2 DEF Staff!Penalised
  <2>3. \A d \in wLate' : d \in wLate \/ (d = day /\ day \notin wLate)
    BY <1>5
  <2>. QED  BY <2>1, <2>2, <2>3 DEF LateIsAnswered
<1>11. (OneOpen /\ OneProfile /\ BlocksHaveBegun)' /\ Staff!DaysStay
  BY <1>2, <1>6 DEF StaffInv, OneOpen, OneProfile, BlocksHaveBegun, Staff!Open, Staff!DaysStay
<1>. QED  BY <1>6, <1>8, <1>9, <1>10, <1>11 DEF StaffInv

LEMMA ClearBlockOK ==
    ASSUME StaffInv, NEW b \in Blocks, Staff!ClearBlock(b)
    PROVE  StaffInv' /\ Staff!DaysStay
<1>1. /\ wBlock[b] # None /\ wBlock[b] \in Staff!BlockRow
      /\ wBlock' = [c \in Blocks |-> wBlock'[c]]
      /\ wBlock'[b] = [wBlock[b] EXCEPT !.status = "CLEARED"]
      /\ \A c \in Blocks : c # b => wBlock'[c] = wBlock[c]
      /\ UNCHANGED <<wToday, wApplication, wDriver, wPattern, Staff!attendance, wAsked, wLeave, wRequest>>
  BY DEF Staff!ClearBlock, Staff!ActiveBlocks, StaffInv, StaffRows
<1>2. /\ wBlock'[b] \in Staff!BlockRow /\ wBlock'[b].day = wBlock[b].day /\ wBlock'[b].status = "CLEARED"
  BY <1>1 DEF Staff!BlockRow
<1>3. StaffRows'
  <2>1. wBlock' \in [Blocks -> Staff!BlockRow \cup {None}]
    BY <1>1, <1>2 DEF StaffInv, StaffRows
  <2>. QED  BY <1>1, <2>1 DEF StaffInv, StaffRows, Staff!attendance
<1>4. \A c \in Blocks : /\ wBlock[c] # None => wBlock'[c] # None /\ wBlock'[c].day = wBlock[c].day
                        /\ wBlock'[c] # None => wBlock[c] # None
  BY <1>1, <1>2, StaffConstants
<1>5. DaysAreKept
  BY <1>1, <1>4 DEF DaysAreKept, StaffInv, StaffRows
<1>6. DOMAIN wRequest' = Requests /\ \A q \in Requests : StaffReadsTrue(q)'
  BY <1>1, <1>5, StaffReadsStayTrue DEF StaffInv
<1>7. Staff!ActiveBlocks' \subseteq Staff!ActiveBlocks
  BY <1>1, <1>2 DEF Staff!ActiveBlocks
<1>8. OneBlock'
  BY <1>7 DEF StaffInv, OneBlock
<1>9. BlocksHaveBegun'
  BY <1>1, <1>4 DEF StaffInv, BlocksHaveBegun
<1>10. LateIsAnswered'
  BY <1>1, <1>5, LateStaysAnswered DEF LateIsAnswered, Staff!attendance
<1>11. (OneOpen /\ OneProfile)' /\ Staff!DaysStay
  BY <1>1 DEF StaffInv, OneOpen, OneProfile, Staff!Open, Staff!DaysStay
<1>. QED  BY <1>1, <1>3, <1>6, <1>8, <1>9, <1>10, <1>11 DEF StaffInv

LEMMA LeaveOK ==
    ASSUME StaffInv, NEW l \in Leaves,
           \/ \E r \in Requests : Staff!RequestLeave(r, l)
           \/ \E status \in {"APPROVED", "DECLINED", "WITHDRAWN"} : Staff!DecideLeave(l, status)
    PROVE  StaffInv' /\ Staff!DaysStay
<1>1. /\ wLeave' = [m \in Leaves |-> wLeave'[m]]
      /\ \A m \in Leaves : m # l => wLeave'[m] = wLeave[m]
      /\ UNCHANGED <<wToday, wApplication, wDriver, wPattern, Staff!attendance, wBlock, wAsked>>
  BY DEF Staff!RequestLeave, Staff!DecideLeave, StaffInv, StaffRows
<1>2. /\ wLeave'[l] \in Staff!LeaveRow
      /\ wLeave[l] # None => wLeave'[l].from = wLeave[l].from /\ wLeave'[l].to = wLeave[l].to
  <2>1. ASSUME NEW r \in Requests, Staff!RequestLeave(r, l)
        PROVE  <1>2
    <3>1. StaffReadsTrue(r) /\ Staff!Is(r, "leave") /\ wLeave[l] = None
      BY <2>1 DEF Staff!RequestLeave, StaffInv, Staff!IsNext
    <3>2. wRequest[r].from \in Staff!Days /\ wRequest[r].to \in Staff!Days
      BY <3>1 DEF StaffReadsTrue, Staff!Is
    <3>. QED  BY <2>1, <3>1, <3>2 DEF Staff!RequestLeave, Staff!LeaveRow, StaffInv, StaffRows
  <2>2. ASSUME NEW status \in {"APPROVED", "DECLINED", "WITHDRAWN"}, Staff!DecideLeave(l, status)
        PROVE  <1>2
    <3>1. wLeave[l] \in Staff!LeaveRow /\ wLeave'[l] = [wLeave[l] EXCEPT !.status = status]
      BY <2>2 DEF Staff!DecideLeave, StaffInv, StaffRows
    <3>. QED  BY <3>1 DEF Staff!LeaveRow
  <2>. QED  BY <2>1, <2>2
<1>3. wLeave'[l] # None
  BY <1>2, StaffConstants
<1>4. StaffRows'
  <2>1. wLeave' \in [Leaves -> Staff!LeaveRow \cup {None}]
    BY <1>1, <1>2 DEF StaffInv, StaffRows
  <2>. QED  BY <1>1, <2>1 DEF StaffInv, StaffRows, Staff!attendance
<1>5. DaysAreKept
  BY <1>1, <1>2, <1>3 DEF DaysAreKept, StaffInv, StaffRows
<1>6. DOMAIN wRequest' = Requests /\ \A q \in Requests : StaffReadsTrue(q)'
  <2>1. ASSUME NEW r \in Requests, Staff!RequestLeave(r, l)
        PROVE  <1>6
    BY <2>1, <1>5, StaffReadsOver DEF Staff!RequestLeave
  <2>2. ASSUME NEW status \in {"APPROVED", "DECLINED", "WITHDRAWN"}, Staff!DecideLeave(l, status)
        PROVE  <1>6
    BY <2>2, <1>5, StaffReadsStayTrue DEF Staff!DecideLeave, StaffInv
  <2>. QED  BY <2>1, <2>2
<1>7. LateIsAnswered'
  BY <1>1, <1>5, LateStaysAnswered DEF LateIsAnswered, Staff!attendance
<1>8. (OneOpen /\ OneBlock /\ OneProfile /\ BlocksHaveBegun)' /\ Staff!DaysStay
  BY <1>1
       DEF StaffInv, OneOpen, OneBlock, OneProfile, BlocksHaveBegun, Staff!Open, Staff!ActiveBlocks,
           Staff!DaysStay
<1>. QED  BY <1>4, <1>6, <1>7, <1>8 DEF StaffInv

LEMMA StaffStep == StaffInv /\ [Staff!Next]_(Staff!vars) => StaffInv' /\ Staff!DaysStay
<1> SUFFICES ASSUME StaffInv, [Staff!Next]_(Staff!vars) PROVE StaffInv' /\ Staff!DaysStay
  OBVIOUS
<1>. QED  BY ReadersOK, FileOK, SetShiftPatternOK, AttendOK, ClearBlockOK, LeaveOK DEF Staff!Next

-----------------------------------------------------------------------------
(* MerchantOffice. OfficeInv: branches a request read are as they were or   *)
(* have higher versions, there is one default branch, and the last fact     *)
(* told of a member tells the row.                                          *)

LEMMA OfficeCounts == \A S : Office!Cardinality(S) = Cardinality(S)
  BY Zenon DEF Cardinality, IsFiniteSet, Office!Cardinality, Office!IsFiniteSet

OfficeRowsOK ==
    /\ oApplication \in [Applications -> Office!ApplicationRow \cup {None}]
    /\ oMerchants \subseteq Applications
    /\ oStore \in [Stores -> Office!StoreRow \cup {None}]
    /\ oMember \in [Members -> Office!MemberRow \cup {None}]
    /\ oMerchant \in 1 .. MaxVersion
    /\ \A f \in oFacts : f.kind \in {"APPLICATION", "TEAM"} /\ f.version \in 1 .. MaxVersion

\* Among the branches there is one default, as soon as there is a branch.
DefaultsOK(rows) ==
    /\ \A s, t \in Office!Defaults(rows) : s = t
    /\ (\E s \in Stores : rows[s] # None) => Office!Defaults(rows) # {}

\* Branches as a request read them: the rows are as they were, or have higher
\* versions.
StoresRead(rows) ==
    /\ rows \in [Stores -> Office!StoreRow \cup {None}]
    /\ DefaultsOK(rows)
    /\ \A s \in Stores : rows[s] # None =>
          /\ oStore[s] # None /\ rows[s].version <= oStore[s].version
          /\ rows[s].version = oStore[s].version => rows[s] = oStore[s]

RequestHolds(r) ==
    oRequest[r] # None =>
        /\ oRequest[r].kind \in {"stores", "team"}
        /\ oRequest[r].kind = "stores" => StoresRead(oRequest[r].rows)
        /\ oRequest[r].kind = "team" => oRequest[r].store \in Stores \cup {None}

TeamFacts == {f \in oFacts : f.kind = "TEAM"}

\* One fact to a version, none about who was never invited, and for everybody
\* else a last one that tells the row.
TeamIsTold ==
    /\ IsFiniteSet(TeamFacts) /\ Cardinality(TeamFacts) = oMerchant - 1
    /\ {f.version : f \in TeamFacts} = 2 .. oMerchant
    /\ \A f, g \in TeamFacts : f.version = g.version => f = g

MemberIsTold(i) ==
    IF oMember[i] = None THEN \A f \in TeamFacts : f.about # i
    ELSE \E f \in TeamFacts :
            /\ f.about = i /\ f.status = oMember[i].status /\ f.store = oMember[i].store
            /\ \A g \in TeamFacts : g.about = i => g.version <= f.version

OnTheTeamOnce == \A phone \in Invited : \A i, j \in Office!LiveMembers(phone) : i = j

ApplicationsOK ==
    /\ \A a, b \in Office!OpenApplications : a = b
    /\ oMerchants = {a \in Applications : oApplication[a] # None /\ oApplication[a].status = "APPROVED"}

OfficeInv ==
    /\ OfficeRowsOK /\ DOMAIN oRequest = Requests
    /\ \A r \in Requests : RequestHolds(r)
    /\ DefaultsOK(oStore)
    /\ TeamIsTold /\ \A i \in Members : MemberIsTold(i)
    /\ OnTheTeamOnce /\ ApplicationsOK

LEMMA OfficeTells == OfficeInv => Office!TypeOK /\ Office!OfficeIsInOrder
<1> SUFFICES ASSUME OfficeInv PROVE Office!TypeOK /\ Office!OfficeIsInOrder
  OBVIOUS
<1>1. Office!TypeOK
  BY DEF OfficeInv, OfficeRowsOK, RequestHolds, Office!TypeOK
<1>2. ASSUME Office!Active(oStore) # {} PROVE Cardinality(Office!Defaults(oStore)) = 1
  <2>1. \E s \in Stores : oStore[s] # None
    BY <1>2 DEF Office!Active, OfficeInv, OfficeRowsOK
  <2>2. PICK d \in Office!Defaults(oStore) : TRUE
    BY <2>1 DEF OfficeInv, DefaultsOK
  <2>3. Office!Defaults(oStore) = {d}
    BY <2>2 DEF OfficeInv, DefaultsOK
  <2>. QED  BY <2>3, FS_Singleton
<1>3. ASSUME NEW i \in Members, oMember[i] = None PROVE {f \in TeamFacts : f.about = i} = {}
  BY <1>3 DEF OfficeInv, MemberIsTold
<1>4. ASSUME NEW i \in Members, oMember[i] # None
      PROVE  {<<f.status, f.store>> : f \in Office!Latest({f \in TeamFacts : f.about = i})}
                  = {<<oMember[i].status, oMember[i].store>>}
  <2>1. PICK f \in TeamFacts :
            /\ f.about = i /\ f.status = oMember[i].status /\ f.store = oMember[i].store
            /\ \A g \in TeamFacts : g.about = i => g.version <= f.version
    BY <1>4 DEF OfficeInv, MemberIsTold
  <2>2. \A g \in TeamFacts : g.version \in Nat
    BY OfficeConstants DEF TeamFacts, OfficeInv, OfficeRowsOK
  <2>3. Office!Latest({g \in TeamFacts : g.about = i}) = {f}
    BY <2>1, <2>2 DEF Office!Latest, OfficeInv, TeamIsTold
  <2>. QED  BY <2>1, <2>3
<1>5. ASSUME NEW phone \in Invited PROVE Cardinality(Office!LiveMembers(phone)) <= 1
  BY AtMostOne DEF OfficeInv, OnTheTeamOnce
<1>6. Cardinality(Office!OpenApplications) <= 1
  BY AtMostOne DEF OfficeInv, ApplicationsOK
<1>7. \A i \in Members :
         LET told == {f \in TeamFacts : f.about = i}
         IN  IF oMember[i] = None THEN told = {}
             ELSE {<<f.status, f.store>> : f \in Office!Latest(told)} = {<<oMember[i].status, oMember[i].store>>}
  BY <1>3, <1>4
<1>8. /\ {f.version : f \in TeamFacts} = 2 .. oMerchant
      /\ Cardinality(TeamFacts) = oMerchant - 1
      /\ oMerchants = {a \in Applications : oApplication[a] # None /\ oApplication[a].status = "APPROVED"}
  BY DEF OfficeInv, TeamIsTold, ApplicationsOK
<1>9. Office!OfficeIsInOrder
  BY <1>2, <1>5, <1>6, <1>7, <1>8, OfficeCounts DEF TeamFacts, Office!OfficeIsInOrder
<1>. QED  BY <1>1, <1>9

LEMMA OfficeInit == Office!Init => OfficeInv
<1> SUFFICES ASSUME Office!Init PROVE OfficeInv
  OBVIOUS
<1>1. OfficeRowsOK
  BY OfficeConstants DEF Office!Init, OfficeRowsOK
<1>2. TeamFacts = {}
  BY DEF Office!Init, TeamFacts
<1>3. TeamIsTold
  <2>1. IsFiniteSet({}) /\ Cardinality({}) = 0
    BY FS_EmptySet
  <2>2. 2 .. oMerchant = {} /\ oMerchant - 1 = 0
    BY DEF Office!Init
  <2>. QED  BY <1>2, <2>1, <2>2 DEF TeamIsTold
<1>4. OnTheTeamOnce /\ ApplicationsOK
  BY DEF Office!Init, OnTheTeamOnce, Office!LiveMembers, ApplicationsOK, Office!OpenApplications
<1>5. DefaultsOK(oStore)
  BY DEF Office!Init, DefaultsOK, Office!Defaults, Office!Active
<1>. QED  BY <1>1, <1>2, <1>3, <1>4, <1>5 DEF Office!Init, OfficeInv, RequestHolds, MemberIsTold

\* What a step leaves alone stays right.
LEMMA StaysRight ==
    ASSUME OfficeInv
    PROVE  /\ UNCHANGED oStore => DefaultsOK(oStore)'
           /\ UNCHANGED <<oMember, oMerchant, oFacts>> =>
                 TeamIsTold' /\ (\A i \in Members : MemberIsTold(i)') /\ OnTheTeamOnce'
           /\ UNCHANGED <<oApplication, oMerchants>> => ApplicationsOK'
<1>1. ASSUME UNCHANGED oStore PROVE DefaultsOK(oStore)'
  BY <1>1 DEF OfficeInv, DefaultsOK, Office!Defaults, Office!Active
<1>2. ASSUME UNCHANGED <<oMember, oMerchant, oFacts>>
      PROVE  TeamIsTold' /\ (\A i \in Members : MemberIsTold(i)') /\ OnTheTeamOnce'
  <2>1. TeamFacts' = TeamFacts
    BY <1>2 DEF TeamFacts
  <2>2. TeamIsTold'
    BY <1>2, <2>1 DEF OfficeInv, TeamIsTold
  <2>3. \A i \in Members : MemberIsTold(i)'
    BY <1>2, <2>1 DEF OfficeInv, MemberIsTold
  <2>4. OnTheTeamOnce'
    BY <1>2 DEF OfficeInv, OnTheTeamOnce, Office!LiveMembers
  <2>. QED  BY <2>2, <2>3, <2>4
<1>3. ASSUME UNCHANGED <<oApplication, oMerchants>> PROVE ApplicationsOK'
  BY <1>3 DEF OfficeInv, ApplicationsOK, Office!OpenApplications
<1>. QED  BY <1>1, <1>2, <1>3

StoresGrow ==
    \A s \in Stores : oStore[s] # None =>
        oStore'[s] # None /\ (oStore'[s] = oStore[s] \/ oStore'[s].version > oStore[s].version)

LEMMA RequestsHold ==
    ASSUME OfficeInv, oStore' \in [Stores -> Office!StoreRow \cup {None}], StoresGrow, NEW r \in Requests,
           oRequest'[r] = oRequest[r]
    PROVE  RequestHolds(r)'
<1>1. CASE oRequest[r] = None
  BY <1>1 DEF RequestHolds
<1>2. CASE oRequest[r] # None /\ oRequest[r].kind = "stores"
  <2>1. PICK rows : rows = oRequest[r].rows
    OBVIOUS
  <2>2. StoresRead(rows)
    BY <1>2, <2>1 DEF OfficeInv, RequestHolds
  <2>3. \A row \in Office!StoreRow : row.version \in Nat
    BY OfficeConstants DEF Office!StoreRow
  <2>4. ASSUME NEW s \in Stores, rows[s] # None
        PROVE  /\ oStore'[s] # None /\ rows[s].version <= oStore'[s].version
               /\ rows[s].version = oStore'[s].version => rows[s] = oStore'[s]
    <3>1. /\ oStore[s] # None /\ rows[s].version <= oStore[s].version
          /\ rows[s].version = oStore[s].version => rows[s] = oStore[s]
          /\ rows[s] \in Office!StoreRow /\ oStore[s] \in Office!StoreRow
      BY <2>2, <2>4 DEF StoresRead, OfficeInv, OfficeRowsOK
    <3>2. oStore'[s] # None /\ oStore'[s] \in Office!StoreRow /\ (oStore'[s] = oStore[s] \/ oStore'[s].version > oStore[s].version)
      BY <3>1 DEF StoresGrow
    <3>. QED  BY <2>3, <3>1, <3>2
  <2>5. StoresRead(rows)'
    BY <2>2, <2>4 DEF StoresRead, DefaultsOK, Office!Defaults, Office!Active
  <2>. QED  BY <1>2, <2>1, <2>5 DEF RequestHolds
<1>3. CASE oRequest[r] # None /\ oRequest[r].kind # "stores"
  BY <1>3 DEF OfficeInv, RequestHolds
<1>. QED  BY <1>1, <1>2, <1>3

LEMMA OverHolds ==
    ASSUME OfficeInv, oStore' \in [Stores -> Office!StoreRow \cup {None}], StoresGrow,
           NEW r \in Requests, Office!Over(r)
    PROVE  DOMAIN oRequest' = Requests /\ \A q \in Requests : RequestHolds(q)'
<1>1. oRequest'[r] = None /\ DOMAIN oRequest' = Requests /\ \A q \in Requests : q # r =>
          oRequest'[q] = oRequest[q]
  BY DEF Office!Over, OfficeInv
<1>2. RequestHolds(r)'
  BY <1>1 DEF RequestHolds
<1>. QED  BY <1>1, <1>2, RequestsHold

LEMMA OfficeReads ==
    ASSUME OfficeInv, NEW r \in Requests, NEW row, Office!Reads(r, row), row.kind \in {"stores", "team"},
           row.kind = "stores" => StoresRead(row.rows),
           row.kind = "team" => row.store \in Stores \cup {None}
    PROVE  OfficeInv'
<1>1. /\ oRequest' = [oRequest EXCEPT ![r] = row]
      /\ UNCHANGED <<oApplication, oMerchants, oStore, oMember, oMerchant, oFacts>>
  BY DEF Office!Reads, Office!applying, Office!team
<1>2. oRequest'[r] = row /\ DOMAIN oRequest' = Requests /\ \A q \in Requests : q # r =>
          oRequest'[q] = oRequest[q]
  BY <1>1 DEF OfficeInv
<1>3. oStore' \in [Stores -> Office!StoreRow \cup {None}] /\ StoresGrow
  BY <1>1 DEF OfficeInv, OfficeRowsOK, StoresGrow
<1>4. RequestHolds(r)'
  BY <1>1, <1>2 DEF RequestHolds, StoresRead, DefaultsOK, Office!Defaults, Office!Active
<1>5. \A q \in Requests : RequestHolds(q)'
  BY <1>2, <1>3, <1>4, RequestsHold
<1>. QED  BY <1>1, <1>2, <1>5, StaysRight DEF OfficeInv, OfficeRowsOK

LEMMA ReadingOK ==
    ASSUME OfficeInv, NEW r \in Requests
    PROVE  /\ Office!GiveUp(r) => OfficeInv'
           /\ Office!BeginStores(r) => OfficeInv'
           /\ \A s \in Stores \cup {None} : Office!BeginTeam(r, s) => OfficeInv'
<1>1. ASSUME Office!GiveUp(r) PROVE OfficeInv'
  <2>1. UNCHANGED <<oApplication, oMerchants, oStore, oMember, oMerchant, oFacts>>
    BY <1>1 DEF Office!GiveUp, Office!applying, Office!team
  <2>2. DOMAIN oRequest' = Requests /\ \A q \in Requests : RequestHolds(q)'
    BY <1>1, <2>1, OverHolds DEF Office!GiveUp, OfficeInv, OfficeRowsOK, StoresGrow
  <2>. QED  BY <2>1, <2>2, StaysRight DEF OfficeInv, OfficeRowsOK
<1>2. ASSUME Office!BeginStores(r) PROVE OfficeInv'
  <2>1. PICK row : row = [kind |-> "stores", rows |-> oStore]
    OBVIOUS
  <2>2. row.kind = "stores" /\ row.rows = oStore
    BY <2>1
  <2>3. StoresRead(oStore)
    <3>1. \A s \in Stores : oStore[s] # None => oStore[s].version \in Nat
      BY OfficeConstants DEF OfficeInv, OfficeRowsOK, Office!StoreRow
    <3>. QED  BY <3>1 DEF OfficeInv, OfficeRowsOK, StoresRead
  <2>. QED  BY <1>2, <2>1, <2>2, <2>3, OfficeReads DEF Office!BeginStores
<1>3. ASSUME NEW s \in Stores \cup {None}, Office!BeginTeam(r, s) PROVE OfficeInv'
  <2>1. PICK row : row = [kind |-> "team", version |-> oMerchant, store |-> s]
    OBVIOUS
  <2>2. row.kind = "team" /\ row.store = s
    BY <2>1
  <2>. QED  BY <1>3, <2>1, <2>2, OfficeReads DEF Office!BeginTeam
<1>. QED  BY <1>1, <1>2, <1>3

\* Steps on applications alone, where no row of another table changes.
LEMMA ApplicationOK ==
    ASSUME OfficeInv, NEW a \in Applications, NEW row \in Office!ApplicationRow,
           oApplication' = [oApplication EXCEPT ![a] = row], UNCHANGED <<oStore, oMember, oMerchant, oRequest>>,
           oFacts' \subseteq oFacts \cup {[kind |-> "APPLICATION", about |-> a, status |-> row.status, store |-> None,
                                         version |-> row.version]},
           oFacts \subseteq oFacts',
           oMerchants' = IF row.status = "APPROVED" THEN oMerchants \cup {a} ELSE oMerchants,
           oApplication[a] # None => oApplication[a].status # "APPROVED",
           Office!OnwardOf(row.status) # {} => Office!OpenApplications \subseteq {a}
    PROVE  OfficeInv'
<1>1. oApplication'[a] = row /\ row # None /\ (\A b \in Applications : b # a => oApplication'[b] = oApplication[b])
  BY OfficeConstants DEF OfficeInv, OfficeRowsOK
<1>2. PICK told : told = [kind |-> "APPLICATION", about |-> a, status |-> row.status, store |-> None,
                          version |-> row.version]
  OBVIOUS
<1>3. told.kind = "APPLICATION" /\ told.version \in 1 .. MaxVersion /\ oFacts' \subseteq oFacts \cup {told}
  BY <1>2 DEF Office!ApplicationRow
<1>4. OfficeRowsOK'
  BY <1>1, <1>3 DEF OfficeInv, OfficeRowsOK
<1>5. TeamFacts' = TeamFacts
  BY <1>3 DEF TeamFacts
<1>6. \A r \in Requests : RequestHolds(r)'
  BY RequestsHold DEF OfficeInv, OfficeRowsOK, StoresGrow
<1>7. (\A b, c \in Office!OpenApplications : b = c)'
  <2>1. Office!OpenApplications' \subseteq Office!OpenApplications \cup {a}
    BY <1>1 DEF Office!OpenApplications
  <2>2. CASE Office!OnwardOf(row.status) # {}
    BY <2>1, <2>2
  <2>3. CASE Office!OnwardOf(row.status) = {}
    <3>1. Office!OpenApplications' \subseteq Office!OpenApplications
      BY <1>1, <2>3 DEF Office!OpenApplications
    <3>. QED  BY <3>1 DEF OfficeInv, ApplicationsOK
  <2>. QED  BY <2>2, <2>3
<1>8. oMerchants' = {b \in Applications : oApplication'[b] # None /\ oApplication'[b].status = "APPROVED"}
  BY <1>1 DEF OfficeInv, ApplicationsOK
<1>. QED
  BY <1>4, <1>5, <1>6, <1>7, <1>8
       DEF OfficeInv, DefaultsOK, Office!Defaults, Office!Active, TeamIsTold,
     MemberIsTold, OnTheTeamOnce, Office!LiveMembers, ApplicationsOK

LEMMA StartOK ==
    ASSUME OfficeInv, NEW a \in Applications, Office!StartApplication(a) PROVE OfficeInv'
<1>1. PICK row : row = [status |-> "DRAFT", version |-> 1]
  OBVIOUS
<1>2. row \in Office!ApplicationRow /\ row.status = "DRAFT"
  BY <1>1, OfficeConstants DEF Office!ApplicationRow, Office!Status
<1>. QED  BY <1>1, <1>2, ApplicationOK DEF Office!StartApplication, Office!IsNext, Office!team

LEMMA TransitionOK ==
    ASSUME OfficeInv, NEW a \in Applications, NEW status \in Office!Status, Office!Transition(a, status)
    PROVE OfficeInv'
<1>1. /\ oApplication[a] # None /\ oApplication[a] \in Office!ApplicationRow
      /\ status \in Office!OnwardOf(oApplication[a].status) /\ oApplication[a].version < MaxVersion
  BY DEF Office!Transition, OfficeInv, OfficeRowsOK
<1>2. oApplication[a].version \in 1 .. MaxVersion /\ oApplication[a].status \in Office!Status
  BY <1>1 DEF Office!ApplicationRow
<1>3. PICK given : given = oApplication[a].version + 1
  OBVIOUS
<1>4. given \in 1 .. MaxVersion
  BY <1>1, <1>2, <1>3, OfficeConstants
<1>5. PICK row : row = [status |-> status, version |-> given]
  OBVIOUS
<1>6. row \in Office!ApplicationRow /\ row.status = status /\ row.version = given
  BY <1>4, <1>5 DEF Office!ApplicationRow
<1>7. oApplication' = [oApplication EXCEPT ![a] = row]
  <2>1. oApplication' = [oApplication EXCEPT ![a].status = status, ![a].version = given]
    BY <1>3 DEF Office!Transition
  <2>2. oApplication'[a].status = status /\ oApplication'[a].version = given /\ oApplication'[a] \in Office!ApplicationRow
    BY <1>1, <1>4, <2>1 DEF Office!ApplicationRow, OfficeInv, OfficeRowsOK
  <2>3. oApplication'[a] = row
    BY <1>6, <2>2 DEF Office!ApplicationRow
  <2>. QED  BY <2>1, <2>3 DEF OfficeInv, OfficeRowsOK
<1>8. UNCHANGED <<oStore, oMember, oMerchant, oRequest>>
      /\ oMerchants' = IF row.status = "APPROVED" THEN oMerchants \cup {a} ELSE oMerchants
  BY <1>6 DEF Office!Transition, Office!team
<1>9. oFacts \subseteq oFacts' /\ oFacts' \subseteq oFacts \cup {[kind |-> "APPLICATION", about |-> a, status |-> row.status,
                                                          store |-> None, version |-> row.version]}
  BY <1>3, <1>6 DEF Office!Transition, Office!Decided
<1>10. oApplication[a].status # "APPROVED" /\ a \in Office!OpenApplications
  BY <1>1, <1>2 DEF Office!OnwardOf, Office!OpenApplications, Office!Status
<1>11. Office!OpenApplications \subseteq {a}
  BY <1>10 DEF OfficeInv, ApplicationsOK
<1>. QED  BY <1>6, <1>7, <1>8, <1>9, <1>10, <1>11, ApplicationOK

\* Steps on branches: rows are written under the versions that were read.
LEMMA BranchesOK ==
    ASSUME OfficeInv, oStore' \in [Stores -> Office!StoreRow \cup {None}], StoresGrow,
           UNCHANGED <<oApplication, oMerchants, oMember, oMerchant, oFacts>>, DefaultsOK(oStore'),
           DOMAIN oRequest' = Requests, \A r \in Requests : RequestHolds(r)'
    PROVE  OfficeInv'
<1>1. DefaultsOK(oStore)'
  BY DEF DefaultsOK, Office!Defaults, Office!Active
<1>2. OfficeRowsOK'
  BY DEF OfficeInv, OfficeRowsOK
<1>. QED  BY <1>1, <1>2, StaysRight DEF OfficeInv

LEMMA WriteStoresOK ==
    ASSUME OfficeInv, NEW r \in Requests, Office!Is(r, "stores"),
           NEW rows \in [Stores -> Office!StoreRow \cup {None}],
           Office!WriteStores(r, rows),
           \A s \in Stores : oRequest[r].rows[s] # None => rows[s] # None,
           \A new \in [Stores -> Office!StoreRow \cup {None}] :
              (\A s \in Stores : new[s] = IF rows[s] = oRequest[r].rows[s] THEN oStore[s]
                                          ELSE [rows[s] EXCEPT !.version = Office!Version(oRequest[r].rows[s]) + 1])
                 => Office!Defaults(new) # {}
    PROVE  OfficeInv'
<1>1. PICK old : old = oRequest[r].rows
  OBVIOUS
<1>2. StoresRead(old)
  BY <1>1 DEF Office!Is, OfficeInv, RequestHolds
<1>3. PICK new : new = [s \in Stores |-> IF rows[s] = old[s] THEN oStore[s]
                                         ELSE [rows[s] EXCEPT !.version = Office!Version(old[s]) + 1]]
  OBVIOUS
<1>4. /\ \A s \in Stores : rows[s] # old[s] =>
             ~Office!Conflicts(s, old[s]) /\ Office!Version(old[s]) < MaxVersion
      /\ Cardinality(Office!Defaults(new)) <= 1 /\ oStore' = new /\ Office!Over(r)
      /\ UNCHANGED <<oApplication, oMerchants, oMember, oMerchant, oFacts>>
  BY <1>1, <1>3, OfficeCounts DEF Office!WriteStores, Office!applying, Office!team
<1>5. \A row \in Office!StoreRow : row.version \in Nat /\ row.version >= 1
  BY OfficeConstants DEF Office!StoreRow
<1>6. ASSUME NEW s \in Stores, rows[s] # old[s]
      PROVE  /\ new[s] \in Office!StoreRow /\ new[s].version = Office!Version(old[s]) + 1
             /\ Office!Version(old[s]) \in Nat /\ Office!Version(oStore[s]) = Office!Version(old[s])
             /\ new[s].default = rows[s].default /\ new[s].archived = rows[s].archived
  <2>1. rows[s] \in Office!StoreRow
    BY <1>1, <1>2, <1>6 DEF StoresRead
  <2>2. Office!Version(old[s]) \in Nat /\ Office!Version(old[s]) < MaxVersion
    BY <1>2, <1>4, <1>5, <1>6 DEF StoresRead, Office!Version
  <2>3. PICK v : v = Office!Version(old[s]) + 1
    OBVIOUS
  <2>4. v \in 1 .. MaxVersion
    BY <2>2, <2>3, OfficeConstants
  <2>5. new[s] = [rows[s] EXCEPT !.version = v]
    BY <1>3, <1>6, <2>3
  <2>6. new[s] \in Office!StoreRow /\ new[s].version = v /\ new[s].default = rows[s].default
        /\ new[s].archived = rows[s].archived
    BY <2>1, <2>4, <2>5 DEF Office!StoreRow
  <2>. QED  BY <1>4, <1>6, <2>2, <2>3, <2>6 DEF Office!Conflicts
<1>7. new \in [Stores -> Office!StoreRow \cup {None}]
  <2>1. \A s \in Stores : new[s] \in Office!StoreRow \cup {None}
    BY <1>3, <1>6 DEF OfficeInv, OfficeRowsOK
  <2>. QED  BY <1>3, <2>1
<1>8. StoresGrow
  <2>1. ASSUME NEW s \in Stores, oStore[s] # None
        PROVE  new[s] # None /\ (new[s] = oStore[s] \/ new[s].version > oStore[s].version)
    <3>1. CASE rows[s] = old[s]
      BY <1>3, <2>1, <3>1
    <3>2. CASE rows[s] # old[s]
      BY <1>6, <2>1, <3>2, OfficeConstants DEF Office!Version
    <3>. QED  BY <3>1, <3>2
  <2>. QED  BY <1>4, <2>1 DEF StoresGrow
<1>9. \A s, t \in Office!Defaults(new) : s = t
  <2>1. Office!Defaults(new) \subseteq Stores
    BY <1>3 DEF Office!Defaults, Office!Active
  <2>2. IsFiniteSet(Office!Defaults(new))
    BY <2>1, OfficeConstants, FS_Subset
  <2>3. ASSUME NEW s \in Office!Defaults(new), NEW t \in Office!Defaults(new), s # t PROVE FALSE
    <3>1. Cardinality({s, t}) <= Cardinality(Office!Defaults(new)) /\ {s, t} \subseteq Office!Defaults(new)
      BY <2>2, <2>3, FS_Subset
    <3>2. Cardinality({s, t}) = 2
      <4>1. IsFiniteSet({s}) /\ Cardinality({s}) = 1 /\ t \notin {s} /\ {s, t} = {s} \cup {t}
        BY <2>3, FS_Singleton
      <4>2. Cardinality({s} \cup {t}) = Cardinality({s}) + 1
        BY <4>1, FS_AddElement
      <4>. QED  BY <4>1, <4>2
    <3>3. Cardinality(Office!Defaults(new)) \in Nat
      BY <2>2, FS_CardinalityType
    <3>. QED  BY <1>4, <3>1, <3>2, <3>3
  <2>. QED  BY <2>3
<1>10. Office!Defaults(new) # {}
  <2>1. \A s \in Stores : new[s] = IF rows[s] = oRequest[r].rows[s] THEN oStore[s]
                                   ELSE [rows[s] EXCEPT !.version = Office!Version(oRequest[r].rows[s]) + 1]
    BY <1>1, <1>3
  <2>. QED  BY <1>7, <2>1
<1>11. DefaultsOK(oStore')
  BY <1>4, <1>9, <1>10 DEF DefaultsOK
<1>12. DOMAIN oRequest' = Requests /\ \A q \in Requests : RequestHolds(q)'
  BY <1>4, <1>7, <1>8, OverHolds
<1>. QED  BY <1>4, <1>7, <1>8, <1>11, <1>12, BranchesOK

\* The rows with their default branch, if there is one, made an ordinary one.
LEMMA DemoteIs ==
    ASSUME NEW rows \in [Stores -> Office!StoreRow \cup {None}]
    PROVE  /\ Office!Demote(rows) \in [Stores -> Office!StoreRow \cup {None}]
           /\ \A s \in Stores :
                 /\ s \notin Office!Defaults(rows) => Office!Demote(rows)[s] = rows[s]
                 /\ rows[s] # None => /\ Office!Demote(rows)[s] # None
                                      /\ Office!Demote(rows)[s].archived = rows[s].archived
<1>1. ASSUME NEW s \in Stores, s \in Office!Defaults(rows)
      PROVE  /\ Office!Demote(rows)[s] \in Office!StoreRow /\ ~Office!Demote(rows)[s].default
             /\ Office!Demote(rows)[s].archived = rows[s].archived
  <2>1. rows[s] \in Office!StoreRow
    BY <1>1 DEF Office!Defaults, Office!Active
  <2>2. Office!Demote(rows)[s] = [rows[s] EXCEPT !.default = FALSE]
    BY <1>1 DEF Office!Demote
  <2>. QED  BY <2>1, <2>2 DEF Office!StoreRow
<1>2. \A s \in Stores : s \notin Office!Defaults(rows) => Office!Demote(rows)[s] = rows[s]
  BY DEF Office!Demote
<1>3. Office!Demote(rows) \in [Stores -> Office!StoreRow \cup {None}]
  <2>1. \A s \in Stores : Office!Demote(rows)[s] \in Office!StoreRow \cup {None}
    BY <1>1, <1>2
  <2>2. DOMAIN Office!Demote(rows) = Stores /\ Office!Demote(rows) = [s \in Stores |-> Office!Demote(rows)[s]]
    BY DEF Office!Demote
  <2>. QED  BY <2>1, <2>2
<1>. QED  BY <1>1, <1>2, <1>3, OfficeConstants DEF Office!Defaults

LEMMA CreateStoreOK ==
    ASSUME OfficeInv, NEW r \in Requests, NEW s \in Stores, NEW asked \in BOOLEAN,
           Office!CreateStore(r, s, asked)
    PROVE  OfficeInv'
<1>1. PICK old : old = oRequest[r].rows
  OBVIOUS
<1>2. StoresRead(old) /\ oStore[s] = None /\ old[s] = None /\ Office!Is(r, "stores")
  BY <1>1 DEF Office!CreateStore, Office!Is, Office!IsNext, OfficeInv, RequestHolds
<1>3. PICK isDefault : isDefault = (asked \/ Office!Active(old) = {})
  OBVIOUS
<1>4. isDefault \in BOOLEAN
  BY <1>3
<1>5. PICK row : row = [default |-> isDefault, archived |-> FALSE, version |-> 1]
  OBVIOUS
<1>6. row \in Office!StoreRow /\ row.default = isDefault /\ row.archived = FALSE /\ row.version = 1 /\ row # None
  <2>1. 1 \in 1 .. MaxVersion
    BY OfficeConstants
  <2>2. row \in Office!StoreRow
    BY <1>4, <1>5, <2>1 DEF Office!StoreRow
  <2>. QED  BY <1>5, <2>2, OfficeConstants
<1>7. PICK rows : rows = [(IF isDefault THEN Office!Demote(old) ELSE old) EXCEPT ![s] = row]
  OBVIOUS
<1>8. Office!WriteStores(r, rows)
  BY <1>1, <1>3, <1>5, <1>7 DEF Office!CreateStore
<1>9. rows \in [Stores -> Office!StoreRow \cup {None}] /\ rows[s] = row
      /\ \A t \in Stores : old[t] # None => rows[t] # None
  BY <1>2, <1>6, <1>7, DemoteIs DEF StoresRead
<1>10. ~isDefault => \A t \in Stores : t # s => rows[t] = old[t]
  BY <1>2, <1>7 DEF StoresRead
<1>11. ASSUME NEW new \in [Stores -> Office!StoreRow \cup {None}],
              \A t \in Stores : new[t] = IF rows[t] = old[t] THEN oStore[t]
                                         ELSE [rows[t] EXCEPT !.version = Office!Version(old[t]) + 1]
       PROVE  Office!Defaults(new) # {}
  <2>1. CASE isDefault
    <3>1. new[s] = [row EXCEPT !.version = 1]
      BY <1>2, <1>6, <1>9, <1>11 DEF Office!Version
    <3>2. new[s] = row
      BY <1>5, <3>1
    <3>3. s \in Office!Defaults(new)
      BY <1>6, <2>1, <3>2 DEF Office!Defaults, Office!Active
    <3>. QED  BY <3>3
  <2>2. CASE ~isDefault
    <3>1. PICK t \in Office!Active(old) : TRUE
      BY <1>3, <2>2
    <3>2. t \in Stores /\ oStore[t] # None
      BY <1>2, <3>1 DEF Office!Active, StoresRead
    <3>3. PICK d \in Office!Defaults(oStore) : TRUE
      BY <3>2 DEF OfficeInv, DefaultsOK
    <3>4. d \in Stores /\ d # s /\ oStore[d] # None /\ ~oStore[d].archived /\ oStore[d].default
      BY <1>2, <3>3 DEF Office!Defaults, Office!Active, OfficeInv, OfficeRowsOK
    <3>5. new[d] = oStore[d]
      BY <1>10, <1>11, <2>2, <3>4
    <3>. QED  BY <3>4, <3>5 DEF Office!Defaults, Office!Active
  <2>. QED  BY <1>4, <2>1, <2>2
<1>. QED  BY <1>1, <1>2, <1>8, <1>9, <1>11, WriteStoresOK

LEMMA OfficeSetDefaultOK ==
    ASSUME OfficeInv, NEW r \in Requests, NEW s \in Stores, Office!SetDefaultPickup(r, s)
    PROVE  OfficeInv'
<1>1. PICK old : old = oRequest[r].rows
  OBVIOUS
<1>2. StoresRead(old) /\ Office!Is(r, "stores") /\ s \in Office!Active(old) /\ s \notin Office!Defaults(old)
  BY <1>1 DEF Office!SetDefaultPickup, Office!Is, OfficeInv, RequestHolds
<1>3. PICK demoted : demoted = Office!Demote(old)
  OBVIOUS
<1>4. /\ demoted \in [Stores -> Office!StoreRow \cup {None}] /\ demoted[s] = old[s]
      /\ \A t \in Stores : old[t] # None => demoted[t] # None
  BY <1>2, <1>3, DemoteIs DEF StoresRead
<1>5. PICK rows : rows = [demoted EXCEPT ![s].default = TRUE]
  OBVIOUS
<1>6. Office!WriteStores(r, rows)
  BY <1>1, <1>3, <1>5 DEF Office!SetDefaultPickup
<1>7. old[s] \in Office!StoreRow /\ old[s] # None /\ old[s].archived = FALSE /\ old[s].default = FALSE
  BY <1>2 DEF StoresRead, Office!Defaults, Office!Active, Office!StoreRow
<1>8. rows[s] \in Office!StoreRow /\ rows[s].default = TRUE /\ rows[s].archived = FALSE
  BY <1>4, <1>5, <1>7 DEF Office!StoreRow
<1>9. rows \in [Stores -> Office!StoreRow \cup {None}] /\ \A t \in Stores : old[t] # None =>
          rows[t] # None
  BY <1>4, <1>5, <1>8, OfficeConstants
<1>10. ASSUME NEW new \in [Stores -> Office!StoreRow \cup {None}],
              \A t \in Stores : new[t] = IF rows[t] = old[t] THEN oStore[t]
                                         ELSE [rows[t] EXCEPT !.version = Office!Version(old[t]) + 1]
       PROVE  Office!Defaults(new) # {}
  <2>1. new[s] = [rows[s] EXCEPT !.version = Office!Version(old[s]) + 1]
    BY <1>7, <1>8, <1>10
  <2>2. new[s].default = TRUE /\ new[s].archived = FALSE /\ new[s] # None
    <3>1. new[s].default = TRUE /\ new[s].archived = FALSE
      BY <1>8, <2>1 DEF Office!StoreRow
    <3>2. new[s] # None
      <4>1. Office!Version(old[s]) + 1 \in 1 .. MaxVersion
        BY <1>1, <1>6, <1>7, <1>8, OfficeConstants
             DEF Office!WriteStores, Office!Version, Office!StoreRow
      <4>2. new[s] \in Office!StoreRow
        BY <1>8, <2>1, <4>1 DEF Office!StoreRow
      <4>. QED  BY <4>2, OfficeConstants
    <3>. QED  BY <3>1, <3>2
  <2>. QED  BY <1>2, <2>2 DEF Office!Defaults, Office!Active, StoresRead
<1>. QED  BY <1>1, <1>2, <1>6, <1>9, <1>10, WriteStoresOK

LEMMA ArchiveStoreOK ==
    ASSUME OfficeInv, NEW r \in Requests, NEW s \in Stores, NEW promoted \in Stores,
           Office!ArchiveStore(r, s, promoted)
    PROVE  OfficeInv'
<1>1. PICK old : old = oRequest[r].rows
  OBVIOUS
<1>2. /\ StoresRead(old) /\ Office!Is(r, "stores") /\ s \in Office!Active(old) /\ promoted \in Office!Active(old) /\ s # promoted
  BY <1>1 DEF Office!ArchiveStore, Office!Is, OfficeInv, RequestHolds
<1>3. /\ old[s] \in Office!StoreRow /\ old[s] # None /\ old[s].archived = FALSE
      /\ old[promoted] \in Office!StoreRow /\ old[promoted] # None /\ old[promoted].archived = FALSE
  BY <1>2 DEF StoresRead, Office!Active, Office!StoreRow
<1>4. PICK gone : gone = [old EXCEPT ![s].archived = TRUE, ![s].default = FALSE]
  OBVIOUS
<1>5. /\ gone[s] \in Office!StoreRow /\ gone[s].archived = TRUE /\ gone[s].default = FALSE
      /\ DOMAIN gone = Stores /\ \A t \in Stores : t # s => gone[t] = old[t]
  BY <1>2, <1>3, <1>4 DEF StoresRead, Office!StoreRow
<1>6. gone \in [Stores -> Office!StoreRow \cup {None}]
  BY <1>2, <1>4, <1>5 DEF StoresRead
<1>7. PICK rows : rows = IF old[s].default THEN [gone EXCEPT ![promoted].default = TRUE] ELSE gone
  OBVIOUS
<1>8. Office!WriteStores(r, rows)
  BY <1>1, <1>4, <1>7 DEF Office!ArchiveStore
<1>9. /\ rows[s] = gone[s] /\ \A t \in Stores : t # s /\ t # promoted => rows[t] = old[t]
      /\ rows[promoted] \in Office!StoreRow /\ rows[promoted].archived = FALSE
      /\ old[s].default => rows[promoted].default
      /\ ~old[s].default => rows[promoted] = old[promoted]
  BY <1>2, <1>3, <1>5, <1>6, <1>7 DEF Office!StoreRow
<1>10. rows \in [Stores -> Office!StoreRow \cup {None}] /\ \A t \in Stores : old[t] # None =>
           rows[t] # None
  <2>1. \A t \in Stores : rows[t] \in Office!StoreRow \cup {None} /\ (old[t] # None => rows[t] # None)
    BY <1>2, <1>5, <1>9, OfficeConstants DEF StoresRead
  <2>. QED  BY <1>6, <1>7, <2>1
<1>11. rows[s] # old[s] /\ oStore[s] = old[s]
  <2>1. rows[s] # old[s]
    BY <1>3, <1>5, <1>9
  <2>2. ~Office!Conflicts(s, old[s])
    BY <1>1, <1>8, <2>1 DEF Office!WriteStores
  <2>. QED  BY <1>2, <1>3, <2>1, <2>2 DEF Office!Conflicts, Office!Version, StoresRead
<1>12. ASSUME NEW new \in [Stores -> Office!StoreRow \cup {None}],
              \A t \in Stores : new[t] = IF rows[t] = old[t] THEN oStore[t]
                                         ELSE [rows[t] EXCEPT !.version = Office!Version(old[t]) + 1]
       PROVE  Office!Defaults(new) # {}
  <2>1. CASE old[s].default
    <3>1. ~old[promoted].default
      BY <1>2, <1>3, <2>1 DEF StoresRead, DefaultsOK, Office!Defaults, Office!Active
    <3>2. rows[promoted] # old[promoted]
      BY <1>9, <2>1, <3>1
    <3>3. new[promoted] = [rows[promoted] EXCEPT !.version = Office!Version(old[promoted]) + 1]
      BY <1>12, <3>2
    <3>4. Office!Version(old[promoted]) + 1 \in 1 .. MaxVersion
      BY <1>1, <1>3, <1>8, <3>2, OfficeConstants
           DEF Office!WriteStores, Office!Version, Office!StoreRow
    <3>5. new[promoted] \in Office!StoreRow /\ new[promoted].default = TRUE /\ new[promoted].archived = FALSE
      BY <1>9, <2>1, <3>3, <3>4 DEF Office!StoreRow
    <3>6. promoted \in Office!Defaults(new)
      BY <1>2, <3>5, OfficeConstants DEF Office!Defaults, Office!Active, StoresRead
    <3>. QED  BY <3>6
  <2>2. CASE ~old[s].default
    <3>1. oStore[s] # None
      BY <1>3, <1>11
    <3>2. PICK d \in Office!Defaults(oStore) : TRUE
      BY <3>1 DEF OfficeInv, DefaultsOK
    <3>3. d \in Stores /\ d # s /\ oStore[d] # None /\ ~oStore[d].archived /\ oStore[d].default
      BY <1>11, <2>2, <3>2 DEF Office!Defaults, Office!Active, OfficeInv, OfficeRowsOK
    <3>4. new[d] = oStore[d]
      BY <1>9, <1>12, <2>2, <3>3
    <3>. QED  BY <3>3, <3>4 DEF Office!Defaults, Office!Active
  <2>. QED  BY <2>1, <2>2
<1>. QED  BY <1>1, <1>2, <1>8, <1>10, <1>12, WriteStoresOK

LEMMA UpdateStoreOK ==
    ASSUME OfficeInv, NEW s \in Stores, Office!UpdateStore(s) PROVE OfficeInv'
<1>1. oStore[s] # None /\ oStore[s] \in Office!StoreRow /\ oStore[s].version < MaxVersion
  BY DEF Office!UpdateStore, Office!Active, OfficeInv, OfficeRowsOK
<1>2. PICK v : v = oStore[s].version + 1
  OBVIOUS
<1>3. v \in 1 .. MaxVersion /\ v > oStore[s].version /\ oStore[s].version \in Nat
  BY <1>1, <1>2, OfficeConstants DEF Office!StoreRow
<1>4. oStore' = [oStore EXCEPT ![s].version = v] /\ UNCHANGED <<oApplication, oMerchants, oMember, oMerchant, oFacts, oRequest>>
  BY <1>2 DEF Office!UpdateStore, Office!applying, Office!team
<1>5. /\ oStore'[s] \in Office!StoreRow /\ oStore'[s].version = v /\ oStore'[s].default = oStore[s].default
      /\ oStore'[s].archived = oStore[s].archived /\ \A t \in Stores : t # s => oStore'[t] = oStore[t]
      /\ DOMAIN oStore' = Stores
  BY <1>1, <1>3, <1>4 DEF Office!StoreRow, OfficeInv, OfficeRowsOK
<1>6. oStore' \in [Stores -> Office!StoreRow \cup {None}]
  BY <1>4, <1>5 DEF OfficeInv, OfficeRowsOK
<1>7. oStore'[s] # None /\ StoresGrow
  BY <1>3, <1>5, OfficeConstants DEF StoresGrow
<1>8. Office!Defaults(oStore') = Office!Defaults(oStore)
  BY <1>1, <1>5, <1>7 DEF Office!Defaults, Office!Active, OfficeInv, OfficeRowsOK
<1>9. DefaultsOK(oStore')
  BY <1>1, <1>8 DEF OfficeInv, DefaultsOK
<1>10. \A r \in Requests : RequestHolds(r)'
  BY <1>4, <1>6, <1>7, RequestsHold
<1>. QED  BY <1>4, <1>6, <1>7, <1>9, <1>10, BranchesOK DEF OfficeInv

\* A change of the team: the row of one member, its fact, a new version.
LEMMA WriteMemberOK ==
    ASSUME OfficeInv, NEW r \in Requests, NEW i \in Members, NEW row \in Office!MemberRow,
           Office!WriteMember(r, i, row),
           row.status \in {"PENDING", "ACTIVE"} =>
              Office!LiveMembers(row.phone) \subseteq {i}
    PROVE  OfficeInv'
<1>1. /\ oMerchant < MaxVersion /\ oMerchant' = oMerchant + 1
      /\ oMember' = [oMember EXCEPT ![i] = row] /\ Office!Over(r) /\ UNCHANGED <<oApplication, oMerchants, oStore>>
  BY DEF Office!WriteMember, Office!Announce, Office!applying
<1>2. PICK n : n = oMerchant + 1
  OBVIOUS
<1>3. n \in 1 .. MaxVersion /\ n = oMerchant' /\ oMerchant \in Nat /\ oMerchant >= 1 /\ n \in Nat
  BY <1>1, <1>2, OfficeConstants DEF OfficeInv, OfficeRowsOK
<1>4. PICK f : f = [kind |-> "TEAM", about |-> i, status |-> row.status, store |-> row.store, version |-> n]
  OBVIOUS
<1>5. /\ oFacts' = oFacts \cup {f} /\ f.kind = "TEAM" /\ f.about = i /\ f.status = row.status
      /\ f.store = row.store /\ f.version = n
  BY <1>2, <1>4 DEF Office!WriteMember, Office!Announce
<1>6. /\ oMember'[i] = row /\ row # None /\ \A j \in Members : j # i => oMember'[j] = oMember[j]
  BY <1>1, OfficeConstants DEF OfficeInv, OfficeRowsOK
<1>7. TeamFacts' = TeamFacts \cup {f}
  BY <1>5 DEF TeamFacts
<1>8. \A g \in TeamFacts : g.version \in 2 .. oMerchant /\ g.version < n
  <2>1. \A g \in TeamFacts : g.version \in 2 .. oMerchant
    BY DEF OfficeInv, TeamIsTold
  <2>. QED  BY <1>2, <1>3, <2>1
<1>9. f \notin TeamFacts
  BY <1>3, <1>5, <1>8
<1>10. OfficeRowsOK'
  <2>1. oMember' \in [Members -> Office!MemberRow \cup {None}]
    BY <1>1 DEF OfficeInv, OfficeRowsOK
  <2>2. \A g \in oFacts' : g.kind \in {"APPLICATION", "TEAM"} /\ g.version \in 1 .. MaxVersion
    BY <1>3, <1>5 DEF OfficeInv, OfficeRowsOK
  <2>. QED  BY <1>1, <1>3, <2>1, <2>2 DEF OfficeInv, OfficeRowsOK
<1>11. TeamIsTold'
  <2>1. IsFiniteSet(TeamFacts \cup {f}) /\ Cardinality(TeamFacts \cup {f}) = Cardinality(TeamFacts) + 1
    BY <1>9, FS_AddElement DEF OfficeInv, TeamIsTold
  <2>2. Cardinality(TeamFacts \cup {f}) = n - 1
    BY <1>2, <1>3, <2>1 DEF OfficeInv, TeamIsTold
  <2>3. {g.version : g \in TeamFacts \cup {f}} = 2 .. n
    <3>1. {g.version : g \in TeamFacts \cup {f}} = (2 .. oMerchant) \cup {n}
      BY <1>5 DEF OfficeInv, TeamIsTold
    <3>2. (2 .. oMerchant) \cup {n} = 2 .. n
      BY <1>2, <1>3
    <3>. QED  BY <3>1, <3>2
  <2>4. \A g, h \in TeamFacts \cup {f} : g.version = h.version => g = h
    BY <1>3, <1>5, <1>8 DEF OfficeInv, TeamIsTold
  <2>. QED  BY <1>3, <1>7, <2>1, <2>2, <2>3, <2>4 DEF TeamIsTold
<1>12. MemberIsTold(i)'
  <2>1. \A g \in TeamFacts' : g.version <= n
    BY <1>3, <1>5, <1>7, <1>8
  <2>. QED  BY <1>5, <1>6, <1>7, <2>1 DEF MemberIsTold
<1>13. \A j \in Members : j # i => MemberIsTold(j)'
  BY <1>5, <1>6, <1>7 DEF OfficeInv, MemberIsTold
<1>14. OnTheTeamOnce'
  <2>1. ASSUME NEW phone \in Invited, NEW j \in Office!LiveMembers(phone)',
               NEW k \in Office!LiveMembers(phone)'
        PROVE j = k
    <3>1. /\ j # i => j \in Office!LiveMembers(phone)
          /\ k # i => k \in Office!LiveMembers(phone)
      BY <1>6, <2>1 DEF Office!LiveMembers
    <3>2. i \in Office!LiveMembers(phone)' => row.phone = phone /\ row.status \in {"PENDING", "ACTIVE"}
      BY <1>6 DEF Office!LiveMembers
    <3>. QED  BY <2>1, <3>1, <3>2 DEF OfficeInv, OnTheTeamOnce
  <2>. QED  BY <2>1 DEF OnTheTeamOnce
<1>15. ApplicationsOK' /\ DefaultsOK(oStore)'
  BY <1>1
       DEF OfficeInv, ApplicationsOK, Office!OpenApplications, DefaultsOK, Office!Defaults,
           Office!Active
<1>16. DOMAIN oRequest' = Requests /\ \A q \in Requests : RequestHolds(q)'
  BY <1>1, OverHolds DEF OfficeInv, OfficeRowsOK, StoresGrow
<1>. QED  BY <1>10, <1>11, <1>12, <1>13, <1>14, <1>15, <1>16 DEF OfficeInv

LEMMA TeamOK ==
    ASSUME OfficeInv, NEW r \in Requests, NEW i \in Members
    PROVE  /\ \A phone \in Invited : Office!Invite(r, i, phone) => OfficeInv'
           /\ \A status \in {"ACTIVE", "DECLINED"} : Office!Respond(r, i, status) => OfficeInv'
           /\ Office!UpdateBranches(r, i) => OfficeInv'
           /\ Office!Remove(r, i) => OfficeInv'
<1>0. /\ oMember[i] # None => oMember[i] \in Office!MemberRow
      /\ Office!Is(r, "team") => oRequest[r].store \in Stores \cup {None}
  BY DEF OfficeInv, OfficeRowsOK, RequestHolds, Office!Is
<1>1. ASSUME NEW phone \in Invited, Office!Invite(r, i, phone) PROVE OfficeInv'
  <2>1. PICK row : row = [phone |-> phone, store |-> oRequest[r].store, status |-> "PENDING"]
    OBVIOUS
  <2>2. row \in Office!MemberRow /\ row.phone = phone
    BY <1>0, <1>1, <2>1 DEF Office!MemberRow, Office!Invite
  <2>. QED  BY <1>1, <2>1, <2>2, WriteMemberOK DEF Office!Invite
<1>2. ASSUME NEW status \in {"ACTIVE", "DECLINED"}, Office!Respond(r, i, status) PROVE OfficeInv'
  <2>1. PICK row : row = [oMember[i] EXCEPT !.status = status]
    OBVIOUS
  <2>2. row \in Office!MemberRow /\ row.phone = oMember[i].phone /\ Office!WriteMember(r, i, row) /\ row.phone \in Invited
    BY <1>0, <1>2, <2>1 DEF Office!MemberRow, Office!Respond
  <2>3. i \in Office!LiveMembers(row.phone)
    BY <1>2, <2>2 DEF Office!Respond, Office!LiveMembers
  <2>. QED  BY <2>2, <2>3, WriteMemberOK DEF OfficeInv, OnTheTeamOnce
<1>3. ASSUME Office!UpdateBranches(r, i) PROVE OfficeInv'
  <2>1. PICK row : row = [oMember[i] EXCEPT !.store = oRequest[r].store]
    OBVIOUS
  <2>2. row \in Office!MemberRow /\ row.phone = oMember[i].phone /\ row.status = oMember[i].status
        /\ Office!WriteMember(r, i, row) /\ row.phone \in Invited
    BY <1>0, <1>3, <2>1 DEF Office!MemberRow, Office!UpdateBranches
  <2>3. row.status \in {"PENDING", "ACTIVE"} => i \in Office!LiveMembers(row.phone)
    BY <1>3, <2>2 DEF Office!UpdateBranches, Office!LiveMembers
  <2>. QED  BY <2>2, <2>3, WriteMemberOK DEF OfficeInv, OnTheTeamOnce
<1>4. ASSUME Office!Remove(r, i) PROVE OfficeInv'
  <2>1. PICK row : row = [oMember[i] EXCEPT !.status = "REMOVED"]
    OBVIOUS
  <2>2. row \in Office!MemberRow /\ row.status = "REMOVED" /\ Office!WriteMember(r, i, row)
    BY <1>0, <1>4, <2>1 DEF Office!MemberRow, Office!Remove
  <2>. QED  BY <2>2, WriteMemberOK
<1>. QED  BY <1>1, <1>2, <1>3, <1>4

LEMMA OfficeStep == OfficeInv /\ [Office!Next]_(Office!vars) => OfficeInv'
<1> SUFFICES ASSUME OfficeInv, [Office!Next]_(Office!vars) PROVE OfficeInv'
  OBVIOUS
<1>1. CASE UNCHANGED Office!vars
  <2>1. UNCHANGED <<oApplication, oMerchants, oStore, oMember, oMerchant, oFacts, oRequest>>
    BY <1>1 DEF Office!vars, Office!applying, Office!team
  <2>2. \A r \in Requests : RequestHolds(r)'
    BY <2>1, RequestsHold DEF OfficeInv, OfficeRowsOK, StoresGrow
  <2>. QED  BY <2>1, <2>2, StaysRight DEF OfficeInv, OfficeRowsOK
<1>. QED
  BY <1>1, StartOK, TransitionOK, UpdateStoreOK, ReadingOK, CreateStoreOK, OfficeSetDefaultOK,
       ArchiveStoreOK, TeamOK
     DEF Office!Next

-----------------------------------------------------------------------------
(* MerchantShelf. ShelfInv: a request saw its category open and its printer *)
(* active; what no race orphaned is counted.                                *)

LEMMA ShelfCounts == \A S : Shelf!Cardinality(S) = Cardinality(S)
  BY Zenon DEF Cardinality, IsFiniteSet, Shelf!Cardinality, Shelf!IsFiniteSet

\* A request that looked at a category saw it open, and its printer active;
\* one that deletes found no products.
LookedAt(r) ==
    /\ hRequest[r].kind \in {"create", "update", "delete", "print", "consume"}
    /\ hRequest[r].kind = "delete" => hRequest[r].row.products = {}
    /\ hRequest[r].kind \in {"create", "update"} =>
          /\ hRequest[r].row.category \in Categories \cup {None}
          /\ hRequest[r].row.category # None => ~hRequest[r].row.seen.archived
    /\ hRequest[r].kind = "print" => hRequest[r].row.active

\* The row it means to write over is still there; a batch is as it was read,
\* or its version is higher.
WritesOver(r) ==
    /\ hRequest[r].kind = "delete" => hRequest[r].of \in Categories /\ hCategory[hRequest[r].of] # None
    /\ hRequest[r].kind = "update" => hRequest[r].of \in Products /\ hProduct[hRequest[r].of] # None
    /\ hRequest[r].kind = "consume" =>
          /\ hRequest[r].of \in Batches /\ hBatch[hRequest[r].of] # None
          /\ hRequest[r].row \in Shelf!BatchRow
          /\ hRequest[r].row.version <= hBatch[hRequest[r].of].version
          /\ hRequest[r].row.version = hBatch[hRequest[r].of].version =>
                hRequest[r].row = hBatch[hRequest[r].of]

ShelfRowsOK ==
    /\ hCategory \in [Categories -> Shelf!CategoryRow \cup {None}]
    /\ hProduct \in [Products -> Shelf!ProductRow \cup {None}]
    /\ hPrinter \in [Printers -> Shelf!PrinterRow \cup {None}]
    /\ hBatch \in [Batches -> Shelf!BatchRow \cup {None}]

EachIsCounted ==
    /\ DOMAIN hDrawn = Batches
    /\ \A b \in Batches : hDrawn[b] = (IF hBatch[b] = None THEN 0 ELSE hBatch[b].used)

OneOpenName ==
    \A c, d \in Categories :
        Shelf!Open(hCategory[c]) /\ Shelf!Open(hCategory[d]) /\ hCategory[c].name = hCategory[d].name => c = d

ShelfInv ==
    /\ ShelfRowsOK /\ DOMAIN hRequest = Requests
    /\ \A r \in Requests : hRequest[r] # None => LookedAt(r) /\ WritesOver(r)
    /\ EachIsCounted /\ OneOpenName

LEMMA ShelfTells == ShelfInv => Shelf!TypeOK /\ Shelf!ShelfIsCounted
<1> SUFFICES ASSUME ShelfInv PROVE Shelf!TypeOK /\ Shelf!ShelfIsCounted
  OBVIOUS
<1>1. Shelf!TypeOK
  BY DEF ShelfInv, ShelfRowsOK, LookedAt, Shelf!TypeOK
<1>2. \A b \in Batches : hDrawn[b] <= Size
  BY ShelfConstants DEF ShelfInv, ShelfRowsOK, EachIsCounted, Shelf!BatchRow
<1>3. ASSUME NEW name \in Names PROVE Cardinality(Shelf!Taken(name)) <= 1
  <2>1. \A c, d \in Shelf!Taken(name) : c = d
    BY DEF Shelf!Taken, ShelfInv, OneOpenName
  <2>. QED  BY <2>1, AtMostOne
<1>. QED  BY <1>1, <1>2, <1>3, ShelfCounts DEF ShelfInv, EachIsCounted, Shelf!ShelfIsCounted

LEMMA ShelfInit == Shelf!Init => ShelfInv
  BY ShelfConstants DEF Shelf!Init, ShelfInv, ShelfRowsOK, EachIsCounted, OneOpenName, Shelf!Open

\* No row goes away, and a batch is written under a higher version.
ShelfGrows ==
    /\ \A c \in Categories : hCategory[c] # None => hCategory'[c] # None
    /\ \A p \in Products : hProduct[p] # None => hProduct'[p] # None
    /\ \A b \in Batches : hBatch[b] # None =>
          hBatch'[b] # None /\ (hBatch'[b] = hBatch[b] \/ hBatch'[b].version > hBatch[b].version)

LEMMA StillReads ==
    ASSUME ShelfInv, ShelfRowsOK', ShelfGrows, NEW r \in Requests, hRequest[r] # None,
           hRequest'[r] = hRequest[r]
    PROVE  LookedAt(r)' /\ WritesOver(r)'
<1>1. LookedAt(r) /\ WritesOver(r)
  BY DEF ShelfInv
<1>2. PICK row, of, kind : row = hRequest[r].row /\ of = hRequest[r].of /\ kind = hRequest[r].kind
  OBVIOUS
<1>3. kind = "consume" =>
          /\ of \in Batches /\ hBatch[of] # None
          /\ row \in Shelf!BatchRow
          /\ row.version <= hBatch[of].version
          /\ row.version = hBatch[of].version => row = hBatch[of]
  BY <1>1, <1>2 DEF WritesOver
<1>4. \A b \in Batches : /\ hBatch[b] # None => hBatch[b].version \in Nat
                         /\ hBatch'[b] # None => hBatch'[b].version \in Nat
  BY ShelfConstants DEF ShelfInv, ShelfRowsOK, Shelf!BatchRow
<1>5. \A rw \in Shelf!BatchRow : rw.version \in Nat
  BY ShelfConstants DEF Shelf!BatchRow
<1>6. kind = "consume" =>
          /\ of \in Batches /\ hBatch'[of] # None
          /\ row \in Shelf!BatchRow
          /\ row.version <= hBatch'[of].version
          /\ row.version = hBatch'[of].version => row = hBatch'[of]
  BY <1>3, <1>4, <1>5 DEF ShelfGrows
<1>. QED  BY <1>1, <1>2, <1>6 DEF LookedAt, WritesOver, ShelfGrows

\* A request that is over, and one that has just read.
LEMMA ShelfReadsOver ==
    ASSUME ShelfInv, ShelfRowsOK', ShelfGrows, NEW r \in Requests, Shelf!Over(r)
    PROVE  /\ DOMAIN hRequest' = Requests
           /\ (\A q \in Requests : hRequest[q] # None => LookedAt(q) /\ WritesOver(q))'
<1>1. /\ DOMAIN hRequest' = Requests /\ hRequest'[r] = None
      /\ \A q \in Requests : q # r => hRequest'[q] = hRequest[q]
  BY DEF ShelfInv, Shelf!Over
<1>. QED  BY <1>1, StillReads

LEMMA ShelfReads ==
    ASSUME ShelfInv, NEW r \in Requests, NEW kind, NEW row, NEW i, Shelf!Reads(r, kind, row, i),
           [kind |-> kind, row |-> row, of |-> i] # None
              => (LookedAt(r)' /\ WritesOver(r)')
    PROVE  ShelfInv' /\ Shelf!OnlyRacesOrphan
<1>1. /\ DOMAIN hRequest' = Requests
      /\ hRequest'[r] = [kind |-> kind, row |-> row, of |-> i]
      /\ \A q \in Requests : q # r => hRequest'[q] = hRequest[q]
      /\ UNCHANGED <<hCategory, hProduct, hPrinter, hBatch, hDrawn>>
  BY DEF ShelfInv, Shelf!Reads, Shelf!catalogue, Shelf!stock
<1>2. ShelfRowsOK' /\ ShelfGrows
  BY <1>1 DEF ShelfInv, ShelfRowsOK, ShelfGrows
<1>3. (\A q \in Requests : hRequest[q] # None => LookedAt(q) /\ WritesOver(q))'
  BY <1>1, <1>2, StillReads
<1>4. EachIsCounted' /\ OneOpenName'
  BY <1>1 DEF ShelfInv, EachIsCounted, OneOpenName, Shelf!Open
<1>5. Shelf!OnlyRacesOrphan
  BY <1>1 DEF Shelf!OnlyRacesOrphan, Shelf!Orphans, Shelf!Unlicensed, Shelf!Open
<1>. QED  BY <1>1, <1>2, <1>3, <1>4, <1>5 DEF ShelfInv

LEMMA LooksOK ==
    ASSUME ShelfInv, NEW r \in Requests
    PROVE  /\ Shelf!GiveUp(r) => ShelfInv' /\ Shelf!OnlyRacesOrphan
           /\ \A c \in Categories : Shelf!BeginDelete(r, c) => ShelfInv' /\ Shelf!OnlyRacesOrphan
           /\ \A c \in Categories \cup {None} : Shelf!BeginCreate(r, c) =>
                  ShelfInv' /\ Shelf!OnlyRacesOrphan
           /\ \A p \in Products, c \in Categories : Shelf!BeginUpdate(r, p, c) =>
                  ShelfInv' /\ Shelf!OnlyRacesOrphan
           /\ \A p \in Printers : Shelf!BeginSelfPrinted(r, p) => ShelfInv' /\ Shelf!OnlyRacesOrphan
           /\ \A b \in Batches : Shelf!BeginConsume(r, b) => ShelfInv' /\ Shelf!OnlyRacesOrphan
<1>1. ASSUME Shelf!GiveUp(r) PROVE ShelfInv' /\ Shelf!OnlyRacesOrphan
  <2>1. Shelf!Over(r) /\ UNCHANGED <<hCategory, hProduct, hPrinter, hBatch, hDrawn>>
    BY <1>1 DEF Shelf!GiveUp, Shelf!catalogue, Shelf!stock
  <2>2. ShelfRowsOK' /\ ShelfGrows
    BY <2>1 DEF ShelfInv, ShelfRowsOK, ShelfGrows
  <2>3. EachIsCounted' /\ OneOpenName'
    BY <2>1 DEF ShelfInv, EachIsCounted, OneOpenName, Shelf!Open
  <2>4. Shelf!OnlyRacesOrphan
    BY <2>1 DEF Shelf!OnlyRacesOrphan, Shelf!Orphans, Shelf!Unlicensed, Shelf!Open
  <2>. QED  BY <2>1, <2>2, <2>3, <2>4, ShelfReadsOver DEF ShelfInv
<1>2. ASSUME NEW c \in Categories, Shelf!BeginDelete(r, c) PROVE ShelfInv' /\ Shelf!OnlyRacesOrphan
  <2>1. /\ Shelf!Reads(r, "delete", Shelf!Counted(c), c) /\ Shelf!Counted(c).products = {}
        /\ hCategory[c] # None
    BY <1>2 DEF Shelf!BeginDelete, Shelf!Counted, Shelf!Open
  <2>2. /\ hRequest'[r] = [kind |-> "delete", row |-> Shelf!Counted(c), of |-> c]
        /\ UNCHANGED hCategory
    BY <2>1 DEF Shelf!Reads, Shelf!catalogue, ShelfInv
  <2>3. LookedAt(r)' /\ WritesOver(r)'
    BY <2>1, <2>2 DEF LookedAt, WritesOver
  <2>. QED  BY <2>1, <2>3, ShelfReads
<1>3. ASSUME NEW c \in Categories \cup {None}, Shelf!BeginCreate(r, c)
      PROVE ShelfInv' /\ Shelf!OnlyRacesOrphan
  <2>1. PICK row : /\ row = [category |-> c, seen |-> IF c = None THEN None ELSE hCategory[c]]
                   /\ Shelf!Reads(r, "create", row, None)
    BY <1>3 DEF Shelf!BeginCreate
  <2>2. hRequest'[r] = [kind |-> "create", row |-> row, of |-> None]
    BY <2>1 DEF Shelf!Reads, ShelfInv
  <2>3. row.category = c /\ (c # None => ~row.seen.archived)
    BY <1>3, <2>1 DEF Shelf!BeginCreate, Shelf!Open
  <2>4. LookedAt(r)' /\ WritesOver(r)'
    BY <2>2, <2>3 DEF LookedAt, WritesOver
  <2>. QED  BY <2>1, <2>4, ShelfReads
<1>4. ASSUME NEW p \in Products, NEW c \in Categories, Shelf!BeginUpdate(r, p, c)
      PROVE  ShelfInv' /\ Shelf!OnlyRacesOrphan
  <2>1. PICK row : /\ row = [category |-> c, seen |-> hCategory[c], version |-> hProduct[p].version]
                   /\ Shelf!Reads(r, "update", row, p)
    BY <1>4 DEF Shelf!BeginUpdate
  <2>2. /\ hRequest'[r] = [kind |-> "update", row |-> row, of |-> p] /\ UNCHANGED hProduct
    BY <2>1 DEF Shelf!Reads, ShelfInv, Shelf!catalogue
  <2>3. row.category = c /\ ~row.seen.archived /\ hProduct[p] # None
    BY <1>4, <2>1 DEF Shelf!BeginUpdate, Shelf!Open
  <2>4. LookedAt(r)' /\ WritesOver(r)'
    BY <2>2, <2>3 DEF LookedAt, WritesOver
  <2>. QED  BY <2>1, <2>4, ShelfReads
<1>5. ASSUME NEW p \in Printers, Shelf!BeginSelfPrinted(r, p) PROVE ShelfInv' /\ Shelf!OnlyRacesOrphan
  <2>1. Shelf!Reads(r, "print", hPrinter[p], p) /\ hPrinter[p].active
    BY <1>5 DEF Shelf!BeginSelfPrinted
  <2>2. hRequest'[r] = [kind |-> "print", row |-> hPrinter[p], of |-> p]
    BY <2>1 DEF Shelf!Reads, ShelfInv
  <2>3. LookedAt(r)' /\ WritesOver(r)'
    BY <2>1, <2>2 DEF LookedAt, WritesOver
  <2>. QED  BY <2>1, <2>3, ShelfReads
<1>6. ASSUME NEW b \in Batches, Shelf!BeginConsume(r, b) PROVE ShelfInv' /\ Shelf!OnlyRacesOrphan
  <2>1. Shelf!Reads(r, "consume", hBatch[b], b) /\ hBatch[b] # None
    BY <1>6 DEF Shelf!BeginConsume
  <2>2. /\ hRequest'[r] = [kind |-> "consume", row |-> hBatch[b], of |-> b] /\ UNCHANGED hBatch
    BY <2>1 DEF Shelf!Reads, ShelfInv, Shelf!stock
  <2>3. hBatch[b] \in Shelf!BatchRow /\ hBatch[b].version \in Nat
    BY <2>1, ShelfConstants DEF ShelfInv, ShelfRowsOK, Shelf!BatchRow
  <2>4. LookedAt(r)' /\ WritesOver(r)'
    BY <2>1, <2>2, <2>3 DEF LookedAt, WritesOver
  <2>. QED  BY <2>1, <2>4, ShelfReads
<1>. QED  BY <1>1, <1>2, <1>3, <1>4, <1>5, <1>6

\* What is left to show of a write.
LEMMA ShelfWritten ==
    ASSUME ShelfInv, ShelfRowsOK', ShelfGrows, EachIsCounted', OneOpenName', Shelf!OnlyRacesOrphan,
           UNCHANGED hRequest \/ \E r \in Requests : Shelf!Over(r)
    PROVE  ShelfInv' /\ Shelf!OnlyRacesOrphan
<1>1. CASE UNCHANGED hRequest
  <2>1. \A q \in Requests : hRequest'[q] = hRequest[q]
    BY <1>1
  <2>. QED  BY <1>1, <2>1, StillReads DEF ShelfInv
<1>2. CASE \E r \in Requests : Shelf!Over(r)
  BY <1>2, ShelfReadsOver DEF ShelfInv
<1>. QED  BY <1>1, <1>2

LEMMA CategoriesOK ==
    ASSUME ShelfInv, NEW c \in Categories
    PROVE  /\ \A name \in Names : Shelf!CreateCategory(c, name) \/ Shelf!RenameCategory(c, name)
                 => ShelfInv' /\ Shelf!OnlyRacesOrphan
           /\ \A r \in Requests : Shelf!DeleteCategory(r, c) => ShelfInv' /\ Shelf!OnlyRacesOrphan
<1>0. None \notin Shelf!CategoryRow
  BY ShelfConstants
<1>1. ASSUME NEW row \in Shelf!CategoryRow, hCategory' = [hCategory EXCEPT ![c] = row],
             UNCHANGED <<hProduct, Shelf!stock>>,
             ~row.archived => Shelf!Taken(row.name) \subseteq {c},
             UNCHANGED hRequest \/ \E r \in Requests : Shelf!Over(r),
             Shelf!OnlyRacesOrphan
      PROVE  ShelfInv' /\ Shelf!OnlyRacesOrphan
  <2>1. /\ hCategory'[c] = row /\ hCategory' = [d \in Categories |-> hCategory'[d]]
        /\ \A d \in Categories : d # c => hCategory'[d] = hCategory[d]
        /\ \A d \in Categories : hCategory[d] # None => hCategory'[d] # None
        /\ UNCHANGED <<hProduct, hPrinter, hBatch, hDrawn>>
    BY <1>0, <1>1 DEF ShelfInv, ShelfRowsOK, Shelf!stock
  <2>2. ShelfRowsOK' /\ ShelfGrows /\ EachIsCounted'
    BY <2>1 DEF ShelfInv, ShelfRowsOK, ShelfGrows, EachIsCounted
  <2>3. OneOpenName'
    <3>1. SUFFICES ASSUME NEW d \in Categories, NEW e \in Categories,
                          Shelf!Open(hCategory'[d]), Shelf!Open(hCategory'[e]),
                          hCategory'[d].name = hCategory'[e].name, d # e
                   PROVE  FALSE
      BY DEF OneOpenName, Shelf!Open
    <3>2. d # c /\ e # c => FALSE
      BY <2>1, <3>1 DEF ShelfInv, OneOpenName
    <3>3. d = c => FALSE
      <4>1. d = c => e \in Shelf!Taken(row.name)
        BY <2>1, <3>1 DEF Shelf!Taken
      <4>. QED  BY <1>1, <2>1, <3>1, <4>1 DEF Shelf!Open
    <3>4. e = c => FALSE
      <4>1. e = c => d \in Shelf!Taken(row.name)
        BY <2>1, <3>1 DEF Shelf!Taken
      <4>. QED  BY <1>1, <2>1, <3>1, <4>1 DEF Shelf!Open
    <3>. QED  BY <3>2, <3>3, <3>4
  <2>. QED  BY <1>1, <2>2, <2>3, ShelfWritten
\* A product whose category is gone was without one before, or c is gone now.
<1>2. ASSUME NEW row \in Shelf!CategoryRow, hCategory' = [hCategory EXCEPT ![c] = row],
             UNCHANGED <<hProduct, Shelf!stock>>,
             ~row.archived \/ Shelf!ProductsIn(c) = {}
      PROVE  Shelf!OnlyRacesOrphan
  <2>1. /\ hCategory'[c] = row
        /\ \A d \in Categories : d # c => hCategory'[d] = hCategory[d]
        /\ UNCHANGED <<hProduct, hPrinter, hBatch, hDrawn>>
    BY <1>2 DEF ShelfInv, ShelfRowsOK, Shelf!stock
  <2>2. \A p \in Products : hProduct[p] # None => hProduct[p].category \in Categories \cup {None}
    BY DEF ShelfInv, ShelfRowsOK, Shelf!ProductRow
  <2>3. Shelf!Orphans' \subseteq Shelf!Orphans
    BY <1>2, <2>1, <2>2 DEF Shelf!Orphans, Shelf!ProductsIn, Shelf!Open
  <2>4. Shelf!Unlicensed' \subseteq Shelf!Unlicensed
    BY <2>1 DEF Shelf!Unlicensed
  <2>. QED  BY <2>3, <2>4 DEF Shelf!OnlyRacesOrphan
<1>3. ASSUME NEW name \in Names, Shelf!CreateCategory(c, name) PROVE ShelfInv' /\ Shelf!OnlyRacesOrphan
  <2>1. PICK row : /\ row = [name |-> name, archived |-> FALSE, version |-> 1]
                   /\ hCategory' = [hCategory EXCEPT ![c] = row]
                   /\ UNCHANGED <<hProduct, Shelf!stock, hRequest>> /\ Shelf!Taken(name) = {}
    BY <1>3 DEF Shelf!CreateCategory
  <2>2. row \in Shelf!CategoryRow /\ ~row.archived /\ row.name = name
    BY <2>1, ShelfConstants DEF Shelf!CategoryRow
  <2>3. Shelf!OnlyRacesOrphan
    BY <1>2, <2>1, <2>2
  <2>. QED  BY <1>1, <2>1, <2>2, <2>3
<1>4. ASSUME NEW name \in Names, Shelf!RenameCategory(c, name) PROVE ShelfInv' /\ Shelf!OnlyRacesOrphan
  <2>1. hCategory[c] \in Shelf!CategoryRow /\ ~hCategory[c].archived /\ hCategory[c].version < MaxVersion
    BY <1>4 DEF Shelf!RenameCategory, Shelf!Open, ShelfInv, ShelfRowsOK
  <2>2. PICK row : row = [name |-> name, archived |-> FALSE, version |-> hCategory[c].version + 1]
    OBVIOUS
  <2>3. row \in Shelf!CategoryRow /\ ~row.archived /\ row.name = name
    BY <2>1, <2>2, ShelfConstants DEF Shelf!CategoryRow
  <2>4. hCategory' = [hCategory EXCEPT ![c] = row]
    BY <1>4, <2>1, <2>2 DEF Shelf!RenameCategory, Shelf!CategoryRow, ShelfInv, ShelfRowsOK
  <2>5. UNCHANGED <<hProduct, Shelf!stock, hRequest>> /\ Shelf!Taken(name) \subseteq {c}
    BY <1>4 DEF Shelf!RenameCategory
  <2>6. Shelf!OnlyRacesOrphan
    BY <1>2, <2>3, <2>4, <2>5
  <2>. QED  BY <1>1, <2>3, <2>4, <2>5, <2>6
<1>5. ASSUME NEW r \in Requests, Shelf!DeleteCategory(r, c) PROVE ShelfInv' /\ Shelf!OnlyRacesOrphan
  <2>1. /\ hRequest[r] # None /\ hRequest[r].kind = "delete" /\ hRequest[r].of = c
        /\ LookedAt(r) /\ WritesOver(r) /\ Shelf!Over(r) /\ UNCHANGED <<hProduct, Shelf!stock>>
    BY <1>5 DEF Shelf!DeleteCategory, Shelf!Is, ShelfInv
  <2>2. hCategory[c] \in Shelf!CategoryRow /\ hCategory[c].version < MaxVersion
    BY <1>5, <2>1 DEF WritesOver, ShelfInv, ShelfRowsOK, Shelf!DeleteCategory, Shelf!IsStillAt
  <2>3. PICK row : row = [name |-> hCategory[c].name, archived |-> TRUE,
                          version |-> hCategory[c].version + 1]
    OBVIOUS
  <2>4. row \in Shelf!CategoryRow /\ row.archived
    BY <2>2, <2>3, ShelfConstants DEF Shelf!CategoryRow
  <2>5. hCategory' = [hCategory EXCEPT ![c] = row]
    BY <1>5, <2>2, <2>3 DEF Shelf!DeleteCategory, Shelf!CategoryRow, ShelfInv, ShelfRowsOK
  <2>6. Shelf!OnlyRacesOrphan
    <3>1. CASE Shelf!ProductsIn(c) = {}
      BY <1>2, <2>1, <2>4, <2>5, <3>1
    <3>2. CASE Shelf!ProductsIn(c) # {}
      <4>1. hRequest'[r] = None
        BY <2>1 DEF Shelf!Over, ShelfInv
      <4>2. Shelf!WasOvertaken(r)
        BY <2>1, <3>2 DEF Shelf!WasOvertaken, LookedAt
      <4>. QED  BY <2>1, <4>1, <4>2 DEF Shelf!OnlyRacesOrphan
    <3>. QED  BY <3>1, <3>2
  <2>. QED  BY <1>1, <2>1, <2>4, <2>5, <2>6
<1>. QED  BY <1>3, <1>4, <1>5

LEMMA ProductsOK ==
    ASSUME ShelfInv, NEW p \in Products
    PROVE  /\ Shelf!ArchiveProduct(p) => ShelfInv' /\ Shelf!OnlyRacesOrphan
           /\ \A r \in Requests : Shelf!CreateProduct(r, p) \/ Shelf!UpdateProduct(r, p)
                 => ShelfInv' /\ Shelf!OnlyRacesOrphan
<1>1. ASSUME NEW row \in Shelf!ProductRow, hProduct' = [hProduct EXCEPT ![p] = row],
             UNCHANGED <<hCategory, Shelf!stock>>,
             UNCHANGED hRequest \/ \E r \in Requests : Shelf!Over(r),
             Shelf!OnlyRacesOrphan
      PROVE  ShelfInv' /\ Shelf!OnlyRacesOrphan
  <2>1. /\ hProduct'[p] = row /\ hProduct' = [q \in Products |-> hProduct'[q]]
        /\ \A q \in Products : hProduct[q] # None => hProduct'[q] # None
        /\ \A q \in Products : q # p => hProduct'[q] = hProduct[q]
        /\ UNCHANGED <<hCategory, hPrinter, hBatch, hDrawn>>
    BY <1>1, ShelfConstants DEF ShelfInv, ShelfRowsOK, Shelf!stock
  <2>2. ShelfRowsOK' /\ ShelfGrows /\ EachIsCounted' /\ OneOpenName'
    BY <2>1 DEF ShelfInv, ShelfRowsOK, ShelfGrows, EachIsCounted, OneOpenName, Shelf!Open
  <2>. QED  BY <1>1, <2>2, ShelfWritten
<1>2. ASSUME NEW row \in Shelf!ProductRow, hProduct' = [hProduct EXCEPT ![p] = row],
             UNCHANGED <<hCategory, Shelf!stock>>,
             \/ row.archived
             \/ row.category = None
             \/ ~hCategory[row.category].archived
      PROVE  Shelf!OnlyRacesOrphan
  <2>1. /\ hProduct'[p] = row
        /\ \A q \in Products : q # p => hProduct'[q] = hProduct[q]
        /\ UNCHANGED <<hCategory, hPrinter, hBatch, hDrawn>>
    BY <1>2 DEF ShelfInv, ShelfRowsOK, Shelf!stock
  <2>2. Shelf!Orphans' \subseteq Shelf!Orphans
    BY <1>2, <2>1 DEF Shelf!Orphans, Shelf!Open
  <2>3. Shelf!Unlicensed' \subseteq Shelf!Unlicensed
    BY <2>1 DEF Shelf!Unlicensed
  <2>. QED  BY <2>2, <2>3 DEF Shelf!OnlyRacesOrphan
<1>3. ASSUME Shelf!ArchiveProduct(p) PROVE ShelfInv' /\ Shelf!OnlyRacesOrphan
  <2>1. hProduct[p] \in Shelf!ProductRow /\ hProduct[p].version < MaxVersion
    BY <1>3 DEF Shelf!ArchiveProduct, ShelfInv, ShelfRowsOK
  <2>2. PICK row : row = [category |-> hProduct[p].category, archived |-> TRUE,
                          version |-> hProduct[p].version + 1]
    OBVIOUS
  <2>3. row \in Shelf!ProductRow /\ row.archived
    BY <2>1, <2>2, ShelfConstants DEF Shelf!ProductRow
  <2>4. hProduct' = [hProduct EXCEPT ![p] = row] /\ UNCHANGED <<hCategory, Shelf!stock, hRequest>>
    BY <1>3, <2>1, <2>2 DEF Shelf!ArchiveProduct, Shelf!ProductRow, ShelfInv, ShelfRowsOK
  <2>. QED  BY <1>1, <1>2, <2>3, <2>4
\* A request saw the category it puts the product in open.
<1>4. ASSUME NEW r \in Requests, hRequest[r] # None, hRequest[r].kind \in {"create", "update"},
             NEW row \in Shelf!ProductRow, row.category = hRequest[r].row.category,
             hProduct' = [hProduct EXCEPT ![p] = row], UNCHANGED <<hCategory, Shelf!stock>>, Shelf!Over(r)
      PROVE  ShelfInv' /\ Shelf!OnlyRacesOrphan
  <2>1. Shelf!OnlyRacesOrphan
    <3>1. hRequest'[r] = None /\ LookedAt(r)
      BY <1>4 DEF Shelf!Over, ShelfInv
    <3>2. Shelf!WasOvertaken(r) => Shelf!OnlyRacesOrphan
      BY <1>4, <3>1 DEF Shelf!OnlyRacesOrphan
    <3>3. ~Shelf!WasOvertaken(r) => row.category = None \/ ~hCategory[row.category].archived
      BY <1>4, <3>1 DEF Shelf!WasOvertaken, LookedAt
    <3>. QED  BY <1>2, <1>4, <3>2, <3>3
  <2>. QED  BY <1>1, <1>4, <2>1
<1>5. ASSUME NEW r \in Requests, Shelf!CreateProduct(r, p) PROVE ShelfInv' /\ Shelf!OnlyRacesOrphan
  <2>1. /\ hRequest[r] # None /\ hRequest[r].kind = "create"
        /\ LookedAt(r) /\ Shelf!Over(r) /\ UNCHANGED <<hCategory, Shelf!stock>>
    BY <1>5 DEF Shelf!CreateProduct, Shelf!Is, ShelfInv
  <2>2. PICK row : /\ row = [category |-> hRequest[r].row.category, archived |-> FALSE, version |-> 1]
                   /\ hProduct' = [hProduct EXCEPT ![p] = row]
    BY <1>5 DEF Shelf!CreateProduct
  <2>3. row \in Shelf!ProductRow /\ row.category = hRequest[r].row.category
    BY <2>1, <2>2, ShelfConstants DEF Shelf!ProductRow, LookedAt
  <2>. QED  BY <1>4, <2>1, <2>2, <2>3
<1>6. ASSUME NEW r \in Requests, Shelf!UpdateProduct(r, p) PROVE ShelfInv' /\ Shelf!OnlyRacesOrphan
  <2>1. /\ hRequest[r] # None /\ hRequest[r].kind = "update" /\ hRequest[r].of = p
        /\ LookedAt(r) /\ WritesOver(r) /\ Shelf!Over(r) /\ UNCHANGED <<hCategory, Shelf!stock>>
    BY <1>6 DEF Shelf!UpdateProduct, Shelf!Is, ShelfInv
  <2>2. hProduct[p] \in Shelf!ProductRow /\ hProduct[p].version < MaxVersion
    BY <1>6, <2>1 DEF WritesOver, ShelfInv, ShelfRowsOK, Shelf!UpdateProduct, Shelf!IsStillAt
  <2>3. PICK row : row = [category |-> hRequest[r].row.category, archived |-> hProduct[p].archived,
                          version |-> hProduct[p].version + 1]
    OBVIOUS
  <2>4. row \in Shelf!ProductRow /\ row.category = hRequest[r].row.category
    BY <2>1, <2>2, <2>3, ShelfConstants DEF Shelf!ProductRow, LookedAt
  <2>5. hProduct' = [hProduct EXCEPT ![p] = row]
    BY <1>6, <2>2, <2>3 DEF Shelf!UpdateProduct, Shelf!ProductRow, ShelfInv, ShelfRowsOK
  <2>. QED  BY <1>4, <2>1, <2>4, <2>5
<1>. QED  BY <1>3, <1>5, <1>6

LEMMA PrintersOK ==
    ASSUME ShelfInv, NEW p \in Printers, Shelf!AuthorizePrinter(p) \/ Shelf!RevokePrinter(p)
    PROVE  ShelfInv' /\ Shelf!OnlyRacesOrphan
<1>1. UNCHANGED <<hCategory, hProduct, hBatch, hDrawn, hRequest>>
  <2>1. UNCHANGED <<Shelf!catalogue, hBatch, hDrawn, hRequest>>
    BY DEF Shelf!AuthorizePrinter, Shelf!RevokePrinter
  <2>. QED  BY <2>1 DEF Shelf!catalogue
<1>2. PICK row \in Shelf!PrinterRow : hPrinter' = [hPrinter EXCEPT ![p] = row]
  <2>1. CASE Shelf!AuthorizePrinter(p)
    <3>1. [active |-> TRUE, version |-> 1] \in Shelf!PrinterRow
      BY ShelfConstants DEF Shelf!PrinterRow
    <3>. QED  BY <2>1, <3>1 DEF Shelf!AuthorizePrinter
  <2>2. CASE Shelf!RevokePrinter(p)
    <3>1. hPrinter[p] \in Shelf!PrinterRow /\ hPrinter[p].version < MaxVersion
      BY <2>2 DEF Shelf!RevokePrinter, ShelfInv, ShelfRowsOK
    <3>2. [active |-> FALSE, version |-> hPrinter[p].version + 1] \in Shelf!PrinterRow
      BY <3>1, ShelfConstants DEF Shelf!PrinterRow
    <3>3. hPrinter' = [hPrinter EXCEPT ![p] = [active |-> FALSE, version |-> hPrinter[p].version + 1]]
      BY <2>2 DEF Shelf!RevokePrinter, ShelfInv, ShelfRowsOK
    <3>. QED  BY <3>2, <3>3
  <2>. QED  BY <2>1, <2>2
<1>3. ShelfRowsOK' /\ ShelfGrows /\ EachIsCounted' /\ OneOpenName'
  BY <1>1, <1>2 DEF ShelfInv, ShelfRowsOK, ShelfGrows, EachIsCounted, OneOpenName, Shelf!Open
<1>4. Shelf!OnlyRacesOrphan
  BY <1>1 DEF Shelf!OnlyRacesOrphan, Shelf!Orphans, Shelf!Unlicensed, Shelf!Open
<1>. QED  BY <1>1, <1>3, <1>4, ShelfWritten

LEMMA BatchesOK ==
    ASSUME ShelfInv, NEW b \in Batches
    PROVE  /\ Shelf!IssuePreprinted(b) => ShelfInv' /\ Shelf!OnlyRacesOrphan
           /\ \A r \in Requests, p \in Printers : Shelf!IssueSelfPrinted(r, b, p) =>
                  ShelfInv' /\ Shelf!OnlyRacesOrphan
           /\ \A r \in Requests, count \in 1 .. Size : Shelf!ConsumeLabels(r, b, count)
                 => ShelfInv' /\ Shelf!OnlyRacesOrphan
<1>0. \A row \in Shelf!BatchRow : row.version \in Nat /\ row.used \in Nat
  BY ShelfConstants DEF Shelf!BatchRow
<1>1. ASSUME NEW p \in Printers \cup {None}, Shelf!Issue(b, p),
             UNCHANGED hRequest \/ \E r \in Requests : Shelf!Over(r)
      PROVE  /\ Shelf!OnlyRacesOrphan => ShelfInv'
             /\ p = None \/ hPrinter[p].active => Shelf!OnlyRacesOrphan
  <2>1. PICK row : /\ row = [printer |-> p, used |-> 0, version |-> 1]
                   /\ hBatch' = [hBatch EXCEPT ![b] = row]
                   /\ hBatch[b] = None
    BY <1>1 DEF Shelf!Issue, Shelf!IsNext
  <2>2. row \in Shelf!BatchRow
    BY <2>1, ShelfConstants DEF Shelf!BatchRow
  <2>3. /\ hBatch'[b] = row /\ hBatch'[b] # None
        /\ \A d \in Batches : d # b => hBatch'[d] = hBatch[d]
        /\ UNCHANGED <<hCategory, hProduct, hPrinter, hDrawn>>
    BY <1>1, <2>1, <2>2, ShelfConstants DEF Shelf!Issue, Shelf!catalogue, ShelfInv, ShelfRowsOK
  <2>4. ShelfRowsOK' /\ ShelfGrows /\ OneOpenName'
    BY <2>1, <2>2, <2>3 DEF ShelfInv, ShelfRowsOK, ShelfGrows, OneOpenName, Shelf!Open
  <2>5. EachIsCounted'
    <3>1. hDrawn'[b] = 0 /\ hBatch'[b].used = 0
      BY <2>1, <2>3 DEF ShelfInv, EachIsCounted
    <3>. QED  BY <2>3, <3>1 DEF ShelfInv, EachIsCounted
  <2>6. p = None \/ hPrinter[p].active => Shelf!OnlyRacesOrphan
    <3>1. Shelf!Orphans' = Shelf!Orphans
      BY <2>3 DEF Shelf!Orphans, Shelf!Open
    <3>2. hBatch'[b].printer = p
      BY <2>1, <2>3
    <3>3. p = None \/ hPrinter[p].active => Shelf!Unlicensed' \subseteq Shelf!Unlicensed
      BY <2>3, <3>2 DEF Shelf!Unlicensed
    <3>. QED  BY <3>1, <3>3 DEF Shelf!OnlyRacesOrphan
  <2>. QED  BY <1>1, <2>4, <2>5, <2>6, ShelfWritten
<1>2. ASSUME Shelf!IssuePreprinted(b) PROVE ShelfInv' /\ Shelf!OnlyRacesOrphan
  BY <1>1, <1>2 DEF Shelf!IssuePreprinted
<1>3. ASSUME NEW r \in Requests, NEW p \in Printers, Shelf!IssueSelfPrinted(r, b, p)
      PROVE  ShelfInv' /\ Shelf!OnlyRacesOrphan
  <2>1. /\ hRequest[r] # None /\ hRequest[r].kind = "print" /\ hRequest[r].of = p
        /\ LookedAt(r) /\ Shelf!Over(r) /\ Shelf!Issue(b, p) /\ hRequest'[r] = None
    BY <1>3 DEF Shelf!IssueSelfPrinted, Shelf!Is, ShelfInv, Shelf!Over
  <2>2. hPrinter[p] = hRequest[r].row => hPrinter[p].active
    BY <2>1 DEF LookedAt
  <2>3. hPrinter[p] # hRequest[r].row => Shelf!OnlyRacesOrphan
    BY <2>1 DEF Shelf!OnlyRacesOrphan, Shelf!WasOvertaken
  <2>. QED  BY <1>1, <2>1, <2>2, <2>3
<1>4. ASSUME NEW r \in Requests, NEW count \in 1 .. Size, Shelf!ConsumeLabels(r, b, count)
      PROVE  ShelfInv' /\ Shelf!OnlyRacesOrphan
  <2>1. /\ hRequest[r] # None /\ hRequest[r].kind = "consume" /\ hRequest[r].of = b
        /\ WritesOver(r) /\ Shelf!Over(r) /\ UNCHANGED <<hCategory, hProduct, hPrinter>>
    BY <1>4 DEF Shelf!ConsumeLabels, Shelf!Is, ShelfInv, Shelf!catalogue
  <2>2. PICK old : old = hBatch[b] /\ old = hRequest[r].row /\ old \in Shelf!BatchRow /\ old.version < MaxVersion
                   /\ old.used + count <= Size
    BY <1>4, <2>1 DEF Shelf!ConsumeLabels, Shelf!IsStillAt, WritesOver
  <2>3. PICK row : row = [printer |-> old.printer, used |-> old.used + count, version |-> old.version + 1]
    OBVIOUS
  <2>4. row \in Shelf!BatchRow /\ row.version > old.version
    BY <1>0, <2>2, <2>3, ShelfConstants DEF Shelf!BatchRow
  <2>5. hBatch' = [hBatch EXCEPT ![b] = row] /\ hDrawn' = [hDrawn EXCEPT ![b] = @ + count]
    BY <1>4, <2>2, <2>3 DEF Shelf!ConsumeLabels, Shelf!BatchRow, ShelfInv, ShelfRowsOK
  <2>6. hBatch'[b] = row /\ (\A d \in Batches : d # b => hBatch'[d] = hBatch[d])
    BY <2>5 DEF ShelfInv, ShelfRowsOK
  <2>7. ShelfRowsOK' /\ OneOpenName'
    BY <2>1, <2>4, <2>5 DEF ShelfInv, ShelfRowsOK, OneOpenName, Shelf!Open
  <2>8. ShelfGrows
    BY <2>1, <2>2, <2>4, <2>6, ShelfConstants DEF ShelfGrows
  <2>9. EachIsCounted'
    <3>1. hBatch[b] # None /\ hBatch'[b] # None /\ hBatch'[b].used = hBatch[b].used + count
      BY <2>2, <2>3, <2>4, <2>6, ShelfConstants
    <3>2. hDrawn'[b] = hDrawn[b] + count /\ DOMAIN hDrawn' = Batches
          /\ \A d \in Batches : d # b => hDrawn'[d] = hDrawn[d]
      BY <2>5 DEF ShelfInv, EachIsCounted
    <3>. QED  BY <2>6, <3>1, <3>2 DEF ShelfInv, EachIsCounted
  <2>10. Shelf!OnlyRacesOrphan
    <3>1. Shelf!Orphans' = Shelf!Orphans
      BY <2>1 DEF Shelf!Orphans, Shelf!Open
    <3>2. hBatch[b] # None
      BY <2>2, ShelfConstants
    <3>3. Shelf!Unlicensed' \subseteq Shelf!Unlicensed \cup {d \in Batches : hBatch[d] # None}
      BY <2>1, <2>6, <3>2 DEF Shelf!Unlicensed
    <3>. QED  BY <3>1, <3>3 DEF Shelf!OnlyRacesOrphan
  <2>. QED  BY <2>1, <2>7, <2>8, <2>9, <2>10, ShelfWritten
<1>. QED  BY <1>2, <1>3, <1>4

LEMMA ShelfStep == ShelfInv /\ [Shelf!Next]_(Shelf!vars) => ShelfInv' /\ Shelf!OnlyRacesOrphan
<1> SUFFICES ASSUME ShelfInv, [Shelf!Next]_(Shelf!vars) PROVE ShelfInv' /\ Shelf!OnlyRacesOrphan
  OBVIOUS
<1>1. CASE UNCHANGED Shelf!vars
  BY <1>1
       DEF Shelf!vars, Shelf!catalogue, Shelf!stock, ShelfInv, ShelfRowsOK, LookedAt, WritesOver,
           EachIsCounted,
     OneOpenName, Shelf!Open, Shelf!OnlyRacesOrphan, Shelf!Orphans, Shelf!Unlicensed
<1>2. CASE Shelf!Next
  BY <1>2, LooksOK, CategoriesOK, ProductsOK, PrintersOK, BatchesOK DEF Shelf!Next
<1>. QED  BY <1>1, <1>2

-----------------------------------------------------------------------------
(* WireContract. WireInv: an outbox row is the envelope of what its request  *)
(* makes and holds, the letter is that row, and what a consumer read of it  *)
(* is what the producer wrote.                                              *)

LEMMA WireNone == None \notin Wire!Consumers \cup Wire!Reasons \cup {"invalid", Wire!Refusal}
  BY WireConstants

\* The body a producer makes of a request, and when it enqueues it.
BodyOf ==
    IF eRequest.type = "accepted" THEN Wire!AcceptedBody
    ELSE IF eRequest.type = "handover" THEN Wire!HandoverBody ELSE Wire!RowBody

WireHolds ==
    /\ eRequest.type = "accepted" => Wire!AcceptedBody.scan /\ (eRequest.exception => eRequest.media)
    /\ eRequest.type = "handover" =>
          /\ eRequest.reason # "MISSING_FROM_DRIVER" /\ ~eRequest.byDriver
          /\ Wire!HandoverBody.reason # None => eRequest.media
    /\ eRequest.type \in {"timeline", "audit"} =>
          /\ eRequest.text # "missing" /\ eRequest.stamp # "naive"
          /\ eRequest.type = "audit" => eRequest.actorType

Letters == [type: {eRequest.type}, body: {BodyOf}, version: 1 .. 2, unknown: BOOLEAN,
            trace: {None, "valid", "invalid"}]

Readings == [by: Wire!Consumers, taken: BOOLEAN, body: {BodyOf, None}, trace: {None, "valid"}]

ReadRightly ==
    eRead # None =>
          IF eRead.taken
          THEN /\ eRead.by = eRequest.type /\ eRead.body = BodyOf /\ eRead.trace # "invalid"
               /\ eRequest \in Wire!Rows => Wire!IsClean(eRequest)
          ELSE \/ eRead.by # eRequest.type \/ eLetter.version > 1
               \/ eRequest \in Wire!Rows /\ ~Wire!IsClean(eRequest)

WireInv ==
    /\ eRequest \in Wire!Acceptances \cup Wire!Receipts \cup Wire!Rows
    /\ eRow = Wire!Refusal => ~WireHolds
    /\ Wire!Enqueued => WireHolds /\ eRow = Wire!Envelope(BodyOf)
    /\ eLetter = Wire!Refusal => eRequest \in Wire!Receipts
    /\ Wire!Sent => Wire!Enqueued /\ eLetter \in Letters
    /\ eRead # None => Wire!Sent /\ eRead \in Readings
    /\ ReadRightly

LEMMA WireInit == Wire!Init => WireInv
  BY WireNone DEF Wire!Init, WireInv, Wire!Enqueued, Wire!Sent, ReadRightly

LEMMA WhatIsAsked ==
    ASSUME eRequest \in Wire!Acceptances \cup Wire!Receipts \cup Wire!Rows
    PROVE  /\ eRequest.type \in Wire!Consumers
           /\ eRequest \in Wire!Acceptances <=> eRequest.type = "accepted"
           /\ eRequest \in Wire!Receipts <=> eRequest.type = "handover"
           /\ eRequest \in Wire!Rows <=> eRequest.type \in {"timeline", "audit"}
  BY DEF Wire!Acceptances, Wire!Receipts, Wire!Rows, Wire!Consumers

LEMMA HandoverBodyIs ==
    /\ Wire!HandoverBody.reason = Wire!ResolveDiscrepancy /\ Wire!HandoverBody.media = eRequest.media
    /\ Wire!HandoverBody.byDriver = eRequest.byDriver
    /\ Wire!ResolveDiscrepancy \in Wire!ReleasingReasons \cup {None}
    /\ eRequest \in Wire!Receipts /\ Wire!ResolveDiscrepancy = None =>
          eRequest.planned /\ eRequest.reason \in {None, "MISSING_FROM_DRIVER"}
<1>1. "WRONG_HUB_RECEIVED" \in Wire!ReleasingReasons /\ None \notin Wire!ReleasingReasons
  BY WireNone DEF Wire!ReleasingReasons, Wire!Reasons
<1>2. Wire!ResolveDiscrepancy \in Wire!ReleasingReasons \cup {None}
  BY <1>1 DEF Wire!ResolveDiscrepancy
<1>3. ASSUME eRequest \in Wire!Receipts, Wire!ResolveDiscrepancy = None
      PROVE  eRequest.planned /\ eRequest.reason \in {None, "MISSING_FROM_DRIVER"}
  <2>1. eRequest.reason \in Wire!Reasons \cup {None} /\ eRequest.planned \in BOOLEAN
    BY <1>3 DEF Wire!Receipts
  <2>2. eRequest.reason \notin Wire!ReleasingReasons /\ eRequest.planned
    BY <1>1, <1>3, <2>1 DEF Wire!ResolveDiscrepancy
  <2>. QED  BY <2>1, <2>2 DEF Wire!ReleasingReasons
<1>. QED  BY <1>2, <1>3 DEF Wire!HandoverBody

\* What holds of what is sent is what its consumer looks at.
LEMMA ConsumersAgree ==
    ASSUME eRequest \in Wire!Acceptances \cup Wire!Receipts \cup Wire!Rows
    PROVE  /\ eRequest \in Wire!Acceptances => (WireHolds <=> Wire!AcceptedIsValid(Wire!AcceptedBody))
           /\ eRequest \in Wire!Receipts =>
                 (WireHolds <=> /\ Wire!HandoverIsValid(Wire!HandoverBody)
                            /\ eRequest.reason # "MISSING_FROM_DRIVER")
           /\ eRequest \in Wire!Rows =>
                 /\ WireHolds => (Wire!IsValid(eRequest.type, Wire!RowBody) <=> Wire!IsClean(eRequest))
                 /\ ~WireHolds => ~Wire!IsValid(eRequest.type, Wire!RowBody)
<1>1. ASSUME eRequest \in Wire!Acceptances PROVE WireHolds <=> Wire!AcceptedIsValid(Wire!AcceptedBody)
  BY <1>1, WhatIsAsked DEF WireHolds, Wire!AcceptedIsValid, Wire!AcceptedBody
<1>2. ASSUME eRequest \in Wire!Receipts
      PROVE  WireHolds <=> Wire!HandoverIsValid(Wire!HandoverBody) /\ eRequest.reason # "MISSING_FROM_DRIVER"
  <2>1. eRequest.type = "handover"
    BY <1>2, WhatIsAsked
  <2>2. Wire!HandoverBody.reason # None => Wire!HandoverBody.reason \in Wire!ReleasingReasons
    BY HandoverBodyIs
  <2>. QED  BY <2>1, <2>2, HandoverBodyIs DEF WireHolds, Wire!HandoverIsValid
<1>3. ASSUME eRequest \in Wire!Rows
      PROVE  /\ WireHolds => (Wire!IsValid(eRequest.type, Wire!RowBody) <=> Wire!IsClean(eRequest))
             /\ ~WireHolds => ~Wire!IsValid(eRequest.type, Wire!RowBody)
  <2>1. /\ Wire!RowBody.system = eRequest.system /\ Wire!RowBody.text = eRequest.text
        /\ Wire!RowBody.stamp = eRequest.stamp /\ Wire!RowBody.actorType = eRequest.actorType
        /\ Wire!RowBody.actorId = eRequest.actorId /\ Wire!RowBody.metadata = eRequest.metadata
    BY DEF Wire!RowBody
  <2>2. /\ eRequest.type \in {"timeline", "audit"} /\ eRequest.metadata \in {"none", "clean", "secret", "large"}
        /\ eRequest.text \in {"full", "blank", "missing"} /\ eRequest.stamp \in {"Z", "offset", "naive"}
        /\ eRequest.actorType \in BOOLEAN /\ eRequest.actorId \in BOOLEAN
    BY <1>3 DEF Wire!Rows
  <2>3. CASE eRequest.type = "timeline"
    <3>1. Wire!IsValid(eRequest.type, Wire!RowBody) <=> Wire!TimelineIsValid(Wire!RowBody)
      BY <2>3 DEF Wire!IsValid
    <3>. QED
      BY <2>1, <2>2, <2>3, <3>1
           DEF Wire!TimelineIsValid, Wire!ObservationIsValid, WireHolds, Wire!IsClean
  <2>4. CASE eRequest.type = "audit"
    <3>1. Wire!IsValid(eRequest.type, Wire!RowBody) <=> Wire!AuditIsValid(Wire!RowBody)
      BY <2>4 DEF Wire!IsValid
    <3>. QED
      BY <2>1, <2>2, <2>4, <3>1
           DEF Wire!AuditIsValid, Wire!ObservationIsValid, WireHolds, Wire!IsClean
  <2>. QED  BY <2>2, <2>3, <2>4
<1>. QED  BY <1>1, <1>2, <1>3

LEMMA WireTells == WireInv => Wire!TypeOK /\ Wire!ContractsMeet
<1> SUFFICES ASSUME WireInv PROVE Wire!TypeOK /\ Wire!ContractsMeet
  OBVIOUS
<1>1. eRequest \in Wire!Acceptances \cup Wire!Receipts \cup Wire!Rows
  BY DEF WireInv
<1>2. Wire!Enqueued => /\ WireHolds /\ eRow.type = eRequest.type /\ eRow.body = BodyOf
                       /\ eRow.version = 1 /\ ~eRow.unknown /\ eRow.trace = None
  BY DEF WireInv, Wire!Envelope
<1>3. Wire!TypeOK
  BY <1>2 DEF WireInv, Wire!TypeOK, Letters, Readings
<1>4. eRow = Wire!Refusal =>
          CASE eRequest.type = "accepted" -> ~Wire!AcceptedIsValid(Wire!AcceptedBody)
            [] eRequest.type = "handover" -> \/ ~Wire!HandoverIsValid(Wire!HandoverBody)
                                            \/ eRequest.reason = "MISSING_FROM_DRIVER"
            [] OTHER -> ~Wire!IsValid(eRequest.type, Wire!RowBody)
  <2> SUFFICES ASSUME ~WireHolds
               PROVE  CASE eRequest.type = "accepted" -> ~Wire!AcceptedIsValid(Wire!AcceptedBody)
                        [] eRequest.type = "handover" -> \/ ~Wire!HandoverIsValid(Wire!HandoverBody)
                                                        \/ eRequest.reason = "MISSING_FROM_DRIVER"
                        [] OTHER -> ~Wire!IsValid(eRequest.type, Wire!RowBody)
    BY DEF WireInv
  <2>1. CASE eRequest.type = "accepted"
    BY <1>1, <2>1, WhatIsAsked, ConsumersAgree
  <2>2. CASE eRequest.type = "handover"
    BY <1>1, <2>2, WhatIsAsked, ConsumersAgree
  <2>3. CASE eRequest.type \notin {"accepted", "handover"}
    BY <1>1, <2>3, WhatIsAsked, ConsumersAgree DEF Wire!Consumers
  <2>. QED  BY <2>1, <2>2, <2>3
<1>5. ASSUME Wire!Enqueued, eRequest \in Wire!Acceptances
      PROVE  Wire!IsValid(eRequest.type, eRow.body) /\ (eRequest.exception => eRow.body.media)
  <2>1. eRequest.type = "accepted" /\ eRow.body = Wire!AcceptedBody
    BY <1>1, <1>2, <1>5, WhatIsAsked DEF BodyOf
  <2>2. eRequest.exception => Wire!AcceptedBody.media
    BY <1>2, <1>5, <2>1 DEF WireHolds, Wire!AcceptedBody
  <2>. QED  BY <1>1, <1>2, <1>5, <2>1, <2>2, ConsumersAgree DEF Wire!IsValid
<1>6. ASSUME Wire!Enqueued, eRequest \in Wire!Receipts
      PROVE  /\ Wire!IsValid(eRequest.type, eRow.body)
             /\ eRequest.reason # "MISSING_FROM_DRIVER" /\ ~eRequest.byDriver
             /\ eRow.body.reason = None => eRequest.planned /\ eRequest.reason = None
             /\ eRow.body.reason # None => eRow.body.media
  <2>1. eRequest.type = "handover" /\ eRow.body = Wire!HandoverBody
    BY <1>1, <1>2, <1>6, WhatIsAsked DEF BodyOf
  <2>2. Wire!IsValid(eRequest.type, eRow.body)
    BY <1>1, <1>2, <1>6, <2>1, ConsumersAgree DEF Wire!IsValid
  <2>. QED  BY <1>2, <1>6, <2>1, <2>2, HandoverBodyIs DEF WireHolds
<1>7. Wire!ProducersAgree
  BY <1>1, <1>4, <1>5, <1>6 DEF Wire!ProducersAgree
<1>8. Wire!ReadersAgree
  BY <1>2 DEF WireInv, ReadRightly, Wire!ReadersAgree
<1>. QED  BY <1>3, <1>7, <1>8 DEF Wire!ContractsMeet

LEMMA BuildOK ==
    ASSUME WireInv, Wire!BuildAccepted \/ Wire!BuildHandover \/ Wire!MapRow
    PROVE  WireInv'
<1>1. Wire!Enqueue(BodyOf, WireHolds)
  <2>1. CASE Wire!BuildAccepted
    BY <2>1 DEF Wire!BuildAccepted, BodyOf, WireHolds, Wire!AcceptedBody
  <2>2. CASE Wire!BuildHandover
    <3>1. eRequest.type = "handover" /\ BodyOf = Wire!HandoverBody
      BY <2>2 DEF Wire!BuildHandover, BodyOf
    <3>2. Wire!HandoverBody.media = eRequest.media
      BY DEF Wire!HandoverBody
    <3>. QED  BY <2>2, <3>1, <3>2 DEF Wire!BuildHandover, WireHolds
  <2>3. CASE Wire!MapRow
    BY <2>3 DEF Wire!MapRow, BodyOf, WireHolds
  <2>. QED  BY <2>1, <2>2, <2>3
<1>2. /\ ~Wire!Enqueued /\ ~Wire!Sent /\ eRead = None
      /\ UNCHANGED <<eRequest, eLetter, eRead>>
  BY <1>1 DEF Wire!Enqueue, WireInv, Wire!Enqueued
<1>3. WireHolds => eRow' = Wire!Envelope(BodyOf) /\ eRow' # Wire!Refusal
  <2>1. Wire!Envelope(BodyOf).type = eRequest.type /\ Wire!Refusal.type = None
    BY DEF Wire!Envelope, Wire!Refusal
  <2>2. eRequest.type # None
    BY WhatIsAsked, WireNone DEF WireInv
  <2>. QED  BY <1>1, <2>1, <2>2 DEF Wire!Enqueue
<1>4. ~WireHolds => eRow' = Wire!Refusal
  BY <1>1 DEF Wire!Enqueue
<1>5. WireHolds' = WireHolds /\ Wire!Envelope(BodyOf)' = Wire!Envelope(BodyOf)
  BY <1>2
       DEF WireHolds, BodyOf, Wire!AcceptedBody, Wire!HandoverBody, Wire!RowBody,
           Wire!ResolveDiscrepancy, Wire!Envelope
<1>6. (/\ eRow = Wire!Refusal => ~WireHolds
       /\ Wire!Enqueued => WireHolds /\ eRow = Wire!Envelope(BodyOf))'
  BY <1>3, <1>4, <1>5 DEF Wire!Enqueued
<1>7. ~Wire!Sent' /\ eRead' = None
  BY <1>2 DEF Wire!Sent
<1>. QED  BY <1>2, <1>6, <1>7 DEF WireInv, ReadRightly

LEMMA PublishOK ==
    ASSUME WireInv, Wire!Publish
    PROVE  WireInv'
<1>1. /\ Wire!Enqueued /\ eLetter = None /\ UNCHANGED <<eRequest, eRow, eRead>>
      /\ eLetter' = IF Wire!RelayTakes THEN eRow ELSE Wire!Refusal
      /\ WireHolds /\ eRow = Wire!Envelope(BodyOf)
  BY DEF Wire!Publish, WireInv
<1>2. eRead = None
  BY <1>1 DEF WireInv, Wire!Sent
<1>3. eRow \in Letters /\ eRow.type = eRequest.type /\ eRow.body = BodyOf
  BY <1>1 DEF Wire!Envelope, Letters
<1>4. eRow # Wire!Refusal
  BY <1>1 DEF Wire!Enqueued
<1>5. ~Wire!RelayTakes => eRequest \in Wire!Receipts
  <2>1. ASSUME ~Wire!RelayTakes, eRow.type = "accepted" PROVE FALSE
    <3>1. eRequest.type = "accepted" /\ BodyOf = Wire!AcceptedBody
      BY <1>3, <2>1 DEF BodyOf
    <3>2. eRow.body.scan /\ (eRow.body.exception => eRow.body.media)
      BY <1>1, <1>3, <3>1 DEF WireHolds, Wire!AcceptedBody
    <3>. QED  BY <2>1, <3>2 DEF Wire!RelayTakes
  <2>2. ASSUME ~Wire!RelayTakes PROVE eRow.type = "handover"
    BY <2>1, <2>2 DEF Wire!RelayTakes
  <2>. QED  BY <1>3, <2>2, WhatIsAsked DEF WireInv
<1>6. Wire!Enqueued' /\ WireHolds' = WireHolds /\ Letters' = Letters
      /\ Wire!Envelope(BodyOf)' = Wire!Envelope(BodyOf)
  BY <1>1
       DEF Letters, WireHolds, BodyOf, Wire!AcceptedBody, Wire!HandoverBody, Wire!RowBody,
           Wire!ResolveDiscrepancy, Wire!Envelope, Wire!Enqueued
<1>7. /\ (eLetter = Wire!Refusal => eRequest \in Wire!Receipts)'
      /\ (Wire!Sent => Wire!Enqueued /\ eLetter \in Letters)'
  BY <1>1, <1>3, <1>4, <1>5, <1>6 DEF Wire!Sent
<1>. QED  BY <1>1, <1>2, <1>6, <1>7 DEF WireInv, ReadRightly

LEMMA LaterOK ==
    ASSUME WireInv, NEW given \in {1, 2}, NEW unknown \in BOOLEAN,
           NEW trace \in {None, "valid", "invalid"}, Wire!WriteLater(given, unknown, trace)
    PROVE  WireInv'
<1>1. /\ Wire!Sent /\ eRead = None /\ UNCHANGED <<eRequest, eRow, eRead>>
      /\ eLetter' = [eLetter EXCEPT !.version = given, !.unknown = unknown, !.trace = trace]
      /\ eLetter \in Letters /\ Wire!Enqueued
  BY DEF Wire!WriteLater, WireInv
<1>2. eLetter' \in Letters
  <2> DEFINE f == [i \in {1} |-> eLetter]
  <2>1. eLetter' = [f EXCEPT ![1].version = given, ![1].unknown = unknown, ![1].trace = trace][1]
    BY <1>1
  <2>2. f \in [{1} -> Letters]
    BY <1>1
  <2>3. given \in 1 .. 2
    OBVIOUS
  <2>. QED  BY <2>1, <2>2, <2>3 DEF Letters
<1>3. /\ Letters' = Letters /\ WireHolds' = WireHolds /\ Wire!Enqueued' = Wire!Enqueued
      /\ Wire!Envelope(BodyOf)' = Wire!Envelope(BodyOf)
  BY <1>1
       DEF Letters, WireHolds, BodyOf, Wire!AcceptedBody, Wire!HandoverBody, Wire!RowBody,
           Wire!ResolveDiscrepancy, Wire!Envelope, Wire!Enqueued
<1>4. eLetter' # Wire!Refusal
  <2>1. eLetter'.type = eRequest.type /\ Wire!Refusal.type = None
    BY <1>2 DEF Letters, Wire!Refusal
  <2>2. eRequest.type # None
    BY WhatIsAsked, WireNone DEF WireInv
  <2>. QED  BY <2>1, <2>2
<1>. QED  BY <1>1, <1>2, <1>3, <1>4 DEF WireInv, ReadRightly

LEMMA ConsumeOK ==
    ASSUME WireInv, NEW consumer \in Wire!Consumers, Wire!Consume(consumer)
    PROVE  WireInv'
<1>1. /\ Wire!Sent /\ Wire!Enqueued /\ WireHolds /\ eLetter \in Letters
      /\ UNCHANGED <<eRequest, eRow, eLetter>>
  BY DEF Wire!Consume, WireInv
<1>2. /\ eLetter.type = eRequest.type /\ eLetter.body = BodyOf /\ eLetter.version \in 1 .. 2
      /\ eLetter.trace \in {None, "valid", "invalid"}
  BY <1>1 DEF Letters
<1>0. PICK taken : taken = (/\ eLetter.version = 1
                            /\ eLetter.type = consumer
                            /\ Wire!IsValid(consumer, eLetter.body))
  OBVIOUS
<1>10. /\ taken \in BOOLEAN
       /\ taken <=> eLetter.version = 1 /\ eRequest.type = consumer /\ Wire!IsValid(consumer, BodyOf)
  <2>1. taken \in BOOLEAN
    BY <1>0
  <2>2. taken <=> /\ eLetter.version = 1
                  /\ eLetter.type = consumer
                  /\ Wire!IsValid(consumer, eLetter.body)
    BY <1>0
  <2>. QED  BY <1>2, <2>1, <2>2
<1>11. PICK body, trace : /\ body = IF taken THEN eLetter.body ELSE None
                          /\ trace = IF taken THEN Wire!NormalizeTrace(eLetter.trace) ELSE None
  OBVIOUS
<1>3. /\ body = IF taken THEN BodyOf ELSE None
      /\ trace = IF taken THEN Wire!NormalizeTrace(eLetter.trace) ELSE None
      /\ eRead' = [by |-> consumer, taken |-> taken, body |-> body, trace |-> trace]
  <2>1. eRead' = [by |-> consumer, taken |-> taken, body |-> IF taken THEN eLetter.body ELSE None,
                 trace |-> IF taken THEN Wire!NormalizeTrace(eLetter.trace) ELSE None]
    BY <1>0, Zenon DEF Wire!Consume
  <2>2. eRead' = [by |-> consumer, taken |-> taken, body |-> body, trace |-> trace]
    BY <1>11, <2>1
  <2>. QED  BY <1>2, <1>11, <2>2
<1>4. trace \in {None, "valid"} /\ trace # "invalid" /\ body \in {BodyOf, None}
  BY <1>2, <1>3, WireNone DEF Wire!NormalizeTrace
<1>5. eRead' \in Readings
  BY <1>3, <1>4, <1>10 DEF Readings
<1>6. /\ Letters' = Letters /\ WireHolds' = WireHolds /\ Wire!Sent' = Wire!Sent /\ Readings' = Readings
      /\ Wire!Enqueued' = Wire!Enqueued /\ BodyOf' = BodyOf
      /\ Wire!Envelope(BodyOf)' = Wire!Envelope(BodyOf)
  BY <1>1
       DEF Letters, WireHolds, BodyOf, Wire!AcceptedBody, Wire!HandoverBody, Wire!RowBody,
           Wire!ResolveDiscrepancy, Wire!Sent, Readings, Wire!Enqueued, Wire!Envelope
<1>7. /\ eRead'.by = consumer /\ eRead'.taken = taken /\ eRead'.body = body /\ eRead'.trace = trace
  BY <1>3
<1>8. /\ eRequest.type \in Wire!Consumers
      /\ eRequest \in Wire!Acceptances <=> eRequest.type = "accepted"
      /\ eRequest \in Wire!Receipts <=> eRequest.type = "handover"
      /\ eRequest \in Wire!Rows <=> eRequest.type \in {"timeline", "audit"}
      /\ eRequest \in Wire!Acceptances \cup Wire!Receipts \cup Wire!Rows
  BY WhatIsAsked DEF WireInv
<1>9. ReadRightly'
  <2>1. CASE ~taken
    <3>1. \/ consumer # eRequest.type \/ eLetter.version > 1
          \/ consumer = eRequest.type /\ ~Wire!IsValid(eRequest.type, BodyOf)
      BY <1>2, <1>10, <2>1
    <3>2. ASSUME ~Wire!IsValid(eRequest.type, BodyOf)
          PROVE eRequest \in Wire!Rows /\ ~Wire!IsClean(eRequest)
      <4>1. eRequest.type # "accepted"
        BY <1>1, <1>8, <3>2, ConsumersAgree DEF BodyOf, Wire!IsValid
      <4>2. eRequest.type # "handover"
        BY <1>1, <1>8, <3>2, ConsumersAgree DEF BodyOf, Wire!IsValid
      <4>3. eRequest \in Wire!Rows /\ BodyOf = Wire!RowBody
        BY <1>8, <4>1, <4>2 DEF Wire!Consumers, BodyOf
      <4>. QED  BY <1>1, <1>8, <3>2, <4>3, ConsumersAgree
    <3>. QED  BY <1>1, <1>7, <2>1, <3>1, <3>2 DEF ReadRightly, Wire!IsClean
  <2>2. CASE taken
    <3>1. /\ consumer = eRequest.type /\ Wire!IsValid(eRequest.type, BodyOf) /\ body = BodyOf
      BY <1>3, <1>10, <2>2
    <3>2. eRequest \in Wire!Rows => Wire!IsClean(eRequest)
      <4>1. eRequest \in Wire!Rows => BodyOf = Wire!RowBody
        BY <1>8 DEF BodyOf
      <4>. QED  BY <1>1, <1>8, <3>1, <4>1, ConsumersAgree
    <3>. QED  BY <1>1, <1>4, <1>6, <1>7, <2>2, <3>1, <3>2 DEF ReadRightly, Wire!IsClean
  <2>. QED  BY <2>1, <2>2
<1>. QED  BY <1>1, <1>5, <1>6, <1>9 DEF WireInv

LEMMA WireStep == WireInv /\ [Wire!Next]_(Wire!vars) => WireInv'
<1> SUFFICES ASSUME WireInv, [Wire!Next]_(Wire!vars) PROVE WireInv'
  OBVIOUS
<1>1. CASE UNCHANGED Wire!vars
  BY <1>1
       DEF Wire!vars, WireInv, Wire!Sent, WireHolds, Letters, Readings, BodyOf, Wire!AcceptedBody,
           Wire!HandoverBody, Wire!RowBody,
     Wire!ResolveDiscrepancy, ReadRightly, Wire!Enqueued, Wire!Envelope, Wire!IsClean, Wire!IsValid, Wire!AcceptedIsValid, Wire!HandoverIsValid,
     Wire!TimelineIsValid, Wire!AuditIsValid, Wire!ObservationIsValid
<1>2. CASE Wire!Next
  BY <1>2, BuildOK, PublishOK, LaterOK, ConsumeOK DEF Wire!Next
<1>. QED  BY <1>1, <1>2

-----------------------------------------------------------------------------
(* BridgeLanding. BridgeInv: what the tick polled lies between what the     *)
(* source forgot and what it streamed, and the position it confirms is one  *)
(* whose changes have landed.                                               *)

MappingRow == [change: Bridge!Changes, failed: BOOLEAN, attempts: Nat]

LEMMA NoMapping == None \notin MappingRow
  BY BridgeConstants DEF MappingRow

BridgeRowsOK ==
    /\ bSlot \in Bridge!Positions /\ bStreamed \in Bridge!Positions
    /\ bLanding \in [Bridge!Changes -> Bridge!LandingRow \cup {None}]
    /\ bCheckpoint \in [landed: Bridge!Positions, eligible: Bridge!Positions, advanced: Bridge!Positions]
    /\ bTick \in [phase: {"idle", "polled", "feedback", "eligible", "told"}, batch: SUBSET Bridge!Changes]
    /\ bOutbox \subseteq Bridge!Changes
    /\ DOMAIN bMapping = Mappers
    /\ bErrors \in 0 .. MaxErrors

\* Where the tick stands: what it polled lies ahead of what the source forgot
\* and behind what was streamed, and all of it that matters is landed once the
\* batch is; the position being fed back is the one the checkpoint names.
TickStands ==
    /\ bSlot <= bStreamed
    /\ \A c \in bTick.batch : c <= bStreamed /\ (bTick.phase # "told" => bSlot < c) /\ bSlot <= c
    /\ bTick.phase = "idle" => bTick.batch = {}
    /\ \A a \in Allowed : a <= bStreamed /\ (bTick.phase = "polled" => a \notin bTick.batch) =>
           bLanding[a] # None
    /\ bTick.phase \notin {"idle", "polled"} => \A c \in bTick.batch : bLanding[c] # None
    /\ bTick.phase \in {"eligible", "told"} => \A c \in Bridge!Changes : Bridge!IsNextPosition(c) =>
           bCheckpoint.eligible = c
    /\ bTick.phase = "told" => \A c \in Bridge!Changes : Bridge!IsNextPosition(c) => bSlot = c

PointsLanded ==
    /\ bCheckpoint.landed # 0 => bLanding[bCheckpoint.landed] # None
    /\ bCheckpoint.eligible # 0 => bLanding[bCheckpoint.eligible] # None

RowStands(c) ==
    bLanding[c] # None =>
        /\ c \in Allowed
        /\ bLanding[c].state = "MAPPED" => c \in bOutbox
        /\ c \in bOutbox => bLanding[c].state = "MAPPED" \/ bLanding[c].attempts > 0
        /\ bLanding[c].state = "QUARANTINED" => bLanding[c].attempts >= MaxAttempts

MapperHolds(m) ==
    bMapping[m] # None =>
        /\ bMapping[m] \in MappingRow
        /\ bLanding[bMapping[m].change] # None
        /\ bMapping[m].failed => bMapping[m].attempts > 0

BridgeInv ==
    /\ BridgeRowsOK
    /\ TickStands
    /\ \A c \in Allowed : c <= bSlot => bLanding[c] # None
    /\ bCheckpoint.advanced <= bSlot /\ bCheckpoint.advanced <= bCheckpoint.eligible
    /\ PointsLanded
    /\ \A c \in Bridge!Changes : RowStands(c)
    /\ bOutbox \subseteq {c \in Allowed \ Unmappable : bLanding[c] # None}
    /\ \A m \in Mappers : MapperHolds(m)

LEMMA BridgeTells == BridgeInv => Bridge!TypeOK /\ Bridge!NothingIsMissed
BY
     DEF BridgeInv, BridgeRowsOK, Bridge!TypeOK, Bridge!NothingIsMissed, PointsLanded, RowStands,
         MapperHolds, MappingRow

LEMMA BridgeInit == Bridge!Init => BridgeInv
<1> SUFFICES ASSUME Bridge!Init PROVE BridgeInv
  OBVIOUS
<1>1. BridgeRowsOK
  <2>1. /\ bCheckpoint.landed = 0 /\ bCheckpoint.eligible = 0 /\ bCheckpoint.advanced = 0
        /\ bCheckpoint \in [landed: Bridge!Positions, eligible: Bridge!Positions, advanced: Bridge!Positions]
    BY BridgeConstants, NoMapping DEF Bridge!Init, Bridge!Positions
  <2>2. bTick \in [phase: {"idle", "polled", "feedback", "eligible", "told"}, batch: SUBSET Bridge!Changes]
    BY DEF Bridge!Init, Bridge!Idle
  <2>3. bLanding \in [Bridge!Changes -> Bridge!LandingRow \cup {None}]
    BY DEF Bridge!Init
  <2>. QED
    BY <2>1, <2>2, <2>3, BridgeConstants, NoMapping DEF Bridge!Init, BridgeRowsOK, Bridge!Positions
<1>2. /\ bCheckpoint.landed = 0 /\ bCheckpoint.eligible = 0 /\ bCheckpoint.advanced = 0
      /\ bTick.phase = "idle" /\ bTick.batch = {} /\ bSlot = 0 /\ bStreamed = 0 /\ bOutbox = {}
  BY DEF Bridge!Init, Bridge!Idle
<1>3. \A c \in Bridge!Changes : bLanding[c] = None
  BY DEF Bridge!Init
<1>4. TickStands
  BY <1>2, BridgeConstants, NoMapping DEF TickStands, Bridge!IsNextPosition, Bridge!Changes
<1>5. \A m \in Mappers : MapperHolds(m)
  BY DEF Bridge!Init, MapperHolds
<1>. QED
  BY <1>1, <1>2, <1>3, <1>4, <1>5, BridgeConstants, NoMapping
       DEF BridgeInv, PointsLanded, RowStands, Bridge!Changes

\* Steps of the tick after its batch landed, and of polling: no row changes.
LEMMA TickOK ==
    ASSUME BridgeInv, UNCHANGED <<bLanding, bOutbox, bMapping, bErrors>>,
           BridgeRowsOK', TickStands', PointsLanded',
           \A c \in Allowed : c <= bSlot' => bLanding[c] # None,
           bCheckpoint'.advanced <= bSlot' /\ bCheckpoint'.advanced <= bCheckpoint'.eligible
    PROVE  BridgeInv'
BY DEF BridgeInv, RowStands, MapperHolds

LEMMA PollOK ==
    ASSUME BridgeInv, NEW last \in Bridge!Changes, Bridge!Poll(last)
    PROVE  BridgeInv'
<1>1. /\ bSlot \in Nat /\ bStreamed \in Nat /\ last \in Nat /\ last > bStreamed /\ bSlot <= bStreamed /\ last <= LastChange
      /\ LastChange \in Nat
  BY BridgeConstants, NoMapping
       DEF Bridge!Poll, BridgeInv, BridgeRowsOK, TickStands, Bridge!Positions, Bridge!Changes
<1>2. PICK batch : batch = (bStreamed + 1) .. last
  OBVIOUS
<1>3. bTick' = [phase |-> "polled", batch |-> batch] /\ bStreamed' = last
      /\ UNCHANGED <<bSlot, bLanding, bCheckpoint, bOutbox, bMapping, bErrors>> /\ bTick.phase = "idle"
  BY <1>2 DEF Bridge!Poll
<1>4. bTick'.phase = "polled" /\ bTick'.batch = batch /\ batch \subseteq Bridge!Changes
  BY <1>1, <1>2, <1>3 DEF Bridge!Changes
<1>5. BridgeRowsOK'
  <2>1. bTick' \in [phase: {"idle", "polled", "feedback", "eligible", "told"}, batch: SUBSET Bridge!Changes]
    BY <1>3, <1>4
  <2>. QED  BY <1>1, <1>3, <2>1 DEF BridgeInv, BridgeRowsOK, Bridge!Positions
<1>6. TickStands'
  <2>1. ASSUME NEW a \in Allowed, a <= last, a \notin batch PROVE bLanding[a] # None
    <3>1. a \in Nat /\ a <= bStreamed
      BY <1>1, <1>2, <2>1, BridgeConstants, NoMapping DEF Bridge!Changes
    <3>. QED  BY <1>3, <3>1 DEF BridgeInv, TickStands
  <2>2. \A c \in batch : c <= last /\ bSlot < c /\ bSlot <= c
    BY <1>1, <1>2
  <2>. QED  BY <1>1, <1>3, <1>4, <2>1, <2>2 DEF TickStands
<1>. QED  BY <1>3, <1>5, <1>6, TickOK DEF BridgeInv, PointsLanded

LEMMA LandBatchOK ==
    ASSUME BridgeInv, Bridge!LandBatch
    PROVE  BridgeInv'
<1>1. PICK batch : batch = bTick.batch \cap Allowed
  OBVIOUS
<1>2. /\ bTick.phase = "polled" /\ bLanding' = Bridge!InsertLanding(batch)
      /\ UNCHANGED <<bSlot, bStreamed, bOutbox, bMapping, bErrors>>
      /\ \/ batch = {} /\ bTick' = Bridge!Idle /\ UNCHANGED bCheckpoint
         \/ \E last \in batch :
               /\ \A c \in batch : c <= last
               /\ bCheckpoint' = [bCheckpoint EXCEPT !.landed = last]
               /\ bTick' = [phase |-> "feedback", batch |-> batch]
  BY <1>1 DEF Bridge!LandBatch, Bridge!source
<1>3. batch \subseteq Bridge!Changes /\ batch \subseteq Allowed
  BY <1>1 DEF BridgeInv, BridgeRowsOK
<1>4. PICK new : new = [state |-> "PENDING", attempts |-> 0]
  OBVIOUS
<1>5. new \in Bridge!LandingRow /\ new # None /\ new.state = "PENDING" /\ new.attempts = 0
  BY <1>4, BridgeConstants, NoMapping DEF Bridge!LandingRow
<1>6. /\ bLanding' \in [Bridge!Changes -> Bridge!LandingRow \cup {None}]
      /\ \A c \in Bridge!Changes : bLanding'[c] = IF c \in batch /\ bLanding[c] = None THEN new ELSE bLanding[c]
  BY <1>2, <1>4, <1>5 DEF Bridge!InsertLanding, Bridge!NewRow, BridgeInv, BridgeRowsOK
<1>7. \A c \in Bridge!Changes : (bLanding[c] # None => bLanding'[c] = bLanding[c]) /\ (c \in batch => bLanding'[c] # None)
  BY <1>5, <1>6
<1>8. bCheckpoint' \in [landed: Bridge!Positions, eligible: Bridge!Positions, advanced: Bridge!Positions]
      /\ bCheckpoint'.eligible = bCheckpoint.eligible /\ bCheckpoint'.advanced = bCheckpoint.advanced
      /\ (bCheckpoint'.landed = bCheckpoint.landed \/ bCheckpoint'.landed \in batch)
  <2>1. CASE UNCHANGED bCheckpoint
    BY <2>1 DEF BridgeInv, BridgeRowsOK
  <2>2. ASSUME NEW last \in batch, bCheckpoint' = [bCheckpoint EXCEPT !.landed = last]
        PROVE  bCheckpoint' \in [landed: Bridge!Positions, eligible: Bridge!Positions, advanced: Bridge!Positions]
               /\ bCheckpoint'.eligible = bCheckpoint.eligible /\ bCheckpoint'.advanced = bCheckpoint.advanced
               /\ (bCheckpoint'.landed = bCheckpoint.landed \/ bCheckpoint'.landed \in batch)
    <3>1. last \in Bridge!Positions
      BY <1>3, <2>2, BridgeConstants, NoMapping DEF Bridge!Changes, Bridge!Positions
    <3>. QED  BY <2>2, <3>1 DEF BridgeInv, BridgeRowsOK
  <2>. QED  BY <1>2, <2>1, <2>2
<1>9. bTick' \in [phase: {"idle", "feedback"}, batch: SUBSET batch]
      /\ (bTick'.phase = "idle" => bTick'.batch = {})
  <2>1. CASE bTick' = Bridge!Idle
    BY <2>1 DEF Bridge!Idle
  <2>2. CASE bTick' = [phase |-> "feedback", batch |-> batch]
    BY <2>2
  <2>. QED  BY <1>2, <2>1, <2>2
<1>10. BridgeRowsOK'
  <2>1. bTick' \in [phase: {"idle", "polled", "feedback", "eligible", "told"}, batch: SUBSET Bridge!Changes]
    BY <1>3, <1>9
  <2>. QED  BY <1>2, <1>6, <1>8, <2>1 DEF BridgeInv, BridgeRowsOK
<1>11. TickStands'
  <2>1. ASSUME NEW a \in Allowed, a <= bStreamed PROVE bLanding'[a] # None
    <3>1. CASE a \in batch
      BY <1>3, <1>7, <3>1
    <3>2. CASE a \notin batch
      BY <1>1, <1>2, <1>7, <2>1, <3>2, BridgeConstants, NoMapping DEF BridgeInv, TickStands
    <3>. QED  BY <3>1, <3>2
  <2>2. \A c \in bTick'.batch : c <= bStreamed /\ bSlot < c /\ bSlot <= c
    BY <1>1, <1>2, <1>9 DEF BridgeInv, TickStands
  <2>3. \A c \in bTick'.batch : bLanding'[c] # None
    BY <1>3, <1>7, <1>9
  <2>4. bTick'.phase \in {"idle", "feedback"}
    BY <1>9
  <2>. QED  BY <1>2, <1>9, <2>1, <2>2, <2>3, <2>4 DEF BridgeInv, TickStands
<1>12. PointsLanded'
  <2>1. bCheckpoint.eligible # 0 => bCheckpoint.eligible \in Bridge!Changes
    BY BridgeConstants, NoMapping DEF BridgeInv, BridgeRowsOK, Bridge!Positions, Bridge!Changes
  <2>2. bCheckpoint.landed # 0 => bCheckpoint.landed \in Bridge!Changes
    BY BridgeConstants, NoMapping DEF BridgeInv, BridgeRowsOK, Bridge!Positions, Bridge!Changes
  <2>. QED  BY <1>3, <1>7, <1>8, <2>1, <2>2 DEF BridgeInv, PointsLanded
<1>13. \A c \in Bridge!Changes : RowStands(c)'
  BY <1>2, <1>3, <1>5, <1>6 DEF BridgeInv, RowStands
<1>14. \A m \in Mappers : MapperHolds(m)'
  BY <1>2, <1>7 DEF BridgeInv, MapperHolds, MappingRow
<1>15. (\A c \in Allowed : c <= bSlot => bLanding[c] # None)'
  BY <1>2, <1>7, BridgeConstants, NoMapping DEF BridgeInv
<1>16. (bOutbox \subseteq {c \in Allowed \ Unmappable : bLanding[c] # None})'
  BY <1>2, <1>7, BridgeConstants, NoMapping DEF BridgeInv
<1>. QED  BY <1>2, <1>8, <1>10, <1>11, <1>12, <1>13, <1>14, <1>15, <1>16 DEF BridgeInv

LEMMA EligibleOK ==
    ASSUME BridgeInv, NEW c \in Bridge!Changes, Bridge!MarkFeedbackEligible(c)
    PROVE  BridgeInv'
<1>1. /\ bTick.phase = "feedback" /\ c \in bTick.batch /\ \A d \in bTick.batch : c <= d
      /\ bCheckpoint' = [bCheckpoint EXCEPT !.eligible = c] /\ bTick' = [bTick EXCEPT !.phase = "eligible"]
      /\ UNCHANGED <<bSlot, bStreamed, bLanding, bOutbox, bMapping, bErrors>>
  BY DEF Bridge!MarkFeedbackEligible, Bridge!IsNextPosition, Bridge!source
<1>2. c \in Bridge!Positions /\ c \in Nat
  BY BridgeConstants, NoMapping DEF Bridge!Changes, Bridge!Positions
<1>3. /\ bTick'.phase = "eligible" /\ bTick'.batch = bTick.batch
      /\ bTick' \in [phase: {"idle", "polled", "feedback", "eligible", "told"}, batch: SUBSET Bridge!Changes]
  BY <1>1 DEF BridgeInv, BridgeRowsOK
<1>4. /\ bCheckpoint' \in [landed: Bridge!Positions, eligible: Bridge!Positions, advanced: Bridge!Positions]
      /\ bCheckpoint'.eligible = c /\ bCheckpoint'.landed = bCheckpoint.landed
      /\ bCheckpoint'.advanced = bCheckpoint.advanced
  BY <1>1, <1>2 DEF BridgeInv, BridgeRowsOK
<1>5. bSlot < c /\ bCheckpoint.advanced <= bSlot /\ bSlot \in Nat /\ bCheckpoint.advanced \in Nat /\ bLanding[c] # None
  BY <1>1 DEF BridgeInv, BridgeRowsOK, TickStands, Bridge!Positions
<1>6. BridgeRowsOK'
  BY <1>1, <1>3, <1>4 DEF BridgeInv, BridgeRowsOK
<1>7. \A d \in Bridge!Changes : Bridge!IsNextPosition(d)' => d = c
  BY <1>1, <1>3, <1>2, BridgeConstants, NoMapping DEF Bridge!IsNextPosition, Bridge!Changes
<1>8. TickStands'
  <2>1. \A a \in Allowed : a <= bStreamed => bLanding[a] # None
    BY <1>1 DEF BridgeInv, TickStands
  <2>2. \A d \in bTick.batch : d <= bStreamed /\ bSlot < d /\ bSlot <= d /\ bLanding[d] # None
    BY <1>1 DEF BridgeInv, TickStands
  <2>. QED  BY <1>1, <1>3, <1>4, <1>7, <2>1, <2>2 DEF BridgeInv, TickStands
<1>9. PointsLanded'
  BY <1>1, <1>4, <1>5 DEF BridgeInv, PointsLanded
<1>. QED  BY <1>1, <1>2, <1>4, <1>5, <1>6, <1>8, <1>9, TickOK DEF BridgeInv

LEMMA OnwardIs ==
    ASSUME BridgeInv, NEW c \in bTick.batch
    PROVE  /\ Bridge!Onward(c).batch = bTick.batch \ {c}
           /\ Bridge!Onward(c) \in [phase: {"idle", "feedback"}, batch: SUBSET Bridge!Changes]
           /\ Bridge!Onward(c).phase = "idle" => Bridge!Onward(c).batch = {}
<1>1. CASE bTick.batch = {c}
  BY <1>1 DEF Bridge!Onward, Bridge!Idle
<1>2. CASE bTick.batch # {c}
  <2>1. Bridge!Onward(c) = [phase |-> "feedback", batch |-> bTick.batch \ {c}]
    BY <1>2 DEF Bridge!Onward
  <2>. QED  BY <2>1 DEF BridgeInv, BridgeRowsOK
<1>. QED  BY <1>1, <1>2

\* The tick moves on to the position after c, behind which the source is.
LEMMA OnwardStands ==
    ASSUME BridgeInv, NEW c \in bTick.batch,
           \A d \in bTick.batch : c <= d, bTick.phase \in {"eligible", "told"},
           bTick' = Bridge!Onward(c), UNCHANGED <<bSlot, bStreamed, bLanding>>
    PROVE  TickStands'
<1>1. \A d \in bTick'.batch : c < d /\ d \in bTick.batch
  BY OnwardIs, BridgeConstants, NoMapping DEF BridgeInv, BridgeRowsOK, Bridge!Changes
<1>2. c \in Nat /\ bSlot <= c /\ bSlot \in Nat /\ bTick.batch \subseteq Nat
  BY BridgeConstants, NoMapping
       DEF BridgeInv, BridgeRowsOK, TickStands, Bridge!Changes, Bridge!Positions
<1>3. \A d \in bTick'.batch : bSlot < d /\ d <= bStreamed /\ bSlot <= d /\ bLanding[d] # None
  BY <1>1, <1>2 DEF BridgeInv, TickStands
<1>4. bTick'.phase \in {"idle", "feedback"} /\ (bTick'.phase = "idle" => bTick'.batch = {})
  BY OnwardIs
<1>. QED  BY <1>3, <1>4 DEF BridgeInv, TickStands

LEMMA SendFeedbackOK ==
    ASSUME BridgeInv, NEW c \in Bridge!Changes, NEW told \in BOOLEAN, Bridge!SendFeedback(c, told)
    PROVE  BridgeInv'
<1>1. /\ bTick.phase = "eligible" /\ c \in bTick.batch /\ \A d \in bTick.batch : c <= d
      /\ UNCHANGED <<bStreamed, bLanding, bCheckpoint, bOutbox, bMapping, bErrors>>
  BY DEF Bridge!SendFeedback, Bridge!IsNextPosition
<1>2. CASE ~told
  <2>1. bSlot' = bSlot /\ bTick' = Bridge!Onward(c)
    BY <1>2 DEF Bridge!SendFeedback
  <2>2. TickStands'
    BY <1>1, <2>1, OnwardStands
  <2>3. BridgeRowsOK'
    BY <1>1, <2>1, OnwardIs DEF BridgeInv, BridgeRowsOK
  <2>. QED  BY <1>1, <2>1, <2>2, <2>3, TickOK DEF BridgeInv, PointsLanded
<1>3. CASE told
  <2>1. bSlot' = c /\ bTick' = [bTick EXCEPT !.phase = "told"]
    BY <1>3 DEF Bridge!SendFeedback
  <2>2. /\ bTick'.phase = "told" /\ bTick'.batch = bTick.batch
        /\ bTick' \in [phase: {"idle", "polled", "feedback", "eligible", "told"}, batch: SUBSET Bridge!Changes]
    BY <2>1 DEF BridgeInv, BridgeRowsOK
  <2>3. c \in Bridge!Positions /\ c \in Nat /\ bSlot < c /\ c <= bStreamed /\ bSlot \in Nat /\ bStreamed \in Nat
    BY <1>1, BridgeConstants, NoMapping
         DEF BridgeInv, BridgeRowsOK, TickStands, Bridge!Changes, Bridge!Positions
  <2>4. BridgeRowsOK'
    BY <1>1, <2>1, <2>2, <2>3 DEF BridgeInv, BridgeRowsOK
  <2>5. \A d \in Bridge!Changes : Bridge!IsNextPosition(d)' => d = c
    BY <1>1, <2>2, <2>3, BridgeConstants, NoMapping DEF Bridge!IsNextPosition, Bridge!Changes
  <2>6. bCheckpoint.eligible = c
    BY <1>1 DEF BridgeInv, TickStands, Bridge!IsNextPosition
  <2>7. TickStands'
    <3>1. \A a \in Allowed : a <= bStreamed => bLanding[a] # None
      BY <1>1 DEF BridgeInv, TickStands
    <3>2. \A d \in bTick.batch : d <= bStreamed /\ c <= d /\ bLanding[d] # None
      BY <1>1 DEF BridgeInv, TickStands
    <3>. QED  BY <1>1, <2>1, <2>2, <2>3, <2>5, <2>6, <3>1, <3>2 DEF TickStands
  <2>8. \A a \in Allowed : a <= c => bLanding[a] # None
    <3>1. ASSUME NEW a \in Allowed, a <= c PROVE bLanding[a] # None
      <4>1. a \in Nat /\ a <= bStreamed
        BY <2>3, <3>1, BridgeConstants, NoMapping DEF Bridge!Changes
      <4>. QED  BY <1>1, <4>1 DEF BridgeInv, TickStands
    <3>. QED  BY <3>1
  <2>9. bCheckpoint.advanced \in Nat /\ bCheckpoint.advanced <= bSlot
    BY DEF BridgeInv, BridgeRowsOK, Bridge!Positions
  <2>. QED  BY <1>1, <2>1, <2>3, <2>4, <2>6, <2>7, <2>8, <2>9, TickOK DEF BridgeInv, PointsLanded
<1>. QED  BY <1>2, <1>3

LEMMA AdvancedOK ==
    ASSUME BridgeInv, NEW c \in Bridge!Changes, Bridge!MarkExternalSlotAdvanced(c)
    PROVE  BridgeInv'
<1>1. /\ bTick.phase = "told" /\ c \in bTick.batch /\ \A d \in bTick.batch : c <= d
      /\ bCheckpoint' = [bCheckpoint EXCEPT !.advanced = c] /\ bTick' = Bridge!Onward(c)
      /\ UNCHANGED <<bSlot, bStreamed, bLanding, bOutbox, bMapping, bErrors>>
  BY DEF Bridge!MarkExternalSlotAdvanced, Bridge!IsNextPosition, Bridge!source
<1>2. c \in Bridge!Positions /\ c \in Nat
  BY BridgeConstants, NoMapping DEF Bridge!Changes, Bridge!Positions
<1>3. /\ bCheckpoint' \in [landed: Bridge!Positions, eligible: Bridge!Positions, advanced: Bridge!Positions]
      /\ bCheckpoint'.eligible = bCheckpoint.eligible /\ bCheckpoint'.landed = bCheckpoint.landed
      /\ bCheckpoint'.advanced = c
  BY <1>1, <1>2 DEF BridgeInv, BridgeRowsOK
<1>4. bCheckpoint.eligible = c /\ bSlot = c
  BY <1>1 DEF BridgeInv, TickStands, Bridge!IsNextPosition
<1>5. TickStands'
  BY <1>1, OnwardStands
<1>6. BridgeRowsOK'
  BY <1>1, <1>3, OnwardIs DEF BridgeInv, BridgeRowsOK
<1>. QED  BY <1>1, <1>2, <1>3, <1>4, <1>5, <1>6, TickOK DEF BridgeInv, PointsLanded

LEMMA ReconnectOK ==
    ASSUME BridgeInv, Bridge!Reconnect
    PROVE  BridgeInv'
<1>1. bStreamed' = bSlot /\ bTick' = Bridge!Idle /\ UNCHANGED <<bSlot, bLanding, bCheckpoint, bOutbox, bMapping, bErrors>>
  BY DEF Bridge!Reconnect
<1>2. bTick'.phase = "idle" /\ bTick'.batch = {}
      /\ bTick' \in [phase: {"idle", "polled", "feedback", "eligible", "told"}, batch: SUBSET Bridge!Changes]
  BY <1>1 DEF Bridge!Idle
<1>3. BridgeRowsOK'
  BY <1>1, <1>2 DEF BridgeInv, BridgeRowsOK
<1>4. TickStands'
  BY <1>1, <1>2 DEF BridgeInv, BridgeRowsOK, TickStands, Bridge!Positions
<1>. QED  BY <1>1, <1>3, <1>4, TickOK DEF BridgeInv, PointsLanded

\* Steps of one mapper that change no landed row.
LEMMA MapperOK ==
    ASSUME BridgeInv, NEW m \in Mappers,
           UNCHANGED <<Bridge!source, bLanding, bCheckpoint, bTick, bOutbox>>,
           bErrors' \in 0 .. MaxErrors, DOMAIN bMapping' = Mappers,
           \A n \in Mappers : n # m => bMapping'[n] = bMapping[n], MapperHolds(m)'
    PROVE  BridgeInv'
<1>1. BridgeRowsOK' /\ TickStands' /\ PointsLanded' /\ \A c \in Bridge!Changes : RowStands(c)'
  BY
       DEF BridgeInv, BridgeRowsOK, TickStands, PointsLanded, RowStands, Bridge!source,
           Bridge!IsNextPosition
<1>2. \A n \in Mappers : MapperHolds(n)'
  BY DEF BridgeInv, MapperHolds
<1>. QED  BY <1>1, <1>2 DEF BridgeInv, Bridge!source

LEMMA ListOK ==
    ASSUME BridgeInv, NEW m \in Mappers, NEW c \in Bridge!Changes, Bridge!List(m, c)
    PROVE  BridgeInv'
<1>1. PICK row : row = [change |-> c, failed |-> FALSE, attempts |-> 0]
  OBVIOUS
<1>2. bMapping' = [bMapping EXCEPT ![m] = row] /\ UNCHANGED <<Bridge!source, bLanding, bCheckpoint, bTick, bOutbox, bErrors>>
      /\ bLanding[c] # None
  BY <1>1 DEF Bridge!List
<1>3. row \in MappingRow /\ row.change = c /\ ~row.failed
  BY <1>1 DEF MappingRow
<1>4. bMapping'[m] = row /\ DOMAIN bMapping' = Mappers /\ \A n \in Mappers : n # m =>
          bMapping'[n] = bMapping[n]
  BY <1>2 DEF BridgeInv, BridgeRowsOK
<1>5. MapperHolds(m)'
  BY <1>2, <1>3, <1>4 DEF MapperHolds
<1>. QED  BY <1>2, <1>4, <1>5, MapperOK DEF BridgeInv, BridgeRowsOK

LEMMA FailOK ==
    ASSUME BridgeInv, NEW m \in Mappers, Bridge!Fail(m)
    PROVE  BridgeInv'
<1>1. bMapping[m] # None /\ bMapping[m] \in MappingRow /\ bLanding[bMapping[m].change] # None
  BY DEF Bridge!Fail, BridgeInv, MapperHolds
<1>2. PICK c \in Bridge!Changes : c = bMapping[m].change
  BY <1>1 DEF MappingRow
<1>3. bLanding[c].attempts \in Nat
  BY <1>1, <1>2 DEF BridgeInv, BridgeRowsOK, Bridge!LandingRow
<1>4. PICK n \in Nat : n = bLanding[c].attempts + 1
  BY <1>3
<1>5. /\ bMapping' = [bMapping EXCEPT ![m].failed = TRUE, ![m].attempts = n]
      /\ UNCHANGED <<Bridge!source, bLanding, bCheckpoint, bTick, bOutbox>>
      /\ (c \notin Unmappable => bErrors < MaxErrors)
      /\ bErrors' = IF c \in Unmappable THEN bErrors ELSE bErrors + 1
  BY <1>2, <1>4 DEF Bridge!Fail
<1>6. /\ bMapping'[m].failed = TRUE /\ bMapping'[m].attempts = n /\ bMapping'[m].change = c
      /\ bMapping'[m] \in MappingRow
      /\ DOMAIN bMapping' = Mappers /\ \A k \in Mappers : k # m => bMapping'[k] = bMapping[k]
  BY <1>1, <1>2, <1>5 DEF BridgeInv, BridgeRowsOK, MappingRow
<1>7. bErrors' \in 0 .. MaxErrors
  BY <1>5, BridgeConstants, NoMapping DEF BridgeInv, BridgeRowsOK
<1>8. MapperHolds(m)'
  BY <1>1, <1>2, <1>3, <1>4, <1>5, <1>6 DEF MapperHolds
<1>. QED  BY <1>5, <1>6, <1>7, <1>8, MapperOK

LEMMA DieOK ==
    ASSUME BridgeInv, NEW m \in Mappers, Bridge!Die(m)
    PROVE  BridgeInv'
<1>1. bMapping'[m] = None /\ DOMAIN bMapping' = Mappers /\ \A n \in Mappers : n # m =>
          bMapping'[n] = bMapping[n]
  BY DEF Bridge!Die, BridgeInv, BridgeRowsOK
<1>2. MapperHolds(m)'
  BY <1>1 DEF MapperHolds
<1>. QED  BY <1>1, <1>2, MapperOK DEF Bridge!Die, BridgeInv, BridgeRowsOK

\* A step that writes one landed row and lets its mapper go.
LEMMA WrittenOK ==
    ASSUME BridgeInv, NEW m \in Mappers, NEW c \in Bridge!Changes, bLanding[c] # None,
           bLanding' \in [Bridge!Changes -> Bridge!LandingRow \cup {None}], bLanding'[c] # None,
           \A d \in Bridge!Changes : d # c => bLanding'[d] = bLanding[d],
           bMapping' = [bMapping EXCEPT ![m] = None], UNCHANGED <<Bridge!source, bCheckpoint, bTick, bErrors>>,
           \A d \in Bridge!Changes : d # c => (d \in bOutbox' <=> d \in bOutbox), RowStands(c)',
           bOutbox' \subseteq {d \in Allowed \ Unmappable : bLanding'[d] # None}
    PROVE  BridgeInv'
<1>1. \A d \in Bridge!Changes : bLanding[d] # None => bLanding'[d] # None
  OBVIOUS
<1>2. bMapping'[m] = None /\ DOMAIN bMapping' = Mappers /\ \A n \in Mappers : n # m =>
          bMapping'[n] = bMapping[n]
  BY DEF BridgeInv, BridgeRowsOK
<1>3. BridgeRowsOK'
  BY <1>2, BridgeConstants, NoMapping DEF BridgeInv, BridgeRowsOK, Bridge!source
<1>4. TickStands'
  BY <1>1, BridgeConstants, NoMapping
       DEF BridgeInv, BridgeRowsOK, TickStands, Bridge!source, Bridge!IsNextPosition
<1>5. PointsLanded'
  <2>1. bCheckpoint.eligible # 0 => bCheckpoint.eligible \in Bridge!Changes
    BY BridgeConstants, NoMapping DEF BridgeInv, BridgeRowsOK, Bridge!Positions, Bridge!Changes
  <2>2. bCheckpoint.landed # 0 => bCheckpoint.landed \in Bridge!Changes
    BY BridgeConstants, NoMapping DEF BridgeInv, BridgeRowsOK, Bridge!Positions, Bridge!Changes
  <2>. QED  BY <1>1, <2>1, <2>2 DEF BridgeInv, PointsLanded
<1>6. \A d \in Bridge!Changes : RowStands(d)'
  BY DEF BridgeInv, RowStands
<1>7. \A n \in Mappers : MapperHolds(n)'
  BY <1>1, <1>2 DEF BridgeInv, MapperHolds, MappingRow
<1>8. (\A a \in Allowed : a <= bSlot => bLanding[a] # None)'
  BY <1>1, BridgeConstants, NoMapping DEF BridgeInv, Bridge!source
<1>. QED  BY <1>3, <1>4, <1>5, <1>6, <1>7, <1>8 DEF BridgeInv, Bridge!source

LEMMA MapOK ==
    ASSUME BridgeInv, NEW m \in Mappers, Bridge!Map(m)
    PROVE  BridgeInv'
<1>1. bMapping[m] # None /\ bMapping[m] \in MappingRow /\ bLanding[bMapping[m].change] # None
  BY DEF Bridge!Map, BridgeInv, MapperHolds
<1>2. PICK c \in Bridge!Changes : c = bMapping[m].change
  BY <1>1 DEF MappingRow
<1>3. /\ c \notin Unmappable /\ bOutbox' = bOutbox \cup {c}
      /\ bLanding' = [bLanding EXCEPT ![c].state = "MAPPED"]
      /\ bMapping' = [bMapping EXCEPT ![m] = None]
      /\ UNCHANGED <<Bridge!source, bCheckpoint, bTick, bErrors>>
  BY <1>2 DEF Bridge!Map
<1>4. bLanding[c] \in Bridge!LandingRow /\ bLanding[c] # None /\ c \in Allowed
  BY <1>1, <1>2 DEF BridgeInv, BridgeRowsOK, RowStands
<1>5. /\ bLanding'[c] \in Bridge!LandingRow /\ bLanding'[c].state = "MAPPED"
      /\ \A d \in Bridge!Changes : d # c => bLanding'[d] = bLanding[d]
  BY <1>3, <1>4 DEF BridgeInv, BridgeRowsOK, Bridge!LandingRow
<1>6. bLanding' \in [Bridge!Changes -> Bridge!LandingRow \cup {None}]
  BY <1>3, <1>5 DEF BridgeInv, BridgeRowsOK
<1>7. RowStands(c)'
  BY <1>3, <1>4, <1>5 DEF RowStands
<1>8. bLanding'[c] # None
  BY <1>5, BridgeConstants, NoMapping
<1>9. bOutbox' \subseteq {d \in Allowed \ Unmappable : bLanding'[d] # None}
  BY <1>3, <1>4, <1>5, <1>8, BridgeConstants, NoMapping DEF BridgeInv
<1>. QED  BY <1>3, <1>4, <1>5, <1>6, <1>7, <1>8, <1>9, WrittenOK

LEMMA MarkFailedOK ==
    ASSUME BridgeInv, NEW m \in Mappers, Bridge!MarkMappingFailed(m)
    PROVE  BridgeInv'
<1>1. bMapping[m] # None /\ bMapping[m] \in MappingRow /\ bLanding[bMapping[m].change] # None /\ bMapping[m].attempts > 0
  BY DEF Bridge!MarkMappingFailed, BridgeInv, MapperHolds
<1>2. PICK c \in Bridge!Changes : c = bMapping[m].change
  BY <1>1 DEF MappingRow
<1>3. PICK row : row = [state |-> Bridge!StateAfter(bMapping[m].attempts), attempts |-> bMapping[m].attempts]
  OBVIOUS
<1>4. /\ bLanding' = [bLanding EXCEPT ![c] = row] /\ bMapping' = [bMapping EXCEPT ![m] = None]
      /\ UNCHANGED <<Bridge!source, bCheckpoint, bTick, bOutbox, bErrors>>
  BY <1>2, <1>3 DEF Bridge!MarkMappingFailed
<1>5. /\ row \in Bridge!LandingRow /\ row.attempts > 0 /\ row.state # "MAPPED"
      /\ row.state = "QUARANTINED" => row.attempts >= MaxAttempts
  <2>1. bMapping[m].attempts \in Nat
    BY <1>1 DEF MappingRow
  <2>2. Bridge!StateAfter(bMapping[m].attempts) \in {"QUARANTINED", "PENDING"}
        /\ (Bridge!StateAfter(bMapping[m].attempts) = "QUARANTINED" => bMapping[m].attempts >= MaxAttempts)
    BY <2>1, BridgeConstants, NoMapping DEF Bridge!StateAfter
  <2>. QED  BY <1>1, <1>3, <2>1, <2>2 DEF Bridge!LandingRow
<1>6. bLanding[c] # None /\ c \in Allowed
  BY <1>1, <1>2 DEF BridgeInv, RowStands
<1>7. /\ bLanding'[c] = row /\ row # None /\ \A d \in Bridge!Changes : d # c => bLanding'[d] = bLanding[d]
      /\ bLanding' \in [Bridge!Changes -> Bridge!LandingRow \cup {None}]
  BY <1>4, <1>5, BridgeConstants, NoMapping DEF BridgeInv, BridgeRowsOK
<1>8. RowStands(c)'
  BY <1>4, <1>5, <1>6, <1>7 DEF RowStands
<1>9. bOutbox' \subseteq {d \in Allowed \ Unmappable : bLanding'[d] # None}
  BY <1>4, <1>6, <1>7, BridgeConstants, NoMapping DEF BridgeInv
<1>. QED  BY <1>4, <1>6, <1>7, <1>8, <1>9, WrittenOK

LEMMA BridgeStep == BridgeInv /\ [Bridge!Next]_(Bridge!vars) => BridgeInv'
<1> SUFFICES ASSUME BridgeInv, [Bridge!Next]_(Bridge!vars) PROVE BridgeInv'
  OBVIOUS
<1>1. CASE UNCHANGED Bridge!vars
  BY <1>1
       DEF Bridge!vars, Bridge!source, BridgeInv, BridgeRowsOK, TickStands, Bridge!IsNextPosition,
           PointsLanded, RowStands,
     MapperHolds, MappingRow
<1>. QED
  BY <1>1, PollOK, LandBatchOK, EligibleOK, SendFeedbackOK, AdvancedOK, ReconnectOK, ListOK, MapOK,
     FailOK, MarkFailedOK, DieOK
     DEF Bridge!Next

-----------------------------------------------------------------------------
(* AddressBook. BookInv: what a request read is the row as it is or was     *)
(* under an older version, and a customer who had an address has one.       *)

LEMMA BookCounts == \A S : Book!Cardinality(S) = Cardinality(S)
  BY Zenon DEF Cardinality, IsFiniteSet, Book!Cardinality, Book!IsFiniteSet

BookBook == [Addresses -> Book!AddressRow \cup {None}]

\* What a request read is the row, or one it has had under an older version; and
\* a customer who had an address has one.
BookRead(book) ==
    /\ book \in BookBook
    /\ \A a \in Addresses :
          /\ Book!Version(book[a]) <= Book!Version(aAddress[a])
          /\ Book!Version(book[a]) = Book!Version(aAddress[a]) => book[a] = aAddress[a]
    /\ Book!Active(book) # {} => Book!Active(aAddress) # {}

HasDefault(rows) == Book!Active(rows) # {} => Book!Defaults(rows) # {}

BookInv ==
    /\ aAddress \in BookBook /\ DOMAIN aRequest = Requests
    /\ \A r \in Requests : aRequest[r] # None => BookRead(aRequest[r])
    /\ HasDefault(aAddress) /\ Book!IndexHolds(aAddress)

LEMMA BookTells == BookInv => Book!TypeOK /\ Book!OneDefault
<1> SUFFICES ASSUME BookInv PROVE Book!TypeOK /\ Book!OneDefault
  OBVIOUS
<1>1. Book!TypeOK
  BY DEF BookInv, Book!TypeOK, BookRead, BookBook
<1>2. Book!OneDefault
  <2> SUFFICES ASSUME Book!Active(aAddress) # {} PROVE Cardinality(Book!Defaults(aAddress)) = 1
    BY BookCounts DEF Book!OneDefault
  <2>1. IsFiniteSet(Book!Defaults(aAddress))
    BY BookConstants, FS_Subset DEF Book!Defaults, Book!Active
  <2>2. Book!Defaults(aAddress) # {} /\ Cardinality(Book!Defaults(aAddress)) <= 1
    BY BookCounts DEF BookInv, HasDefault, Book!IndexHolds
  <2>. QED  BY <2>1, <2>2, FS_CardinalityType, FS_EmptySet
<1>. QED  BY <1>1, <1>2

LEMMA BookInit == Book!Init => BookInv
<1> SUFFICES ASSUME Book!Init PROVE BookInv
  OBVIOUS
<1>1. Book!Active(aAddress) = {} /\ Book!Defaults(aAddress) = {}
  BY DEF Book!Init, Book!Active, Book!Defaults
<1>2. Book!IndexHolds(aAddress)
  BY <1>1, FS_EmptySet, BookCounts DEF Book!IndexHolds
<1>. QED  BY <1>1, <1>2 DEF Book!Init, BookInv, BookBook, HasDefault

LEMMA Versions == \A row \in Book!AddressRow : row.version \in Nat /\ row.version > 0
                     /\ Book!Version(row) = row.version /\ row # None
  BY BookConstants DEF Book!AddressRow, Book!Version

LEMMA VersionsAreNumbers == \A row \in Book!AddressRow \cup {None} : Book!Version(row) \in Nat
  BY Versions DEF Book!Version

\* Rows are written under a higher version, and a customer keeps an address.
BookGrows ==
    /\ aAddress' \in BookBook
    /\ \A a \in Addresses : aAddress'[a] = aAddress[a] \/ Book!Version(aAddress'[a]) > Book!Version(aAddress[a])
    /\ Book!Active(aAddress) # {} => Book!Active(aAddress') # {}

LEMMA BookReadsStayTrue ==
    ASSUME BookInv, BookGrows, NEW book, BookRead(book)
    PROVE  BookRead(book)'
<1>1. \A a \in Addresses : /\ Book!Version(book[a]) \in Nat /\ Book!Version(aAddress[a]) \in Nat
                           /\ Book!Version(aAddress'[a]) \in Nat
  BY VersionsAreNumbers DEF BookRead, BookInv, BookGrows, BookBook
<1>2. \A a \in Addresses :
          /\ Book!Version(book[a]) <= Book!Version(aAddress'[a])
          /\ Book!Version(book[a]) = Book!Version(aAddress'[a]) => book[a] = aAddress'[a]
  BY <1>1 DEF BookRead, BookGrows
<1>. QED  BY <1>2 DEF BookRead, BookGrows, Book!Version, Book!Active

LEMMA BookCommitOK ==
    ASSUME BookInv, BookGrows, NEW r \in Requests, Book!Over(r), HasDefault(aAddress'),
           Book!IndexHolds(aAddress')
    PROVE  BookInv'
<1>1. /\ DOMAIN aRequest' = Requests /\ aRequest'[r] = None
      /\ \A q \in Requests : q # r => aRequest'[q] = aRequest[q]
  BY DEF BookInv, Book!Over
<1>2. (\A q \in Requests : aRequest[q] # None => BookRead(aRequest[q]))'
  <2> SUFFICES ASSUME NEW q \in Requests, aRequest'[q] # None PROVE BookRead(aRequest[q])'
    OBVIOUS
  <2>1. PICK book : book = aRequest'[q]
    OBVIOUS
  <2>2. BookRead(book)
    BY <1>1, <2>1 DEF BookInv
  <2>3. BookRead(book)'
    BY <2>2, BookReadsStayTrue
  <2>. QED  BY <2>1, <2>3 DEF BookRead
<1>3. HasDefault(aAddress)' /\ Book!IndexHolds(aAddress)'
  <2>1. Book!Active(aAddress)' = Book!Active(aAddress') /\ Book!Defaults(aAddress)' = Book!Defaults(aAddress')
    BY DEF Book!Active, Book!Defaults
  <2>. QED  BY <2>1 DEF HasDefault, Book!IndexHolds
<1>. QED  BY <1>1, <1>2, <1>3 DEF BookInv, BookGrows, BookBook

\* A commit of one statement, and of two.
LEMMA One ==
    ASSUME NEW r, NEW w, w.at \in Addresses, Book!Commit(r, <<w>>)
    PROVE  /\ aAddress' = [a \in Addresses |-> IF a = w.at THEN w.row ELSE aAddress[a]]
           /\ Book!IndexHolds(aAddress') /\ Book!Over(r)
           /\ Book!Version(aAddress[w.at]) = Book!Version(aRequest[r][w.at])
           /\ Book!Version(aAddress[w.at]) < MaxVersion
<1>1. Len(<<w>>) = 1 /\ 1 \in DOMAIN <<w>> /\ <<w>>[1] = w
  OBVIOUS
<1>2. ASSUME NEW a \in Addresses
      PROVE  Book!After(<<w>>, 1)[a] = IF a = w.at THEN w.row ELSE aAddress[a]
  <2>1. 1 .. 1 = {1}
    OBVIOUS
  <2>. QED  BY <1>1, <2>1 DEF Book!After
<1>3. aAddress' = Book!After(<<w>>, 1) /\ Book!IndexHolds(Book!After(<<w>>, 1))
  BY <1>1 DEF Book!Commit
<1>. QED  BY <1>1, <1>2, <1>3 DEF Book!Commit, Book!After

LEMMA Two ==
    ASSUME NEW r, NEW v, NEW w, v.at \in Addresses, w.at \in Addresses, v.at # w.at,
           Book!Commit(r, <<v, w>>)
    PROVE  /\ aAddress' = [a \in Addresses |->
                             IF a = v.at THEN v.row ELSE IF a = w.at THEN w.row ELSE aAddress[a]]
           /\ Book!IndexHolds(aAddress') /\ Book!Over(r)
           /\ Book!Version(aAddress[v.at]) = Book!Version(aRequest[r][v.at])
           /\ Book!Version(aAddress[v.at]) < MaxVersion
           /\ Book!Version(aAddress[w.at]) = Book!Version(aRequest[r][w.at])
           /\ Book!Version(aAddress[w.at]) < MaxVersion
<1>1. Len(<<v, w>>) = 2 /\ {1, 2} = DOMAIN <<v, w>> /\ <<v, w>>[1] = v /\ <<v, w>>[2] = w
  OBVIOUS
<1>2. ASSUME NEW a \in Addresses
      PROVE  Book!After(<<v, w>>, 2)[a] = IF a = v.at THEN v.row ELSE IF a = w.at THEN w.row ELSE aAddress[a]
  <2>1. 1 .. 2 = {1, 2}
    OBVIOUS
  <2>. QED  BY <1>1, <2>1 DEF Book!After
<1>3. aAddress' = Book!After(<<v, w>>, 2) /\ Book!IndexHolds(Book!After(<<v, w>>, 2))
  BY <1>1 DEF Book!Commit
<1>4. \A i \in {1, 2} : /\ Book!Version(aAddress[<<v, w>>[i].at]) = Book!Version(aRequest[r][<<v, w>>[i].at])
                        /\ Book!Version(aAddress[<<v, w>>[i].at]) < MaxVersion
  BY <1>1 DEF Book!Commit
<1>5. aAddress' = [a \in Addresses |->
                             IF a = v.at THEN v.row ELSE IF a = w.at THEN w.row ELSE aAddress[a]]
  BY <1>2, <1>3 DEF Book!After
<1>. QED  BY <1>1, <1>3, <1>4, <1>5 DEF Book!Commit

\* A row that is written as it was read.
LEMMA Current ==
    ASSUME BookInv, NEW r \in Requests, aRequest[r] # None, NEW a \in Addresses,
           Book!Version(aAddress[a]) = Book!Version(aRequest[r][a])
    PROVE  aRequest[r][a] = aAddress[a]
  BY DEF BookInv, BookRead

\* Each statement writes a row.
LEMMA BookWritten ==
    ASSUME NEW a \in Addresses, NEW row \in Book!AddressRow, row.version < MaxVersion
    PROVE  /\ Book!Write(a, row).at = a
           /\ Book!Write(a, row).row \in Book!AddressRow
           /\ Book!Version(Book!Write(a, row).row) = Book!Version(row) + 1
           /\ Book!Write(a, row).row.default = row.default /\ Book!Write(a, row).row.archived = row.archived
<1>1. [row EXCEPT !.version = @ + 1] \in Book!AddressRow
  BY BookConstants DEF Book!AddressRow
<1>2. /\ [row EXCEPT !.version = @ + 1].version = row.version + 1
      /\ [row EXCEPT !.version = @ + 1].default = row.default
      /\ [row EXCEPT !.version = @ + 1].archived = row.archived
  BY BookConstants DEF Book!AddressRow
<1>3. Book!Write(a, row).at = a /\ Book!Write(a, row).row = [row EXCEPT !.version = @ + 1]
  BY DEF Book!Write
<1>. QED  BY <1>1, <1>2, <1>3, Versions

\* A commit that leaves a default does not lose what was known of the book.
LEMMA DefaultIsActive == \A rows : Book!Defaults(rows) # {} => Book!Active(rows) # {}
  BY DEF Book!Defaults

LEMMA DemotionFirst ==
    ASSUME NEW r, NEW w, Book!Defaults(aRequest[r]) # {}
    PROVE  \E d \in Book!Defaults(aRequest[r]) : Book!Demotion(r, w) = <<Book!Demoted(r, d), w>>
<1> DEFINE d == CHOOSE a \in Book!Defaults(aRequest[r]) : TRUE
<1>1. d \in Book!Defaults(aRequest[r])
  OBVIOUS
<1>2. Book!Demotion(r, w) = <<Book!Demoted(r, d), w>>
  BY DEF Book!Demotion
<1> HIDE DEF d
<1>. QED  BY <1>1, <1>2

LEMMA CreateOK ==
    ASSUME BookInv, NEW r \in Requests, NEW a \in Addresses, NEW asked \in BOOLEAN,
           Book!CreateAddress(r, a, asked)
    PROVE  BookInv'
<1>1. /\ aRequest[r] # None /\ aAddress[a] = None /\ aRequest[r][a] = None /\ BookRead(aRequest[r])
  BY DEF Book!CreateAddress, BookInv
<1>0. PICK isDefault \in BOOLEAN : isDefault = (asked \/ Book!Defaults(aRequest[r]) = {})
  OBVIOUS
<1>2. PICK new :
          /\ new = [at |-> a, row |-> [default |-> isDefault, archived |-> FALSE, version |-> 1]]
          /\ ~isDefault => Book!Defaults(aRequest[r]) # {}
          /\ Book!Commit(r, IF isDefault THEN Book!Demotion(r, new) ELSE <<new>>)
  BY <1>0 DEF Book!CreateAddress
<1>3. /\ new.at = a /\ new.row \in Book!AddressRow /\ Book!Version(new.row) = 1
      /\ new.row.default = isDefault /\ ~new.row.archived
  <2>1. new.at = a /\ new.row = [default |-> isDefault, archived |-> FALSE, version |-> 1]
    BY <1>2
  <2>2. new.row \in Book!AddressRow
    BY <2>1, BookConstants DEF Book!AddressRow
  <2>. QED  BY <2>1, <2>2, Versions
<1>4. Book!Version(aAddress[a]) = 0 /\ a \notin Book!Active(aAddress) /\ aAddress[a] \notin Book!AddressRow
  BY <1>1, BookConstants DEF Book!Version, Book!Active
<1>5. CASE ~isDefault \/ Book!Defaults(aRequest[r]) = {}
  <2>1. Book!Commit(r, <<new>>)
    BY <1>2, <1>5 DEF Book!Demotion
  <2>2. /\ aAddress' = [b \in Addresses |-> IF b = a THEN new.row ELSE aAddress[b]]
        /\ Book!IndexHolds(aAddress') /\ Book!Over(r)
    BY <1>3, <2>1, One
  <2>3. BookGrows
    <3>1. aAddress' \in BookBook
      BY <1>3, <2>2 DEF BookInv, BookBook
    <3>2. \A b \in Addresses : aAddress'[b] = aAddress[b] \/ Book!Version(aAddress'[b]) > Book!Version(aAddress[b])
      BY <1>3, <1>4, <2>2
    <3>3. a \in Book!Active(aAddress')
      BY <1>3, <2>2, Versions DEF Book!Active
    <3>. QED  BY <3>1, <3>2, <3>3 DEF BookGrows
  <2>4. Book!Defaults(aAddress') # {}
    <3>1. CASE isDefault
      <4>1. a \in Book!Defaults(aAddress')
        BY <1>3, <2>2, <3>1, Versions DEF Book!Defaults, Book!Active
      <4>. QED  BY <4>1
    <3>2. CASE ~isDefault
      <4>1. PICK d : d \in Book!Defaults(aAddress)
        BY <1>1, <1>2, <3>2, DefaultIsActive DEF BookRead, BookInv, HasDefault
      <4>2. d \in Book!Defaults(aAddress')
        BY <1>4, <2>2, <4>1 DEF Book!Defaults, Book!Active
      <4>. QED  BY <4>2
    <3>. QED  BY <3>1, <3>2
  <2>. QED  BY <2>2, <2>3, <2>4, BookCommitOK DEF HasDefault
<1>6. CASE isDefault /\ Book!Defaults(aRequest[r]) # {}
  <2>1. PICK d \in Book!Defaults(aRequest[r]) : Book!Commit(r, <<Book!Demoted(r, d), new>>)
    BY <1>2, <1>6, DemotionFirst
  <2> DEFINE old == [aRequest[r][d] EXCEPT !.default = FALSE]
  <2>2. d \in Addresses /\ aRequest[r][d] \in Book!AddressRow /\ ~aRequest[r][d].archived
    BY <1>1, <2>1 DEF Book!Defaults, Book!Active, BookRead, BookBook
  <2>3. old \in Book!AddressRow /\ old.version = aRequest[r][d].version
    BY <2>2 DEF Book!AddressRow
  <2>4. Book!Demoted(r, d).at = d /\ d # a
    BY <1>1, <2>1 DEF Book!Demoted, Book!Write, Book!Defaults, Book!Active
  <2> HIDE DEF old
  <2>5. /\ aAddress' = [b \in Addresses |-> IF b = d THEN Book!Demoted(r, d).row ELSE IF b = a THEN new.row ELSE aAddress[b]]
        /\ Book!IndexHolds(aAddress') /\ Book!Over(r)
        /\ Book!Version(aAddress[d]) = Book!Version(aRequest[r][d]) /\ Book!Version(aAddress[d]) < MaxVersion
    BY <1>3, <2>1, <2>2, <2>4, Two
  <2>6. Book!Demoted(r, d).row \in Book!AddressRow /\ Book!Version(Book!Demoted(r, d).row) > Book!Version(aAddress[d])
    <3>1. Book!Version(old) = Book!Version(aRequest[r][d]) /\ old.version < MaxVersion
      BY <2>2, <2>3, <2>5, Versions
    <3>2. Book!Demoted(r, d) = Book!Write(d, old)
      BY DEF Book!Demoted, old
    <3>. QED  BY <2>2, <2>3, <2>5, <3>1, <3>2, BookWritten, Versions
  <2>7. BookGrows
    <3>1. aAddress' \in BookBook
      BY <1>3, <2>5, <2>6 DEF BookInv, BookBook
    <3>2. \A b \in Addresses : aAddress'[b] = aAddress[b] \/ Book!Version(aAddress'[b]) > Book!Version(aAddress[b])
      BY <1>3, <1>4, <2>4, <2>5, <2>6
    <3>3. a \in Book!Active(aAddress')
      BY <1>3, <2>4, <2>5, Versions DEF Book!Active
    <3>. QED  BY <3>1, <3>2, <3>3 DEF BookGrows
  <2>8. a \in Book!Defaults(aAddress')
    BY <1>3, <1>6, <2>4, <2>5, Versions DEF Book!Defaults, Book!Active
  <2>. QED  BY <2>5, <2>7, <2>8, BookCommitOK DEF HasDefault
<1>. QED  BY <1>5, <1>6

LEMMA BookSetDefaultOK ==
    ASSUME BookInv, NEW r \in Requests, NEW a \in Addresses, Book!SetDefault(r, a)
    PROVE  BookInv'
<1>1. /\ aRequest[r] # None /\ BookRead(aRequest[r])
      /\ aRequest[r][a] \in Book!AddressRow /\ ~aRequest[r][a].archived /\ a \notin Book!Defaults(aRequest[r])
  BY DEF Book!SetDefault, BookInv, BookRead, BookBook, Book!Active
<1> DEFINE new == [aRequest[r][a] EXCEPT !.default = TRUE]
<1>2. new \in Book!AddressRow /\ new.version = aRequest[r][a].version /\ new.default /\ ~new.archived
  BY <1>1 DEF Book!AddressRow
<1> HIDE DEF new
<1>3. Book!Promoted(r, a) = Book!Write(a, new)
  BY DEF Book!Promoted, new
<1>4. Book!Version(aAddress[a]) = Book!Version(aRequest[r][a]) /\ Book!Version(aAddress[a]) < MaxVersion =>
        /\ Book!Promoted(r, a).row \in Book!AddressRow /\ Book!Version(Book!Promoted(r, a).row) > Book!Version(aAddress[a])
        /\ Book!Promoted(r, a).row.default /\ ~Book!Promoted(r, a).row.archived
        /\ a \in Book!Active(aAddress)
  <2> SUFFICES ASSUME Book!Version(aAddress[a]) = Book!Version(aRequest[r][a]),
                      Book!Version(aAddress[a]) < MaxVersion
               PROVE  /\ Book!Promoted(r, a).row \in Book!AddressRow /\ Book!Version(Book!Promoted(r, a).row) > Book!Version(aAddress[a])
                      /\ Book!Promoted(r, a).row.default /\ ~Book!Promoted(r, a).row.archived
                      /\ a \in Book!Active(aAddress)
    OBVIOUS
  <2>1. new.version < MaxVersion /\ Book!Version(new) = Book!Version(aAddress[a]) /\ Book!Version(new) \in Nat
    BY <1>1, <1>2, Versions
  <2>2. a \in Book!Active(aAddress)
    BY <1>1, Current, Versions DEF Book!Active
  <2>. QED  BY <1>2, <1>3, <2>1, <2>2, BookWritten
<1>5. Book!Promoted(r, a).at = a
  BY <1>3 DEF Book!Write
<1>6. CASE Book!Defaults(aRequest[r]) = {}
  <2>1. Book!Commit(r, <<Book!Promoted(r, a)>>)
    BY <1>6 DEF Book!SetDefault, Book!Demotion
  <2>2. /\ aAddress' = [b \in Addresses |-> IF b = a THEN Book!Promoted(r, a).row ELSE aAddress[b]]
        /\ Book!IndexHolds(aAddress') /\ Book!Over(r)
        /\ Book!Version(aAddress[a]) = Book!Version(aRequest[r][a]) /\ Book!Version(aAddress[a]) < MaxVersion
    BY <1>5, <2>1, One
  <2>3. a \in Book!Defaults(aAddress')
    BY <1>4, <2>2, Versions DEF Book!Defaults, Book!Active
  <2>4. BookGrows
    BY <1>4, <2>2, <2>3 DEF BookGrows, BookInv, BookBook, Book!Defaults
  <2>. QED  BY <2>2, <2>3, <2>4, BookCommitOK DEF HasDefault
<1>7. CASE Book!Defaults(aRequest[r]) # {}
  <2>1. PICK d \in Book!Defaults(aRequest[r]) : Book!Commit(r, <<Book!Demoted(r, d), Book!Promoted(r, a)>>)
    BY <1>7, DemotionFirst DEF Book!SetDefault
  <2> DEFINE old == [aRequest[r][d] EXCEPT !.default = FALSE]
  <2>2. d \in Addresses /\ aRequest[r][d] \in Book!AddressRow /\ d # a
    BY <1>1, <2>1 DEF Book!Defaults, Book!Active, BookRead, BookBook
  <2>3. old \in Book!AddressRow /\ old.version = aRequest[r][d].version
    BY <2>2 DEF Book!AddressRow
  <2>4. Book!Demoted(r, d).at = d
    BY DEF Book!Demoted, Book!Write
  <2> HIDE DEF old
  <2>5. /\ aAddress' = [b \in Addresses |-> IF b = d THEN Book!Demoted(r, d).row
                                           ELSE IF b = a THEN Book!Promoted(r, a).row ELSE aAddress[b]]
        /\ Book!IndexHolds(aAddress') /\ Book!Over(r)
        /\ Book!Version(aAddress[d]) = Book!Version(aRequest[r][d]) /\ Book!Version(aAddress[d]) < MaxVersion
        /\ Book!Version(aAddress[a]) = Book!Version(aRequest[r][a]) /\ Book!Version(aAddress[a]) < MaxVersion
    BY <1>5, <2>1, <2>2, <2>4, Two
  <2>6. Book!Demoted(r, d).row \in Book!AddressRow /\ Book!Version(Book!Demoted(r, d).row) > Book!Version(aAddress[d])
    <3>1. Book!Version(old) = Book!Version(aRequest[r][d]) /\ old.version < MaxVersion /\ Book!Version(old) \in Nat
      BY <2>2, <2>3, <2>5, Versions
    <3>2. Book!Demoted(r, d) = Book!Write(d, old)
      BY DEF Book!Demoted, old
    <3>. QED  BY <2>2, <2>3, <2>5, <3>1, <3>2, BookWritten
  <2>7. a \in Book!Defaults(aAddress')
    BY <1>4, <2>2, <2>5, Versions DEF Book!Defaults, Book!Active
  <2>8. BookGrows
    BY <1>4, <2>5, <2>6, <2>7 DEF BookGrows, BookInv, BookBook, Book!Defaults
  <2>. QED  BY <2>5, <2>7, <2>8, BookCommitOK DEF HasDefault
<1>. QED  BY <1>6, <1>7

LEMMA RestoreOK ==
    ASSUME BookInv, NEW r \in Requests, NEW a \in Addresses, Book!RestoreAddress(r, a)
    PROVE  BookInv'
<1>1. /\ aRequest[r] # None /\ BookRead(aRequest[r])
      /\ aRequest[r][a] \in Book!AddressRow /\ aRequest[r][a].archived
  BY DEF Book!RestoreAddress, BookInv, BookRead, BookBook
<1>2. PICK isDefault \in BOOLEAN :
          /\ isDefault <=> Book!Defaults(aRequest[r]) = {}
          /\ Book!Commit(r, <<Book!Write(a, [aRequest[r][a] EXCEPT !.archived = FALSE, !.default = isDefault])>>)
  BY DEF Book!RestoreAddress
<1>3. PICK new : new = [aRequest[r][a] EXCEPT !.archived = FALSE, !.default = isDefault]
  OBVIOUS
<1>4. /\ new \in Book!AddressRow /\ new.version = aRequest[r][a].version
      /\ new.default = isDefault /\ ~new.archived
  <2> SUFFICES ASSUME NEW row \in Book!AddressRow
               PROVE  [row EXCEPT !.archived = FALSE, !.default = isDefault]
                         = [default |-> isDefault, archived |-> FALSE, version |-> row.version]
    BY <1>1, <1>3 DEF Book!AddressRow
  <2> DEFINE f == [i \in {1} |-> row]
  <2>1. [row EXCEPT !.archived = FALSE, !.default = isDefault]
          = [f EXCEPT ![1].archived = FALSE, ![1].default = isDefault][1]
    OBVIOUS
  <2>2. f \in [{1} -> Book!AddressRow]
    OBVIOUS
  <2>. QED  BY <2>1, <2>2 DEF Book!AddressRow
<1>5. /\ aAddress' = [b \in Addresses |-> IF b = a THEN Book!Write(a, new).row ELSE aAddress[b]]
      /\ Book!IndexHolds(aAddress') /\ Book!Over(r)
      /\ Book!Version(aAddress[a]) = Book!Version(aRequest[r][a]) /\ Book!Version(aAddress[a]) < MaxVersion
  <2>1. Book!Write(a, new).at = a /\ Book!Commit(r, <<Book!Write(a, new)>>)
    BY <1>2, <1>3 DEF Book!Write
  <2>. QED  BY <2>1, One
<1>6. aAddress[a] = aRequest[r][a] /\ a \notin Book!Active(aAddress)
  BY <1>1, <1>5, Current DEF Book!Active
<1>7. /\ Book!Write(a, new).row \in Book!AddressRow /\ Book!Version(Book!Write(a, new).row) > Book!Version(aAddress[a])
      /\ Book!Write(a, new).row.default = isDefault /\ ~Book!Write(a, new).row.archived
  <2>1. new.version < MaxVersion /\ Book!Version(new) = Book!Version(aAddress[a]) /\ Book!Version(new) \in Nat
    BY <1>1, <1>4, <1>5, Versions
  <2>. QED  BY <1>4, <2>1, BookWritten
<1>8. a \in Book!Active(aAddress')
  BY <1>5, <1>7, Versions DEF Book!Active
<1>9. BookGrows
  BY <1>5, <1>7, <1>8 DEF BookGrows, BookInv, BookBook
<1>10. Book!Defaults(aAddress') # {}
  <2>1. CASE isDefault
    <3>1. a \in Book!Defaults(aAddress')
      BY <1>5, <1>7, <1>8, <2>1 DEF Book!Defaults
    <3>. QED  BY <3>1
  <2>2. CASE ~isDefault
    <3>1. PICK d : d \in Book!Defaults(aAddress)
      BY <1>1, <1>2, <2>2, DefaultIsActive DEF BookRead, BookInv, HasDefault
    <3>2. d \in Book!Defaults(aAddress')
      BY <1>5, <1>6, <3>1 DEF Book!Defaults, Book!Active
    <3>. QED  BY <3>2
  <2>. QED  BY <2>1, <2>2
<1>. QED  BY <1>5, <1>9, <1>10, BookCommitOK DEF HasDefault

LEMMA ArchiveOK ==
    ASSUME BookInv, NEW r \in Requests, NEW a \in Addresses, NEW b \in Addresses,
           Book!ArchiveAddress(r, a, b)
    PROVE  BookInv'
<1>1. /\ aRequest[r] # None /\ BookRead(aRequest[r])
      /\ aRequest[r][a] \in Book!AddressRow /\ ~aRequest[r][a].archived
  BY DEF Book!ArchiveAddress, BookInv, BookRead, BookBook, Book!Active
<1>2. PICK new : new = [aRequest[r][a] EXCEPT !.default = FALSE, !.archived = TRUE]
  OBVIOUS
<1>3. /\ new \in Book!AddressRow /\ new.version = aRequest[r][a].version
      /\ ~new.default /\ new.archived
  <2> SUFFICES ASSUME NEW row \in Book!AddressRow
               PROVE  [row EXCEPT !.default = FALSE, !.archived = TRUE]
                         = [default |-> FALSE, archived |-> TRUE, version |-> row.version]
    BY <1>1, <1>2 DEF Book!AddressRow
  <2> DEFINE f == [i \in {1} |-> row]
  <2>1. [row EXCEPT !.default = FALSE, !.archived = TRUE]
          = [f EXCEPT ![1].default = FALSE, ![1].archived = TRUE][1]
    OBVIOUS
  <2>2. f \in [{1} -> Book!AddressRow]
    OBVIOUS
  <2>. QED  BY <2>1, <2>2 DEF Book!AddressRow
<1>4. Book!Write(a, new).at = a
  BY DEF Book!Write
<1>5. Book!Version(aAddress[a]) = Book!Version(aRequest[r][a]) /\ Book!Version(aAddress[a]) < MaxVersion =>
        /\ aAddress[a] = aRequest[r][a]
        /\ Book!Write(a, new).row \in Book!AddressRow /\ Book!Version(Book!Write(a, new).row) > Book!Version(aAddress[a])
        /\ Book!Write(a, new).row.archived
  <2> SUFFICES ASSUME Book!Version(aAddress[a]) = Book!Version(aRequest[r][a]),
                      Book!Version(aAddress[a]) < MaxVersion
               PROVE  /\ aAddress[a] = aRequest[r][a]
                      /\ Book!Write(a, new).row \in Book!AddressRow /\ Book!Version(Book!Write(a, new).row) > Book!Version(aAddress[a])
                      /\ Book!Write(a, new).row.archived
    OBVIOUS
  <2>1. new.version < MaxVersion /\ Book!Version(new) = Book!Version(aAddress[a]) /\ Book!Version(new) \in Nat
    BY <1>1, <1>3, Versions
  <2>. QED  BY <1>1, <1>3, <2>1, BookWritten, Current
<1>6. CASE ~aRequest[r][a].default
  <2>1. Book!Commit(r, <<Book!Write(a, new)>>)
    BY <1>2, <1>6 DEF Book!ArchiveAddress
  <2>2. /\ aAddress' = [c \in Addresses |-> IF c = a THEN Book!Write(a, new).row ELSE aAddress[c]]
        /\ Book!IndexHolds(aAddress') /\ Book!Over(r)
        /\ Book!Version(aAddress[a]) = Book!Version(aRequest[r][a]) /\ Book!Version(aAddress[a]) < MaxVersion
    BY <1>4, <2>1, One
  <2>3. a \in Book!Active(aAddress) \ Book!Defaults(aAddress)
    BY <1>1, <1>5, <1>6, <2>2, Versions DEF Book!Active, Book!Defaults
  <2>4. PICK d : d \in Book!Defaults(aAddress)
    BY <2>3 DEF BookInv, HasDefault
  <2>5. d \in Book!Defaults(aAddress')
    BY <2>2, <2>3, <2>4 DEF Book!Defaults, Book!Active
  <2>6. BookGrows
    BY <1>5, <2>2, <2>5 DEF BookGrows, BookInv, BookBook, Book!Defaults
  <2>. QED  BY <2>2, <2>5, <2>6, BookCommitOK DEF HasDefault
<1>7. CASE aRequest[r][a].default
  <2>1. Book!Commit(r, <<Book!Promoted(r, b), Book!Write(a, new)>>) /\ b # a
    BY <1>2, <1>7 DEF Book!ArchiveAddress
  <2>2. aRequest[r][b] \in Book!AddressRow /\ ~aRequest[r][b].archived
    BY <1>1, <1>7 DEF Book!ArchiveAddress, Book!Active, BookRead, BookBook
  <2> DEFINE up == [aRequest[r][b] EXCEPT !.default = TRUE]
  <2>3. up \in Book!AddressRow /\ up.version = aRequest[r][b].version /\ up.default /\ ~up.archived
    BY <2>2 DEF Book!AddressRow
  <2> HIDE DEF up
  <2>4. Book!Promoted(r, b) = Book!Write(b, up) /\ Book!Promoted(r, b).at = b
    BY DEF Book!Promoted, Book!Write, up
  <2>5. /\ aAddress' = [c \in Addresses |-> IF c = b THEN Book!Promoted(r, b).row
                                           ELSE IF c = a THEN Book!Write(a, new).row ELSE aAddress[c]]
        /\ Book!IndexHolds(aAddress') /\ Book!Over(r)
        /\ Book!Version(aAddress[b]) = Book!Version(aRequest[r][b]) /\ Book!Version(aAddress[b]) < MaxVersion
        /\ Book!Version(aAddress[a]) = Book!Version(aRequest[r][a]) /\ Book!Version(aAddress[a]) < MaxVersion
    BY <1>4, <2>1, <2>4, Two
  <2>6. /\ Book!Promoted(r, b).row \in Book!AddressRow /\ Book!Version(Book!Promoted(r, b).row) > Book!Version(aAddress[b])
        /\ Book!Promoted(r, b).row.default /\ ~Book!Promoted(r, b).row.archived
    <3>1. up.version < MaxVersion /\ Book!Version(up) = Book!Version(aAddress[b]) /\ Book!Version(up) \in Nat
      BY <2>2, <2>3, <2>5, Versions
    <3>. QED  BY <2>3, <2>4, <3>1, BookWritten
  <2>7. b \in Book!Defaults(aAddress')
    BY <2>5, <2>6, Versions DEF Book!Defaults, Book!Active
  <2>8. BookGrows
    BY <1>5, <2>5, <2>6, <2>7 DEF BookGrows, BookInv, BookBook, Book!Defaults
  <2>. QED  BY <2>5, <2>7, <2>8, BookCommitOK DEF HasDefault
<1>. QED  BY <1>6, <1>7

LEMMA BookReadsOK ==
    ASSUME BookInv, (\E r \in Requests : Book!Begin(r) \/ Book!GiveUp(r)) \/ UNCHANGED Book!vars
    PROVE  BookInv'
<1>1. UNCHANGED aAddress
  BY DEF Book!Begin, Book!GiveUp, Book!vars
<1>2. BookGrows /\ HasDefault(aAddress') /\ Book!IndexHolds(aAddress')
  BY <1>1 DEF BookGrows, BookInv
<1>3. ASSUME NEW r \in Requests, Book!Over(r)
      PROVE  BookInv'
  BY <1>2, <1>3, BookCommitOK
<1>4. ASSUME UNCHANGED Book!vars
      PROVE  BookInv'
  BY <1>4
       DEF Book!vars, BookInv, BookRead, Book!Version, Book!Active, Book!Defaults, HasDefault,
           Book!IndexHolds
<1>5. ASSUME NEW r \in Requests, Book!Begin(r)
      PROVE  BookInv'
  <2>1. /\ DOMAIN aRequest' = Requests /\ aRequest'[r] = aAddress
        /\ \A q \in Requests : q # r => aRequest'[q] = aRequest[q]
    BY <1>5 DEF Book!Begin, BookInv
  <2>2. BookRead(aAddress)
    <3>1. \A a \in Addresses : Book!Version(aAddress[a]) \in Nat
      BY VersionsAreNumbers DEF BookInv, BookBook
    <3>. QED  BY <3>1 DEF BookRead, BookInv
  <2>3. (\A q \in Requests : aRequest[q] # None => BookRead(aRequest[q]))'
    <3> SUFFICES ASSUME NEW q \in Requests, aRequest'[q] # None PROVE BookRead(aRequest[q])'
      OBVIOUS
    <3>1. PICK book : book = aRequest'[q]
      OBVIOUS
    <3>2. BookRead(book)
      BY <2>1, <2>2, <3>1 DEF BookInv
    <3>3. BookRead(book)'
      BY <1>2, <3>2, BookReadsStayTrue
    <3>. QED  BY <3>1, <3>3 DEF BookRead
  <2>4. HasDefault(aAddress)' /\ Book!IndexHolds(aAddress)'
    BY <1>1 DEF BookInv, HasDefault, Book!IndexHolds, Book!Active, Book!Defaults
  <2>. QED  BY <1>1, <2>1, <2>3, <2>4 DEF BookInv, BookBook
<1>. QED  BY <1>3, <1>4, <1>5 DEF Book!GiveUp

LEMMA BookStep == BookInv /\ [Book!Next]_(Book!vars) => BookInv'
<1> SUFFICES ASSUME BookInv, [Book!Next]_(Book!vars) PROVE BookInv'
  OBVIOUS
<1>. QED  BY CreateOK, BookSetDefaultOK, RestoreOK, ArchiveOK, BookReadsOK DEF Book!Next

-----------------------------------------------------------------------------
(* TimelineConsumer. TimelineRowsOK for any number of handlers; AloneInv    *)
(* when transactions do not overlap, and the dictionaries and the session   *)
(* hold what their handler has staged itself.                               *)

Dictionaries ==
    [session: Handlers, inbox: [Events -> Observing!Statuses \cup {None}], entries: SUBSET Events]

Committing == {"entries", "flush"}

Work ==
    {w \in [event: Events, step: Observing!Steps, answer: {None, "ACK", "NAK"},
            session: Handlers \cup {None}] : w.step \in Committing <=> w.session # None}

LEMMA NoWork == None \notin Work /\ None \notin Dictionaries /\ None \notin Observing!Rows /\ None \notin Handlers
  BY TimelineConstants DEF Work, Dictionaries

TimelineRowsOK ==
    /\ tMsg \in [Events -> {"ready", "out", "acked"}]
    /\ tDeliveries \in [Events -> 0 .. MaxDeliver]
    /\ tRecord \in [Events -> Observing!Statuses \cup {None}]
    /\ tTimeline \subseteq Events
    /\ tStore \in Dictionaries \cup {None}
    /\ tMerged \in [Handlers -> Observing!Rows \cup {None}]
    /\ tHandler \in [Handlers -> Work \cup {None}]

LEMMA TimelineTells == TimelineRowsOK => Observing!TypeOK
<1> SUFFICES ASSUME TimelineRowsOK PROVE Observing!TypeOK
  OBVIOUS
<1>1. \A h \in Handlers : tHandler[h] # None =>
        /\ tHandler[h].event \in Events /\ tHandler[h].step \in Observing!Steps
        /\ tHandler[h].answer \in {None, "ACK", "NAK"}
        /\ tHandler[h].step \in {"entries", "flush"} <=> tHandler[h].session # None
  BY DEF TimelineRowsOK, Work, Committing
<1>. QED  BY <1>1 DEF TimelineRowsOK, Observing!TypeOK, Dictionaries, Observing!StoreSessions

LEMMA NothingIsRows == Observing!Nothing \in Observing!Rows /\ Observing!Nothing # None
  BY NoWork DEF Observing!Nothing, Observing!Rows

LEMMA OpenedIsDictionaries == \A s \in Handlers : Observing!Opened(s) \in Dictionaries
  BY DEF Observing!Opened, Observing!Nothing, Dictionaries

LEMMA TimelineInit == Observing!Init => TimelineRowsOK
  BY TimelineConstants, NoWork, NothingIsRows DEF Observing!Init, TimelineRowsOK, Observing!StoreSessions

\* Where a step leaves its handler.
LEMMA WentTo ==
    ASSUME TimelineRowsOK, NEW h \in Handlers, tHandler[h] # None,
           \/ \E s \in Observing!Steps : Observing!Goto(h, s) /\ (s \in Committing <=> tHandler[h].session # None)
           \/ \E a \in {"ACK", "NAK"} : Observing!Answer(h, a)
    PROVE  /\ tHandler' \in [Handlers -> Work \cup {None}]
           /\ tHandler'[h] # None /\ tHandler'[h].event = tHandler[h].event
           /\ \A g \in Handlers : g # h => tHandler'[g] = tHandler[g]
           /\ \A s \in Observing!Steps : Observing!Goto(h, s) =>
                 tHandler'[h].step = s /\ tHandler'[h].session = tHandler[h].session
           /\ \A a \in {"ACK", "NAK"} : Observing!Answer(h, a) =>
                 tHandler'[h].step = "answer" /\ tHandler'[h].answer = a
<1>1. tHandler[h] \in Work
  BY DEF TimelineRowsOK
<1>2. ASSUME NEW s \in Observing!Steps, Observing!Goto(h, s)
      PROVE  /\ tHandler'[h] = [tHandler[h] EXCEPT !.step = s]
             /\ tHandler'[h].event = tHandler[h].event /\ tHandler'[h].step = s
             /\ tHandler'[h].session = tHandler[h].session
             /\ (s \in Committing <=> tHandler[h].session # None) => tHandler'[h] \in Work
  <2>1. tHandler'[h] = [tHandler[h] EXCEPT !.step = s]
    BY <1>2 DEF Observing!Goto, TimelineRowsOK
  <2>. QED  BY <1>1, <1>2, <2>1 DEF Work
<1>3. ASSUME NEW a \in {"ACK", "NAK"}, Observing!Answer(h, a)
      PROVE  /\ tHandler'[h] \in Work /\ tHandler'[h].event = tHandler[h].event
             /\ tHandler'[h].step = "answer" /\ tHandler'[h].answer = a
  <2>1. tHandler'[h] = [tHandler[h] EXCEPT !.step = "answer", !.answer = a, !.session = None]
    BY <1>3 DEF Observing!Answer, TimelineRowsOK
  <2>. QED  BY <1>1, <1>3, <2>1 DEF Work, Observing!Steps, Committing
<1>4. /\ DOMAIN tHandler' = Handlers /\ tHandler' = [g \in Handlers |-> tHandler'[g]]
      /\ \A g \in Handlers : g # h => tHandler'[g] = tHandler[g]
  BY DEF Observing!Goto, Observing!Answer, TimelineRowsOK
<1>5. tHandler'[h] \in Work
  BY <1>2, <1>3
<1>6. \A g \in Handlers : tHandler'[g] \in Work \cup {None}
  BY <1>4, <1>5 DEF TimelineRowsOK
<1>7. tHandler'[h].event = tHandler[h].event
  BY <1>2, <1>3
<1>8. tHandler'[h] # None
  BY <1>5, NoWork
<1>. QED  BY <1>2, <1>3, <1>4, <1>6, <1>7, <1>8

\* The session that commit() has remembered.
LEMMA ItsSession ==
    ASSUME TimelineRowsOK, NEW h \in Handlers, NEW step, Observing!At(h, step)
    PROVE  /\ tHandler[h] # None /\ tHandler[h].step = step /\ tHandler[h].event \in Events
           /\ step \in Committing <=> tHandler[h].session # None
           /\ step \in Committing => tHandler[h].session \in Handlers
  BY DEF Observing!At, TimelineRowsOK, Work

LEMMA StepOfAHandlerOK ==
    ASSUME TimelineRowsOK, NEW h \in Handlers,
           \/ \E e \in Events : Observing!Fetch(h, e)
           \/ Observing!Begin(h) \/ Observing!InsertReceived(h) \/ Observing!Duplicate(h) \/ Observing!Project(h)
           \/ Observing!MarkProcessed(h) \/ Observing!MergeRecords(h) \/ Observing!MergeEntries(h)
           \/ Observing!Commit(h) \/ Observing!StoreGone(h)
           \/ \E lost \in BOOLEAN : Observing!Respond(h, lost)
    PROVE  TimelineRowsOK' /\ Observing!RecordsStay
<1>1. ASSUME NEW e \in Events, Observing!Fetch(h, e) PROVE TimelineRowsOK' /\ Observing!RecordsStay
  <2>1. [event |-> e, step |-> "begin", answer |-> None, session |-> None] \in Work
    BY DEF Work, Observing!Steps, Committing
  <2>2. tDeliveries[e] + 1 \in 0 .. MaxDeliver
    BY <1>1, TimelineConstants, NoWork DEF Observing!Fetch, TimelineRowsOK
  <2>. QED
    BY <1>1, <2>1, <2>2
         DEF Observing!Fetch, TimelineRowsOK, Observing!RecordsStay, Observing!database
<1>2. ASSUME UNCHANGED <<Observing!broker, tRecord, tTimeline>>, tHandler[h] # None,
             \/ \E s \in Observing!Steps : Observing!Goto(h, s) /\ (s \in Committing <=> tHandler[h].session # None)
             \/ \E a \in {"ACK", "NAK"} : Observing!Answer(h, a),
             tStore' \in Dictionaries \cup {None}, tMerged' \in [Handlers -> Observing!Rows \cup {None}]
      PROVE  TimelineRowsOK' /\ Observing!RecordsStay
  <2>1. tHandler' \in [Handlers -> Work \cup {None}]
    BY <1>2, WentTo
  <2>. QED  BY <1>2, <2>1 DEF TimelineRowsOK, Observing!RecordsStay, Observing!broker
<1>3. ASSUME tStore # None
      PROVE /\ tStore.inbox \in [Events -> Observing!Statuses \cup {None}] /\ tStore.entries \subseteq Events
            /\ tStore.session \in Handlers
  BY <1>3 DEF TimelineRowsOK, Dictionaries
<1>4. tHandler[h] # None => tHandler[h].event \in Events
  BY DEF TimelineRowsOK, Work
<1>5. ASSUME tStore # None, tHandler[h] # None, NEW s \in Observing!Statuses,
             tStore' = [tStore EXCEPT !.inbox[tHandler[h].event] = s]
      PROVE  tStore' \in Dictionaries
  <2>1. tStore \in Dictionaries
    BY <1>5 DEF TimelineRowsOK
  <2>2. [tStore.inbox EXCEPT ![tHandler[h].event] = s] \in [Events -> Observing!Statuses \cup {None}]
    BY <1>3, <1>4, <1>5
  <2>3. tStore' = [tStore EXCEPT !.inbox = [tStore.inbox EXCEPT ![tHandler[h].event] = s]]
    BY <1>5
  <2>. QED  BY <2>1, <2>2, <2>3 DEF Dictionaries
\* What the steps before commit() do to the sessions: nothing, or they empty one.
<1>6. tMerged \in [Handlers -> Observing!Rows \cup {None}] /\ tStore \in Dictionaries \cup {None}
  BY DEF TimelineRowsOK
<1>7. ASSUME Observing!Begin(h) PROVE TimelineRowsOK' /\ Observing!RecordsStay
  <2>1. PICK s \in Handlers : tStore' = Observing!Opened(s) /\ tMerged' = [tMerged EXCEPT ![s] = Observing!Nothing]
    BY <1>7 DEF Observing!Begin, Observing!StoreSessions
  <2>2. tStore' \in Dictionaries /\ tMerged' \in [Handlers -> Observing!Rows \cup {None}]
    BY <1>6, <2>1, OpenedIsDictionaries, NothingIsRows
  <2>3. Observing!At(h, "begin") /\ Observing!Goto(h, "insert") /\ UNCHANGED <<Observing!broker, tRecord, tTimeline>>
    BY <1>7 DEF Observing!Begin, Observing!database
  <2>. QED  BY <1>2, <2>2, <2>3, ItsSession DEF Observing!Steps, Committing
<1>8. ASSUME Observing!InsertReceived(h) PROVE TimelineRowsOK' /\ Observing!RecordsStay
  <2>1. PICK s \in Observing!Statuses : tStore' = [tStore EXCEPT !.inbox[tHandler[h].event] = s]
    BY <1>8 DEF Observing!InsertReceived, Observing!Statuses
  <2>2. /\ Observing!At(h, "insert") /\ tStore # None /\ UNCHANGED <<Observing!broker, tRecord, tTimeline>>
        /\ UNCHANGED tMerged /\ \E t \in {"commit", "project"} : Observing!Goto(h, t)
    BY <1>8 DEF Observing!InsertReceived, Observing!database
  <2>3. tStore' \in Dictionaries
    BY <1>5, <2>1, <2>2, ItsSession
  <2>. QED  BY <1>2, <1>6, <2>2, <2>3, ItsSession DEF Observing!Steps, Committing
<1>9. ASSUME Observing!Duplicate(h) PROVE TimelineRowsOK' /\ Observing!RecordsStay
  <2>1. Observing!At(h, "insert") /\ tStore # None /\ UNCHANGED <<Observing!broker, tRecord, tTimeline>>
    BY <1>9 DEF Observing!Duplicate, Observing!database
  <2>2. CASE Observing!Malformed(tHandler[h].event)
    <3>1. Observing!Goto(h, "commit") /\ UNCHANGED <<tStore, tMerged>>
      BY <1>9, <2>2 DEF Observing!Duplicate
    <3>. QED  BY <1>2, <1>6, <2>1, <3>1, ItsSession DEF Observing!Steps, Committing
  <2>3. CASE ~Observing!Malformed(tHandler[h].event)
    <3>1. /\ tStore' = None /\ tMerged' = [tMerged EXCEPT ![tStore.session] = Observing!Nothing]
          /\ \E a \in {"ACK", "NAK"} : Observing!Answer(h, a)
      BY <1>9, <2>3 DEF Observing!Duplicate, Observing!Rollback
    <3>2. tMerged' \in [Handlers -> Observing!Rows \cup {None}]
      BY <1>3, <1>6, <2>1, <3>1, NothingIsRows
    <3>. QED  BY <1>2, <2>1, <3>1, <3>2, ItsSession
  <2>. QED  BY <2>2, <2>3
<1>10. ASSUME Observing!Project(h) PROVE TimelineRowsOK' /\ Observing!RecordsStay
  <2>1. /\ Observing!At(h, "project") /\ tStore # None /\ UNCHANGED <<Observing!broker, tRecord, tTimeline>>
        /\ UNCHANGED tMerged /\ Observing!Goto(h, "mark")
    BY <1>10 DEF Observing!Project, Observing!database
  <2>2. tStore' \in Dictionaries
    <3>1. tStore \in Dictionaries /\ tStore.entries \cup {tHandler[h].event} \subseteq Events
      BY <1>3, <1>4, <1>6, <2>1, ItsSession
    <3>2. tStore' = [tStore EXCEPT !.entries = tStore.entries \cup {tHandler[h].event}]
      BY <1>10 DEF Observing!Project
    <3>. QED  BY <3>1, <3>2 DEF Dictionaries
  <2>. QED  BY <1>2, <1>6, <2>1, <2>2, ItsSession DEF Observing!Steps, Committing
<1>11. ASSUME Observing!MarkProcessed(h) PROVE TimelineRowsOK' /\ Observing!RecordsStay
  <2>1. /\ Observing!At(h, "mark") /\ tStore # None /\ UNCHANGED <<Observing!broker, tRecord, tTimeline>>
        /\ UNCHANGED tMerged
    BY <1>11 DEF Observing!MarkProcessed, Observing!database
  <2>2. CASE tStore.inbox[tHandler[h].event] = None
    <3>1. Observing!Answer(h, "NAK") /\ UNCHANGED tStore
      BY <1>11, <2>2 DEF Observing!MarkProcessed, Observing!Unhandled
    <3>. QED  BY <1>2, <1>6, <2>1, <3>1, ItsSession
  <2>3. CASE tStore.inbox[tHandler[h].event] # None
    <3>1. Observing!Goto(h, "commit") /\ tStore' = [tStore EXCEPT !.inbox[tHandler[h].event] = "PROCESSED"]
      BY <1>11, <2>3 DEF Observing!MarkProcessed
    <3>2. tStore' \in Dictionaries
      BY <1>5, <2>1, <3>1, ItsSession DEF Observing!Statuses
    <3>. QED  BY <1>2, <1>6, <2>1, <3>1, <3>2, ItsSession DEF Observing!Steps, Committing
  <2>. QED  BY <2>2, <2>3
<1>12. ASSUME Observing!MergeRecords(h) PROVE TimelineRowsOK' /\ Observing!RecordsStay
  <2>1. Observing!At(h, "commit") /\ tStore # None /\ UNCHANGED <<Observing!broker, tRecord, tTimeline>>
    BY <1>12 DEF Observing!MergeRecords, Observing!database
  <2>2. CASE tMerged[tStore.session] = None
    <3>1. Observing!Answer(h, "NAK") /\ UNCHANGED <<tStore, tMerged>>
      BY <1>12, <2>2 DEF Observing!MergeRecords, Observing!Unhandled
    <3>. QED  BY <1>2, <1>6, <2>1, <3>1, ItsSession
  <2>3. CASE tMerged[tStore.session] # None
    <3>1. PICK s \in Handlers : s = tStore.session
      BY <1>3, <2>1
    <3>2. /\ tMerged' = [tMerged EXCEPT ![s].inbox = tStore.inbox] /\ UNCHANGED tStore
          /\ tHandler' = [tHandler EXCEPT ![h].step = "entries", ![h].session = s]
      BY <1>12, <2>3, <3>1 DEF Observing!MergeRecords
    <3>3. tMerged' \in [Handlers -> Observing!Rows \cup {None}]
      <4>1. tMerged[s] \in Observing!Rows
        BY <1>6, <2>3, <3>1
      <4>2. [tMerged[s] EXCEPT !.inbox = tStore.inbox] \in Observing!Rows
        BY <1>3, <2>1, <4>1 DEF Observing!Rows
      <4>. QED  BY <1>6, <3>2, <4>2
    <3>4. tHandler' \in [Handlers -> Work \cup {None}]
      <4>1. tHandler[h] \in Work /\ s # None
        BY <2>1, ItsSession, NoWork DEF TimelineRowsOK
      <4>2. [tHandler[h] EXCEPT !.step = "entries", !.session = s] \in Work
        BY <4>1 DEF Work, Observing!Steps, Committing
      <4>. QED  BY <3>2, <4>2 DEF TimelineRowsOK
    <3>. QED  BY <2>1, <3>2, <3>3, <3>4 DEF TimelineRowsOK, Observing!RecordsStay, Observing!broker
  <2>. QED  BY <2>2, <2>3
<1>13. ASSUME Observing!MergeEntries(h) PROVE TimelineRowsOK' /\ Observing!RecordsStay
  <2>1. Observing!At(h, "entries") /\ tStore # None /\ UNCHANGED <<Observing!broker, tRecord, tTimeline>>
    BY <1>13 DEF Observing!MergeEntries, Observing!database
  <2>2. PICK s \in Handlers : s = tHandler[h].session
    BY <2>1, ItsSession DEF Committing
  <2>3. CASE tMerged[s] = None
    <3>1. Observing!Answer(h, "NAK") /\ UNCHANGED <<tStore, tMerged>>
      BY <1>13, <2>2, <2>3 DEF Observing!MergeEntries, Observing!Unhandled
    <3>. QED  BY <1>2, <1>6, <2>1, <3>1, ItsSession
  <2>4. CASE tMerged[s] # None
    <3>1. /\ tMerged' = [tMerged EXCEPT ![s].entries = @ \cup tStore.entries]
          /\ Observing!Goto(h, "flush") /\ UNCHANGED tStore
      BY <1>13, <2>2, <2>4 DEF Observing!MergeEntries
    <3>2. tMerged' \in [Handlers -> Observing!Rows \cup {None}]
      <4>1. tMerged[s] \in Observing!Rows
        BY <1>6, <2>4
      <4>2. [tMerged[s] EXCEPT !.entries = tMerged[s].entries \cup tStore.entries] \in Observing!Rows
        BY <1>3, <2>1, <4>1 DEF Observing!Rows
      <4>. QED  BY <1>6, <3>1, <4>2
    <3>. QED  BY <1>2, <1>6, <2>1, <3>1, <3>2, ItsSession DEF Observing!Steps, Committing
  <2>. QED  BY <2>3, <2>4
<1>14. ASSUME Observing!Commit(h) PROVE TimelineRowsOK' /\ Observing!RecordsStay
  <2>1. Observing!At(h, "flush") /\ UNCHANGED Observing!broker
    BY <1>14 DEF Observing!Commit
  <2>2. PICK s \in Handlers : s = tHandler[h].session
    BY <2>1, ItsSession DEF Committing
  <2>3. PICK rows \in Observing!Rows \cup {None} : rows = tMerged[s]
    BY <1>6
  <2>4. CASE rows # None /\ Observing!KeysHold(rows)
    <3>1. /\ tRecord' = [e \in Events |-> IF rows.inbox[e] = None THEN tRecord[e] ELSE rows.inbox[e]]
          /\ tTimeline' = tTimeline \cup rows.entries /\ tStore' = None /\ Observing!Answer(h, "ACK")
          /\ tMerged' = [tMerged EXCEPT ![s] = Observing!Nothing]
      BY <1>14, <2>2, <2>3, <2>4 DEF Observing!Commit
    <3>2. tHandler' \in [Handlers -> Work \cup {None}]
      BY <2>1, <3>1, ItsSession, WentTo
    <3>3. tRecord' \in [Events -> Observing!Statuses \cup {None}] /\ tTimeline' \subseteq Events
      BY <2>3, <2>4, <3>1 DEF TimelineRowsOK, Observing!Rows
    <3>4. Observing!RecordsStay
      BY <2>4, <3>1 DEF Observing!RecordsStay, Observing!KeysHold
    <3>5. tMerged' \in [Handlers -> Observing!Rows \cup {None}]
      BY <1>6, <3>1, NothingIsRows
    <3>. QED  BY <2>1, <3>1, <3>2, <3>3, <3>4, <3>5 DEF TimelineRowsOK, Observing!broker
  <2>5. CASE ~(rows # None /\ Observing!KeysHold(rows))
    <3>1. /\ Observing!Answer(h, "NAK") /\ UNCHANGED <<tStore, tRecord, tTimeline>>
          /\ tMerged' = [tMerged EXCEPT ![s] = None]
      BY <1>14, <2>2, <2>3, <2>5 DEF Observing!Commit, Observing!Unhandled, Observing!database
    <3>2. tMerged' \in [Handlers -> Observing!Rows \cup {None}]
      BY <1>6, <3>1
    <3>. QED  BY <1>2, <1>6, <2>1, <3>1, <3>2, ItsSession
  <2>. QED  BY <2>4, <2>5
<1>15. ASSUME Observing!StoreGone(h) PROVE TimelineRowsOK' /\ Observing!RecordsStay
  <2>1. /\ tHandler[h] # None /\ Observing!Answer(h, "NAK") /\ UNCHANGED <<tStore, tMerged>>
        /\ UNCHANGED <<Observing!broker, tRecord, tTimeline>>
    BY <1>15 DEF Observing!StoreGone, Observing!Unhandled, Observing!database
  <2>. QED  BY <1>2, <1>6, <2>1
<1>16. ASSUME NEW lost \in BOOLEAN, Observing!Respond(h, lost)
       PROVE TimelineRowsOK' /\ Observing!RecordsStay
  <2>1. tHandler' \in [Handlers -> Work \cup {None}]
    BY <1>16 DEF Observing!Respond, TimelineRowsOK
  <2>2. tMsg' \in [Events -> {"ready", "out", "acked"}]
    BY <1>16 DEF Observing!Respond, TimelineRowsOK
  <2>. QED
    BY <1>16, <2>1, <2>2
         DEF Observing!Respond, TimelineRowsOK, Observing!RecordsStay, Observing!database
<1>. QED
  BY <1>1, <1>7, <1>8, <1>9, <1>10, <1>11, <1>12, <1>13, <1>14, <1>15, <1>16

LEMMA TimelineStep == TimelineRowsOK /\ [Observing!Next]_(Observing!vars) =>
    TimelineRowsOK' /\ Observing!RecordsStay
<1> SUFFICES ASSUME TimelineRowsOK, [Observing!Next]_(Observing!vars)
             PROVE TimelineRowsOK' /\ Observing!RecordsStay
  OBVIOUS
<1>1. CASE UNCHANGED Observing!vars
  BY <1>1
       DEF Observing!vars, Observing!broker, Observing!database, TimelineRowsOK,
           Observing!RecordsStay
<1>2. ASSUME NEW e \in Events, Observing!Redeliver(e) PROVE TimelineRowsOK' /\ Observing!RecordsStay
  BY <1>2 DEF Observing!Redeliver, Observing!database, TimelineRowsOK, Observing!RecordsStay
<1>3. CASE Observing!Die
  BY <1>3, NothingIsRows
       DEF Observing!Die, Observing!broker, Observing!database, TimelineRowsOK,
           Observing!RecordsStay, Observing!StoreSessions
<1>. QED  BY <1>1, <1>2, <1>3, StepOfAHandlerOK DEF Observing!Next

-----------------------------------------------------------------------------
\* With no other in a transaction, a handler finds what it has staged itself.

Alone(e, status, entries) == [inbox |-> [f \in Events |-> IF f = e THEN status ELSE None], entries |-> entries]

Outcome(e, rows) ==
    \/ Observing!Malformed(e) /\ rows = Alone(e, "QUARANTINED", {})
    \/ ~Observing!Malformed(e) /\ rows = Alone(e, "PROCESSED", {e})

\* What is in the dictionaries, and in the session that is open.
Staging(rows, held) ==
    /\ tStore # None /\ tStore.inbox = rows.inbox /\ tStore.entries = rows.entries
    /\ tMerged[tStore.session] = held

Staged(h) ==
    LET e == tHandler[h].event
        s == tHandler[h].session
    IN  /\ tHandler[h].step = "insert" => Staging(Observing!Nothing, Observing!Nothing)
        /\ tHandler[h].step = "project" =>
              ~Observing!Malformed(e) /\ Staging(Alone(e, "PROCESSING", {}), Observing!Nothing)
        /\ tHandler[h].step = "mark" =>
              ~Observing!Malformed(e) /\ Staging(Alone(e, "PROCESSING", {e}), Observing!Nothing)
        /\ tHandler[h].step = "commit" =>
              \E rows : Outcome(e, rows) /\ Staging(rows, Observing!Nothing)
        /\ tHandler[h].step = "entries" =>
              \E rows : /\ Outcome(e, rows) /\ Staging(rows, [rows EXCEPT !.entries = {}])
                        /\ s = tStore.session
        /\ tHandler[h].step = "flush" => Outcome(e, tMerged[s])
        /\ tHandler[h].step = "answer" /\ tHandler[h].answer = "ACK" => tRecord[e] # None

AloneInv ==
    /\ TimelineRowsOK /\ Observing!TimelineTellsTheRecord /\ Apart
    /\ \A h \in Handlers : tHandler[h] # None => Staged(h)

LEMMA AloneInit == Observing!Init => AloneInv
<1> SUFFICES ASSUME Observing!Init PROVE AloneInv
  OBVIOUS
<1>1. Observing!TimelineTellsTheRecord
  BY TimelineConstants, NoWork
       DEF Observing!Init, Observing!TimelineTellsTheRecord, Observing!Statuses
<1>. QED  BY <1>1, TimelineInit DEF Observing!Init, AloneInv, Apart, Observing!InTransaction

\* What is left to show of a step that commits nothing.
LEMMA AloneStays ==
    ASSUME AloneInv, TimelineRowsOK', Apart', UNCHANGED <<tRecord, tTimeline>>,
           \A e \in Events : tMsg'[e] = "acked" => tMsg[e] = "acked" \/ tRecord[e] # None,
           \A h \in Handlers : tHandler'[h] # None => Staged(h)'
    PROVE  AloneInv'
<1>1. Observing!TimelineTellsTheRecord'
  BY DEF AloneInv, Observing!TimelineTellsTheRecord
<1>. QED  BY <1>1 DEF AloneInv

LEMMA StillStaged ==
    ASSUME NEW g \in Handlers, Staged(g), tHandler'[g] = tHandler[g],
           UNCHANGED tRecord, UNCHANGED tStore, UNCHANGED tMerged
    PROVE  Staged(g)'
<1>1. \A e, rows : Outcome(e, rows)' <=> Outcome(e, rows)
  BY DEF Outcome, Observing!Malformed, Alone
<1>2. \A rows, held : Staging(rows, held)' <=> Staging(rows, held)
  BY DEF Staging
<1>. QED  BY <1>1, <1>2 DEF Staged, Observing!Malformed, Observing!Nothing, Alone

\* A handler that is in no transaction has staged nothing.
LEMMA OthersStaged ==
    ASSUME AloneInv, Apart', NEW h \in Handlers,
           \A g \in Handlers : g # h => tHandler'[g] = tHandler[g],
           Observing!InTransaction(h) \/ Observing!InTransaction(h)',
           \A e \in Events : tRecord[e] # None => tRecord'[e] # None
    PROVE  \A g \in Handlers : g # h /\ tHandler'[g] # None => Staged(g)'
<1> SUFFICES ASSUME NEW g \in Handlers, g # h, tHandler'[g] # None PROVE Staged(g)'
  OBVIOUS
<1>1. tHandler'[g] = tHandler[g] /\ tHandler[g] \in Work /\ Staged(g)
  BY DEF AloneInv, TimelineRowsOK
<1>2. tHandler[g].step \in {"begin", "answer"}
  <2>1. ~Observing!InTransaction(g)
    BY <1>1 DEF AloneInv, Apart, Observing!InTransaction
  <2>. QED  BY <1>1, <2>1 DEF Observing!InTransaction
<1>3. tHandler[g].event \in Events
  BY <1>1 DEF Work
<1>. QED  BY <1>1, <1>2, <1>3 DEF Staged

LEMMA AloneStep ==
    AloneInv /\ [Observing!Next]_(Observing!vars) /\ Apart' => AloneInv'
<1> SUFFICES ASSUME AloneInv, [Observing!Next]_(Observing!vars), Apart' PROVE AloneInv'
  OBVIOUS
<1>0. TimelineRowsOK /\ TimelineRowsOK' /\ Observing!RecordsStay
  BY TimelineStep DEF AloneInv
<1>1. CASE UNCHANGED Observing!vars
  BY <1>0, <1>1, AloneStays
       DEF Observing!vars, Observing!broker, Observing!database, AloneInv, Staged, Staging
<1>2. ASSUME NEW e \in Events, Observing!Redeliver(e) PROVE AloneInv'
  BY <1>0, <1>2, AloneStays
       DEF Observing!Redeliver, Observing!database, AloneInv, Staged, Staging, TimelineRowsOK
<1>3. CASE Observing!Die
  BY <1>0, <1>3, AloneStays DEF Observing!Die, Observing!broker, Observing!database
<1>4. ASSUME NEW h \in Handlers, NEW e \in Events, Observing!Fetch(h, e) PROVE AloneInv'
  <2>1. /\ tHandler'[h] = [event |-> e, step |-> "begin", answer |-> None, session |-> None]
        /\ UNCHANGED <<tRecord, tTimeline, tStore, tMerged>> /\ tMsg' = [tMsg EXCEPT ![e] = "out"]
        /\ \A g \in Handlers : g # h => tHandler'[g] = tHandler[g]
    BY <1>0, <1>4 DEF Observing!Fetch, TimelineRowsOK, Observing!database
  <2>2. Staged(h)'
    BY <2>1 DEF Staged
  <2>3. \A g \in Handlers : tHandler'[g] # None => Staged(g)'
    <3> SUFFICES ASSUME NEW g \in Handlers, g # h, tHandler'[g] # None PROVE Staged(g)'
      BY <2>2
    <3>. QED  BY <2>1, StillStaged DEF AloneInv
  <2>. QED  BY <1>0, <2>1, <2>3, AloneStays DEF TimelineRowsOK
\* A step of a handler in its transaction, but for the last.
<1>5. ASSUME NEW h \in Handlers, UNCHANGED <<tMsg, tRecord, tTimeline>>,
             Observing!InTransaction(h) \/ Observing!InTransaction(h)',
             \A g \in Handlers : g # h => tHandler'[g] = tHandler[g],
             Staged(h)'
      PROVE  AloneInv'
  <2>1. \A g \in Handlers : g # h /\ tHandler'[g] # None => Staged(g)'
    BY <1>5, OthersStaged
  <2>. QED  BY <1>0, <1>5, <2>1, AloneStays
<1>6. ASSUME NEW h \in Handlers, NEW step, Observing!At(h, step), step \notin {"begin", "answer"}
      PROVE  Observing!InTransaction(h) /\ tHandler[h] # None /\ tHandler[h].step = step /\ Staged(h)
  BY <1>6 DEF Observing!InTransaction, Observing!At, AloneInv
<1>7. ASSUME NEW h \in Handlers, Observing!Begin(h) PROVE AloneInv'
  <2>1. PICK s \in Handlers : tStore' = Observing!Opened(s) /\ tMerged' = [tMerged EXCEPT ![s] = Observing!Nothing]
    BY <1>7 DEF Observing!Begin, Observing!StoreSessions
  <2>2. Observing!At(h, "begin") /\ Observing!Goto(h, "insert") /\ UNCHANGED <<tMsg, tRecord, tTimeline>>
    BY <1>7 DEF Observing!Begin, Observing!broker, Observing!database
  <2>3. /\ tHandler'[h].step = "insert" /\ tHandler'[h] # None
        /\ \A g \in Handlers : g # h => tHandler'[g] = tHandler[g]
    BY <1>0, <2>2, ItsSession, WentTo DEF Observing!Steps, Committing
  <2>4. Staging(Observing!Nothing, Observing!Nothing)'
    <3>1. tStore' # None /\ tStore'.session = s
      BY <2>1, OpenedIsDictionaries, NoWork DEF Observing!Opened
    <3>2. tMerged'[s] = Observing!Nothing
      BY <1>0, <2>1 DEF TimelineRowsOK
    <3>. QED  BY <2>1, <3>1, <3>2 DEF Staging, Observing!Opened, Observing!Nothing
  <2>5. Staged(h)' /\ Observing!InTransaction(h)'
    BY <2>3, <2>4 DEF Staged, Observing!InTransaction, Observing!Nothing
  <2>. QED  BY <1>5, <2>2, <2>3, <2>5
\* Where a handler that stages goes.
<1>8. ASSUME NEW h \in Handlers, NEW from, Observing!At(h, from), from \in {"insert", "project", "mark"},
             NEW to \in {"project", "mark", "commit"},
             Observing!Goto(h, to), UNCHANGED <<tMsg, tRecord, tTimeline>>, UNCHANGED tMerged,
             tMerged[tStore.session] = Observing!Nothing,
             NEW e \in Events, e = tHandler[h].event,
             NEW status, NEW entries, tStore' # None, tStore'.session = tStore.session,
             tStore'.inbox = [f \in Events |-> IF f = e THEN status ELSE None], tStore'.entries = entries,
             \/ ~Observing!Malformed(e) /\ to = "project" /\ status = "PROCESSING" /\ entries = {}
             \/ ~Observing!Malformed(e) /\ to = "mark" /\ status = "PROCESSING" /\ entries = {e}
             \/ ~Observing!Malformed(e) /\ to = "commit" /\ status = "PROCESSED" /\ entries = {e}
             \/ Observing!Malformed(e) /\ to = "commit" /\ status = "QUARANTINED" /\ entries = {}
      PROVE  AloneInv'
  <2>1. /\ tHandler'[h].step = to /\ tHandler'[h].event = e
        /\ \A g \in Handlers : g # h => tHandler'[g] = tHandler[g]
    BY <1>0, <1>8, ItsSession, WentTo DEF Observing!Steps, Committing
  <2>2. Staging(Alone(e, status, entries), Observing!Nothing)'
    BY <1>8 DEF Staging, Alone, Observing!Nothing
  <2>3. Staged(h)'
    <3>1. CASE to = "commit"
      <4>1. Outcome(e, Alone(e, status, entries))'
        BY <1>8, <3>1 DEF Outcome, Observing!Malformed, Alone
      <4>. QED  BY <2>1, <2>2, <3>1, <4>1 DEF Staged
    <3>2. CASE to # "commit"
      <4>1. ~Observing!Malformed(e) /\ status = "PROCESSING" /\ entries = (IF to = "mark" THEN {e} ELSE {})
        BY <1>8, <3>2
      <4>. QED  BY <2>1, <2>2, <3>2, <4>1 DEF Staged, Observing!Malformed, Alone, Observing!Nothing
    <3>. QED  BY <3>1, <3>2
  <2>. QED  BY <1>5, <1>6, <1>8, <2>1, <2>3
<1>9. ASSUME NEW h \in Handlers, Observing!InTransaction(h), Observing!Answer(h, "NAK"),
             UNCHANGED <<tMsg, tRecord, tTimeline>>
      PROVE  AloneInv'
  <2>1. /\ tHandler'[h].step = "answer" /\ tHandler'[h].answer = "NAK"
        /\ \A g \in Handlers : g # h => tHandler'[g] = tHandler[g]
    BY <1>0, <1>9, WentTo DEF Observing!InTransaction
  <2>2. Staged(h)'
    BY <2>1 DEF Staged
  <2>. QED  BY <1>5, <1>9, <2>1, <2>2
<1>10. ASSUME NEW h \in Handlers, Observing!At(h, "insert")
       PROVE  Staging(Observing!Nothing, Observing!Nothing) /\ tStore.inbox[tHandler[h].event] = None
  <2>1. Staging(Observing!Nothing, Observing!Nothing) /\ tHandler[h].event \in Events
    BY <1>0, <1>6, <1>10, ItsSession DEF Staged
  <2>. QED  BY <2>1 DEF Staging, Observing!Nothing
<1>11. ASSUME NEW h \in Handlers, Observing!InsertReceived(h) PROVE AloneInv'
  <2>1. /\ Observing!At(h, "insert") /\ Staging(Observing!Nothing, Observing!Nothing)
        /\ UNCHANGED <<tMsg, tRecord, tTimeline>> /\ UNCHANGED tMerged
    BY <1>10, <1>11 DEF Observing!InsertReceived, Observing!broker, Observing!database
  <2>2. PICK e \in Events : e = tHandler[h].event
    BY <1>0, <2>1, ItsSession
  <2>3. PICK status, to :
          /\ tStore' = [tStore EXCEPT !.inbox[e] = status] /\ Observing!Goto(h, to)
          /\ status = (IF Observing!Malformed(e) THEN "QUARANTINED" ELSE "PROCESSING")
          /\ to = (IF Observing!Malformed(e) THEN "commit" ELSE "project")
    BY <1>11, <2>2 DEF Observing!InsertReceived
  <2>4. /\ tStore \in Dictionaries /\ tStore.inbox = [f \in Events |-> None] /\ tStore.entries = {}
        /\ tMerged[tStore.session] = Observing!Nothing
    BY <1>0, <2>1 DEF Staging, Observing!Nothing, TimelineRowsOK
  <2>5. /\ tStore'.inbox = [f \in Events |-> IF f = e THEN status ELSE None] /\ tStore'.entries = {}
        /\ tStore'.session = tStore.session /\ tStore' # None
    <3>1. [tStore.inbox EXCEPT ![e] = status] = [f \in Events |-> IF f = e THEN status ELSE None]
      BY <2>4
    <3>2. tStore' = [tStore EXCEPT !.inbox = [tStore.inbox EXCEPT ![e] = status]]
      BY <2>3
    <3>3. status \in Observing!Statuses \cup {None}
      BY <2>3 DEF Observing!Statuses
    <3>4. tStore' \in Dictionaries
      BY <2>4, <3>1, <3>2, <3>3 DEF Dictionaries
    <3>. QED  BY <2>4, <3>1, <3>2, <3>4, NoWork DEF Dictionaries
  <2>6. Observing!Malformed(e) => to = "commit" /\ status = "QUARANTINED"
    BY <2>3
  <2>7. ~Observing!Malformed(e) => to = "project" /\ status = "PROCESSING"
    BY <2>3
  <2>8. to \in {"project", "mark", "commit"} /\ Observing!Goto(h, to)
    BY <2>3, <2>6, <2>7
  <2>9. PICK from, entries : from = "insert" /\ entries = {}
    OBVIOUS
  <2>. QED  BY <1>8, <2>1, <2>2, <2>4, <2>5, <2>6, <2>7, <2>8, <2>9
<1>12. ASSUME NEW h \in Handlers, Observing!Duplicate(h) PROVE AloneInv'
  BY <1>10, <1>12 DEF Observing!Duplicate
<1>13. ASSUME NEW h \in Handlers, Observing!Project(h) PROVE AloneInv'
  <2>1. /\ Observing!At(h, "project") /\ UNCHANGED <<tMsg, tRecord, tTimeline>> /\ UNCHANGED tMerged
        /\ tStore' = [tStore EXCEPT !.entries = tStore.entries \cup {tHandler[h].event}]
        /\ Observing!Goto(h, "mark")
    BY <1>13 DEF Observing!Project, Observing!broker, Observing!database
  <2>2. PICK e \in Events : e = tHandler[h].event
    BY <1>0, <2>1, ItsSession
  <2>3. ~Observing!Malformed(e) /\ Staging(Alone(e, "PROCESSING", {}), Observing!Nothing)
    BY <1>6, <2>1, <2>2 DEF Staged
  <2>4. /\ tStore \in Dictionaries /\ tStore.inbox = [f \in Events |-> IF f = e THEN "PROCESSING" ELSE None]
        /\ tStore.entries = {} /\ tMerged[tStore.session] = Observing!Nothing
    BY <1>0, <2>3 DEF Staging, Alone, TimelineRowsOK
  <2>5. /\ tStore'.inbox = tStore.inbox /\ tStore'.entries = {e} /\ tStore'.session = tStore.session
        /\ tStore' # None
    <3>1. tStore' = [tStore EXCEPT !.entries = {e}]
      BY <2>1, <2>2, <2>4
    <3>2. tStore' \in Dictionaries
      BY <2>4, <3>1 DEF Dictionaries
    <3>. QED  BY <2>4, <3>1, <3>2, NoWork DEF Dictionaries
  <2>6. PICK from, to, status, entries :
          from = "project" /\ to = "mark" /\ status = "PROCESSING" /\ entries = {e}
    OBVIOUS
  <2>. QED  BY <1>8, <2>1, <2>2, <2>3, <2>4, <2>5, <2>6
<1>14. ASSUME NEW h \in Handlers, Observing!MarkProcessed(h) PROVE AloneInv'
  <2>1. Observing!At(h, "mark") /\ UNCHANGED <<tMsg, tRecord, tTimeline>> /\ UNCHANGED tMerged
    BY <1>14 DEF Observing!MarkProcessed, Observing!broker, Observing!database
  <2>2. PICK e \in Events : e = tHandler[h].event
    BY <1>0, <2>1, ItsSession
  <2>3. ~Observing!Malformed(e) /\ Staging(Alone(e, "PROCESSING", {e}), Observing!Nothing)
    BY <1>6, <2>1, <2>2 DEF Staged
  <2>4. /\ tStore \in Dictionaries /\ tStore.inbox = [f \in Events |-> IF f = e THEN "PROCESSING" ELSE None]
        /\ tStore.entries = {e} /\ tMerged[tStore.session] = Observing!Nothing
    BY <1>0, <2>3 DEF Staging, Alone, TimelineRowsOK
  <2>5. tStore.inbox[e] # None
    BY <2>4, TimelineConstants DEF Observing!Statuses
  <2>6. tStore' = [tStore EXCEPT !.inbox[e] = "PROCESSED"] /\ Observing!Goto(h, "commit")
    BY <1>14, <2>2, <2>5 DEF Observing!MarkProcessed
  <2>7. /\ tStore'.inbox = [f \in Events |-> IF f = e THEN "PROCESSED" ELSE None] /\ tStore'.entries = {e}
        /\ tStore'.session = tStore.session /\ tStore' # None
    <3>1. [tStore.inbox EXCEPT ![e] = "PROCESSED"] = [f \in Events |-> IF f = e THEN "PROCESSED" ELSE None]
      BY <2>4
    <3>2. tStore' = [tStore EXCEPT !.inbox = [tStore.inbox EXCEPT ![e] = "PROCESSED"]]
      BY <2>6
    <3>3. tStore' \in Dictionaries
      BY <2>4, <3>1, <3>2 DEF Dictionaries, Observing!Statuses
    <3>. QED  BY <2>4, <3>1, <3>2, <3>3, NoWork DEF Dictionaries
  <2>8. PICK from, to, status, entries :
          from = "mark" /\ to = "commit" /\ status = "PROCESSED" /\ entries = {e}
    OBVIOUS
  <2>. QED  BY <1>8, <2>1, <2>2, <2>3, <2>4, <2>6, <2>7, <2>8
<1>15. ASSUME NEW h \in Handlers, Observing!MergeRecords(h) PROVE AloneInv'
  <2>1. Observing!At(h, "commit") /\ tStore # None /\ UNCHANGED <<tMsg, tRecord, tTimeline>>
    BY <1>15 DEF Observing!MergeRecords, Observing!broker, Observing!database
  <2>2. PICK e \in Events : e = tHandler[h].event
    BY <1>0, <2>1, ItsSession
  <2>3. PICK rows : Outcome(e, rows) /\ Staging(rows, Observing!Nothing)
    BY <1>6, <2>1, <2>2 DEF Staged
  <2>4. PICK s \in Handlers : s = tStore.session
    BY <1>0, <2>1 DEF TimelineRowsOK, Dictionaries
  <2>5. tMerged[s] = Observing!Nothing /\ tMerged[s] # None
    BY <2>3, <2>4, NothingIsRows DEF Staging
  <2>6. /\ tMerged' = [tMerged EXCEPT ![s].inbox = tStore.inbox] /\ UNCHANGED tStore
        /\ tHandler' = [tHandler EXCEPT ![h].step = "entries", ![h].session = s]
    BY <1>15, <2>4, <2>5 DEF Observing!MergeRecords
  <2>7. /\ tHandler'[h].step = "entries" /\ tHandler'[h].session = s /\ tHandler'[h].event = e
        /\ \A g \in Handlers : g # h => tHandler'[g] = tHandler[g]
    <3>1. tHandler[h] \in Work
      BY <1>0, <2>1, ItsSession DEF TimelineRowsOK
    <3>2. tHandler'[h] = [tHandler[h] EXCEPT !.step = "entries", !.session = s]
      BY <1>0, <2>6 DEF TimelineRowsOK
    <3>3. \A g \in Handlers : g # h => tHandler'[g] = tHandler[g]
      BY <1>0, <2>6 DEF TimelineRowsOK
    <3>. QED  BY <2>2, <3>1, <3>2, <3>3 DEF Work
  <2>8. tMerged'[s] = [rows EXCEPT !.entries = {}]
    <3>1. tMerged'[s] = [Observing!Nothing EXCEPT !.inbox = rows.inbox]
      BY <1>0, <2>3, <2>5, <2>6 DEF TimelineRowsOK, Staging
    <3>. QED  BY <2>3, <3>1 DEF Observing!Nothing, Outcome, Alone
  <2>9. Staging(rows, [rows EXCEPT !.entries = {}])'
    BY <2>3, <2>4, <2>6, <2>8 DEF Staging
  <2>10. Staged(h)'
    <3>1. Outcome(e, rows)'
      BY <2>3 DEF Outcome, Observing!Malformed, Alone
    <3>. QED  BY <2>4, <2>6, <2>7, <2>9, <3>1 DEF Staged
  <2>. QED  BY <1>5, <1>6, <2>1, <2>7, <2>10
<1>16. ASSUME NEW h \in Handlers, Observing!MergeEntries(h) PROVE AloneInv'
  <2>1. Observing!At(h, "entries") /\ tStore # None /\ UNCHANGED <<tMsg, tRecord, tTimeline>>
    BY <1>16 DEF Observing!MergeEntries, Observing!broker, Observing!database
  <2>2. PICK e \in Events : e = tHandler[h].event
    BY <1>0, <2>1, ItsSession
  <2>3. PICK s \in Handlers : s = tHandler[h].session
    BY <1>0, <2>1, ItsSession DEF Committing
  <2>4. PICK rows : /\ Outcome(e, rows) /\ Staging(rows, [rows EXCEPT !.entries = {}])
                    /\ s = tStore.session
    BY <1>6, <2>1, <2>2, <2>3 DEF Staged
  <2>5. tMerged[s] = [rows EXCEPT !.entries = {}] /\ tStore.entries = rows.entries
    BY <2>4 DEF Staging
  <2>6. CASE tMerged[s] = None
    <3>1. Observing!Answer(h, "NAK")
      BY <1>16, <2>3, <2>6 DEF Observing!MergeEntries, Observing!Unhandled
    <3>. QED  BY <1>6, <1>9, <2>1, <3>1
  <2>7. CASE tMerged[s] # None
    <3>1. tMerged' = [tMerged EXCEPT ![s].entries = @ \cup tStore.entries] /\ Observing!Goto(h, "flush")
      BY <1>16, <2>3, <2>7 DEF Observing!MergeEntries
    <3>2. /\ tHandler'[h].step = "flush" /\ tHandler'[h].session = s /\ tHandler'[h].event = e
          /\ \A g \in Handlers : g # h => tHandler'[g] = tHandler[g]
      BY <1>0, <2>1, <2>2, <2>3, <3>1, ItsSession, WentTo DEF Observing!Steps, Committing
    <3>3. tMerged'[s] = [tMerged[s] EXCEPT !.entries = tMerged[s].entries \cup tStore.entries]
      BY <1>0, <3>1 DEF TimelineRowsOK
    <3>4. tMerged'[s] = rows
      <4>1. PICK status, entries : rows = [inbox |-> [f \in Events |-> IF f = e THEN status ELSE None],
                                           entries |-> entries]
        BY <2>4 DEF Outcome, Alone
      <4>2. tMerged[s] = [inbox |-> rows.inbox, entries |-> {}]
        BY <2>5, <4>1
      <4>3. tMerged'[s] = [inbox |-> rows.inbox, entries |-> {} \cup rows.entries]
        BY <2>5, <3>3, <4>2
      <4>. QED  BY <4>1, <4>3
    <3>5. Outcome(e, tMerged[s])'
      BY <2>4, <3>4 DEF Outcome, Observing!Malformed, Alone
    <3>6. Staged(h)'
      BY <3>2, <3>5 DEF Staged
    <3>. QED  BY <1>5, <1>6, <2>1, <3>2, <3>6
  <2>. QED  BY <2>6, <2>7
<1>17. ASSUME NEW h \in Handlers, Observing!StoreGone(h) PROVE AloneInv'
  BY <1>9, <1>17
       DEF Observing!StoreGone, Observing!Unhandled, Observing!broker, Observing!database,
           Observing!InTransaction
<1>18. ASSUME NEW h \in Handlers, NEW lost \in BOOLEAN, Observing!Respond(h, lost) PROVE AloneInv'
  <2>1. /\ Observing!At(h, "answer") /\ UNCHANGED <<tRecord, tTimeline, tStore, tMerged>>
        /\ tHandler' = [tHandler EXCEPT ![h] = None]
    BY <1>18 DEF Observing!Respond, Observing!database
  <2>2. \A g \in Handlers : tHandler'[g] # None => tHandler'[g] = tHandler[g]
    BY <1>0, <2>1 DEF TimelineRowsOK
  <2>3. \A g \in Handlers : tHandler'[g] # None => Staged(g)'
    <3> SUFFICES ASSUME NEW g \in Handlers, tHandler'[g] # None PROVE Staged(g)'
      OBVIOUS
    <3>. QED  BY <2>1, <2>2, StillStaged DEF AloneInv
  <2>4. \A e \in Events : tMsg'[e] = "acked" => tMsg[e] = "acked" \/ tRecord[e] # None
    <3>1. tHandler[h].answer = "ACK" => tRecord[tHandler[h].event] # None
      BY <2>1 DEF AloneInv, Staged, Observing!At
    <3>. QED  BY <1>0, <1>18, <3>1 DEF Observing!Respond, TimelineRowsOK
  <2>. QED  BY <1>0, <2>1, <2>3, <2>4, AloneStays
<1>19. ASSUME NEW h \in Handlers, Observing!Commit(h) PROVE AloneInv'
  <2>1. Observing!At(h, "flush") /\ UNCHANGED tMsg
    BY <1>19 DEF Observing!Commit, Observing!broker
  <2>2. PICK e \in Events : e = tHandler[h].event
    BY <1>0, <2>1, ItsSession
  <2>3. PICK s \in Handlers : s = tHandler[h].session
    BY <1>0, <2>1, ItsSession DEF Committing
  <2>4. PICK rows : rows = tMerged[s] /\ Outcome(e, rows)
    BY <1>6, <2>1, <2>2, <2>3 DEF Staged
  <2>5. CASE ~(rows # None /\ Observing!KeysHold(rows))
    <3>1. Observing!Answer(h, "NAK") /\ UNCHANGED <<tMsg, tRecord, tTimeline>>
      BY <1>19, <2>1, <2>3, <2>4, <2>5 DEF Observing!Commit, Observing!Unhandled, Observing!database
    <3>. QED  BY <1>6, <1>9, <2>1, <3>1
  <2>6. CASE rows # None /\ Observing!KeysHold(rows)
    <3>1. PICK status, entries :
            /\ rows = Alone(e, status, entries)
            /\ \/ Observing!Malformed(e) /\ status = "QUARANTINED" /\ entries = {}
               \/ ~Observing!Malformed(e) /\ status = "PROCESSED" /\ entries = {e}
      BY <2>4 DEF Outcome
    <3>2. rows.inbox = [f \in Events |-> IF f = e THEN status ELSE None] /\ rows.entries = entries
      BY <3>1 DEF Alone
    <3>3. status # None /\ status \in Observing!Statuses
      BY <3>1, TimelineConstants DEF Observing!Statuses
    <3>4. /\ tRecord' = [f \in Events |-> IF rows.inbox[f] = None THEN tRecord[f] ELSE rows.inbox[f]]
          /\ tTimeline' = tTimeline \cup rows.entries /\ Observing!Answer(h, "ACK")
      BY <1>19, <2>3, <2>4, <2>6 DEF Observing!Commit
    <3>5. /\ \A f \in Events : tRecord'[f] = (IF f = e THEN status ELSE tRecord[f])
          /\ tTimeline' = tTimeline \cup entries /\ tRecord[e] = None
      BY <2>6, <3>2, <3>3, <3>4 DEF Observing!KeysHold
    <3>6. /\ \A g \in Handlers : g # h => tHandler'[g] = tHandler[g]
          /\ tHandler'[h].event = e /\ tHandler'[h].step = "answer" /\ tHandler[h] # None
      BY <1>0, <2>1, <2>2, <3>4, ItsSession, WentTo
    <3>7. \A g \in Handlers : g # h /\ tHandler'[g] # None => Staged(g)'
      BY <1>0, <1>6, <2>1, <3>6, OthersStaged DEF Observing!RecordsStay
    <3>8. Staged(h)'
      BY <3>3, <3>5, <3>6 DEF Staged
    <3>9. Observing!TimelineTellsTheRecord'
      <4>1. Observing!TimelineTellsTheRecord /\ e \notin tTimeline
        BY <3>5, TimelineConstants, NoWork
             DEF AloneInv, Observing!TimelineTellsTheRecord, Observing!Statuses
      <4>2. (\A f \in Events : f \in tTimeline <=> tRecord[f] = "PROCESSED")'
        BY <3>1, <3>5, <4>1 DEF Observing!TimelineTellsTheRecord
      <4>3. (\A f \in Events : Observing!Malformed(f) => tRecord[f] \in {None, "QUARANTINED"})'
        BY <3>1, <3>5, <4>1 DEF Observing!TimelineTellsTheRecord, Observing!Malformed
      <4>4. (\A f, g \in tTimeline : SourceOf[f] = SourceOf[g] => f = g)'
        <5>1. \A f \in entries, g \in tTimeline \cup entries : SourceOf[f] = SourceOf[g] => f = g
          BY <2>6, <3>2 DEF Observing!KeysHold
        <5>. QED  BY <3>5, <4>1, <5>1 DEF Observing!TimelineTellsTheRecord
      <4>5. (\A f \in Events : tMsg[f] = "acked" => tRecord[f] # None)'
        BY <2>1, <3>3, <3>5, <4>1 DEF Observing!TimelineTellsTheRecord
      <4>. QED  BY <4>2, <4>3, <4>4, <4>5 DEF Observing!TimelineTellsTheRecord
    <3>. QED  BY <1>0, <3>7, <3>8, <3>9 DEF AloneInv
  <2>. QED  BY <2>5, <2>6
<1>. QED
  BY <1>1, <1>2, <1>3, <1>4, <1>7, <1>11, <1>12, <1>13, <1>14, <1>15, <1>16, <1>17, <1>18, <1>19
       DEF Observing!Next

-----------------------------------------------------------------------------
(* The accepted-fact consumer and the unit of work have proofs of their own,  *)
(* of which the instances here make theorems about the variables of Desks.    *)

Consumer == INSTANCE FactConsumerProofs WITH
    NoFact <- None, NoSession <- None, Malformed <- MalformedFacts,
    msg <- x1, deliveries <- x2, inbox <- x3, attempts <- x4, leaseLive <- x5,
    decision <- x6, holder <- x7, version <- x8, session <- x9, versions <- x10,
    pc <- x11, fact <- x12, poison <- x13, readVersion <- x14, answer <- x15,
    errors <- x16, crashes <- x17, lost <- x18

Unit == INSTANCE UnitOfWorkProofs WITH
    Rows <- UnitRows,
    table <- x1, stored <- x2, phase <- x3, hand <- x4, staged <- x5, order <- x6,
    written <- x7, landed <- x8

LEMMA ConsumerIsShared ==
    /\ Shared!Init <=> Consumer!Init
    /\ Shared!Next <=> Consumer!Next
    /\ UNCHANGED Shared!vars <=> UNCHANGED Consumer!vars
    /\ Shared!TypeOK <=> Consumer!TypeOK
    /\ Shared!CustodyStays <=> Consumer!CustodyStays
    /\ Shared!Session = Consumer!Session
<1>1. Shared!Init <=> Consumer!Init
  BY DEF Shared!Init, Consumer!Init
<1>2. Shared!Next <=> Consumer!Next
  BY DEF Shared!broker, Consumer!broker, Shared!database, Consumer!database, Shared!store,
       Consumer!store, Shared!thread, Consumer!thread, Shared!budgets, Consumer!budgets,
       Shared!EmptySession, Consumer!EmptySession, Shared!Open, Consumer!Open, Shared!Usable,
       Consumer!Usable, Shared!RowSeen, Consumer!RowSeen, Shared!LeaseSeen, Consumer!LeaseSeen,
       Shared!VersionSeen, Consumer!VersionSeen, Shared!HolderSeen, Consumer!HolderSeen,
       Shared!Others, Consumer!Others, Shared!InboxKeyFree, Consumer!InboxKeyFree,
       Shared!ShipmentRowFree, Consumer!ShipmentRowFree, Shared!Goto, Consumer!Goto,
       Shared!AnswerWith, Consumer!AnswerWith, Shared!Unhandled, Consumer!Unhandled,
       Shared!SetSession, Consumer!SetSession, Shared!Rollback, Consumer!Rollback, Shared!Poison,
       Consumer!Poison, Shared!Deliverable, Consumer!Deliverable, Shared!Fetch, Consumer!Fetch,
       Shared!BeginCheck, Consumer!BeginCheck, Shared!BeginSet, Consumer!BeginSet,
       Shared!InsertReceived, Consumer!InsertReceived, Shared!Expired, Consumer!Expired,
       Shared!DuplicateTerminal, Consumer!DuplicateTerminal, Shared!DuplicateActive,
       Consumer!DuplicateActive, Shared!DuplicateReclaim, Consumer!DuplicateReclaim,
       Shared!QuarantineExisting, Consumer!QuarantineExisting, Shared!ReadShipment,
       Consumer!ReadShipment, Shared!ExpectedVersion, Consumer!ExpectedVersion,
       Shared!SaveShipment, Consumer!SaveShipment, Shared!SaveStale, Consumer!SaveStale,
       Shared!MarkProcessed, Consumer!MarkProcessed, Shared!CommitWrites, Consumer!CommitWrites,
       Shared!DecisionsUnique, Consumer!DecisionsUnique, Shared!Commit, Consumer!Commit,
       Shared!SessionGone, Consumer!SessionGone, Shared!Answer, Consumer!Answer, Shared!DbError,
       Consumer!DbError, Shared!CommitError, Consumer!CommitError, Shared!Crash, Consumer!Crash,
       Shared!LoseAnswer, Consumer!LoseAnswer, Shared!HandledNow, Consumer!HandledNow,
       Shared!AckWaitPasses, Consumer!AckWaitPasses, Shared!LeaseLapses, Consumer!LeaseLapses,
       Shared!HandlerStep, Consumer!HandlerStep, Shared!Next, Consumer!Next
<1>3. UNCHANGED Shared!vars <=> UNCHANGED Consumer!vars
  BY DEF Shared!broker, Consumer!broker, Shared!database, Consumer!database, Shared!store,
       Consumer!store, Shared!thread, Consumer!thread, Shared!budgets, Consumer!budgets,
       Shared!vars, Consumer!vars
<1>4. Shared!TypeOK <=> Consumer!TypeOK
  BY DEF Shared!InboxStatus, Consumer!InboxStatus, Shared!Session, Consumer!Session, Shared!Steps,
       Consumer!Steps, Shared!TypeOK, Consumer!TypeOK
<1>5. Shared!CustodyStays <=> Consumer!CustodyStays
  BY DEF Shared!CustodyStays, Consumer!CustodyStays
<1>6. Shared!Session = Consumer!Session
  BY DEF Shared!InboxStatus, Consumer!InboxStatus, Shared!Session, Consumer!Session
<1>. QED  BY <1>1, <1>2, <1>3, <1>4, <1>5, <1>6

LEMMA UnitIsSaving ==
    /\ Saving!Init <=> Unit!Init
    /\ Saving!Next <=> Unit!Next
    /\ UNCHANGED Saving!vars <=> UNCHANGED Unit!vars
    /\ Saving!TypeOK <=> Unit!TypeOK
    /\ Saving!SavedIsKept <=> Unit!SavedIsKept
    /\ Saving!WaitsAreInOrder <=> Unit!WaitsAreInOrder
    /\ Saving!OnlyForAReason <=> Unit!OnlyForAReason
<1>1. Saving!Store = Unit!Store
  BY DEF Saving!Checked, Unit!Checked, Saving!Healed, Unit!Healed, Saving!Added, Unit!Added,
       Saving!Replaced, Unit!Replaced, Saving!Merged, Unit!Merged, Saving!Outbox, Unit!Outbox,
       Saving!Inbox, Unit!Inbox, Saving!ClaimsClaims, Unit!ClaimsClaims, Saving!ClaimsMessages,
       Unit!ClaimsMessages, Saving!ClaimsIncidents, Unit!ClaimsIncidents, Saving!ClaimsStore,
       Unit!ClaimsStore, Saving!CustomerProfiles, Unit!CustomerProfiles, Saving!CustomerLegal,
       Unit!CustomerLegal, Saving!CustomerContacts, Unit!CustomerContacts,
       Saving!CustomerAddresses, Unit!CustomerAddresses, Saving!CustomerStore, Unit!CustomerStore,
       Saving!DeliveryManifests, Unit!DeliveryManifests, Saving!DeliveryStops, Unit!DeliveryStops,
       Saving!DeliveryVerifications, Unit!DeliveryVerifications, Saving!DeliveryPayments,
       Unit!DeliveryPayments, Saving!DeliveryPhotos, Unit!DeliveryPhotos,
       Saving!DeliveryFailedAttempts, Unit!DeliveryFailedAttempts, Saving!DeliveryPreferences,
       Unit!DeliveryPreferences, Saving!DeliveryReports, Unit!DeliveryReports,
       Saving!DeliveryRatings, Unit!DeliveryRatings, Saving!DeliveryStore, Unit!DeliveryStore,
       Saving!FinanceLedger, Unit!FinanceLedger, Saving!FinanceDriverAccounts,
       Unit!FinanceDriverAccounts, Saving!FinanceMerchantAccounts, Unit!FinanceMerchantAccounts,
       Saving!FinanceCollections, Unit!FinanceCollections, Saving!FinanceDeposits,
       Unit!FinanceDeposits, Saving!FinancePayouts, Unit!FinancePayouts,
       Saving!FinanceReconciliations, Unit!FinanceReconciliations, Saving!FinanceStore,
       Unit!FinanceStore, Saving!HubHubs, Unit!HubHubs, Saving!HubDropOffs, Unit!HubDropOffs,
       Saving!HubPresences, Unit!HubPresences, Saving!HubConsignments, Unit!HubConsignments,
       Saving!HubLinehauls, Unit!HubLinehauls, Saving!HubSealChecks, Unit!HubSealChecks,
       Saving!HubPositions, Unit!HubPositions, Saving!HubStore, Unit!HubStore,
       Saving!IdentityPrincipals, Unit!IdentityPrincipals, Saving!IdentityChallenges,
       Unit!IdentityChallenges, Saving!IdentitySessions, Unit!IdentitySessions,
       Saving!IdentityGrants, Unit!IdentityGrants, Saving!IdentityStore, Unit!IdentityStore,
       Saving!MerchantApplications, Unit!MerchantApplications, Saving!MerchantMerchants,
       Unit!MerchantMerchants, Saving!MerchantPolicies, Unit!MerchantPolicies,
       Saving!MerchantStores, Unit!MerchantStores, Saving!MerchantMemberships,
       Unit!MerchantMemberships, Saving!MerchantLabelStock, Unit!MerchantLabelStock,
       Saving!MerchantPrinters, Unit!MerchantPrinters, Saving!MerchantCategories,
       Unit!MerchantCategories, Saving!MerchantProducts, Unit!MerchantProducts,
       Saving!MerchantStore, Unit!MerchantStore, Saving!NotificationRecipients,
       Unit!NotificationRecipients, Saving!NotificationPreferences, Unit!NotificationPreferences,
       Saving!NotificationMessages, Unit!NotificationMessages, Saving!NotificationCentre,
       Unit!NotificationCentre, Saving!NotificationStore, Unit!NotificationStore,
       Saving!OrderingOrders, Unit!OrderingOrders, Saving!OrderingRequests, Unit!OrderingRequests,
       Saving!OrderingGoods, Unit!OrderingGoods, Saving!OrderingTariffs, Unit!OrderingTariffs,
       Saving!OrderingStore, Unit!OrderingStore, Saving!WorkforceApplications,
       Unit!WorkforceApplications, Saving!WorkforceDrivers, Unit!WorkforceDrivers,
       Saving!WorkforcePatterns, Unit!WorkforcePatterns, Saving!WorkforceAttendance,
       Unit!WorkforceAttendance, Saving!WorkforceBlocks, Unit!WorkforceBlocks,
       Saving!WorkforceLeave, Unit!WorkforceLeave, Saving!WorkforceStore, Unit!WorkforceStore,
       Saving!Store, Unit!Store
<1>2. Saving!Init <=> Unit!Init
  BY <1>1 DEF Saving!NoCopy, Unit!NoCopy, Saving!NoStage, Unit!NoStage, Saving!Init, Unit!Init
<1>3. Saving!Next <=> Unit!Next
  BY DEF Saving!NoCopy, Unit!NoCopy, Saving!NoStage, Unit!NoStage, Saving!Versioned,
       Unit!Versioned, Saving!InHand, Unit!InHand, Saving!InStage, Unit!InStage, Saving!FromStore,
       Unit!FromStore, Saving!FromStage, Unit!FromStage, Saving!Take, Unit!Take, Saving!Look,
       Unit!Look, Saving!LookPast, Unit!LookPast, Saving!Make, Unit!Make, Saving!MadeBy,
       Unit!MadeBy, Saving!NextVersion, Unit!NextVersion, Saving!HandWith, Unit!HandWith,
       Saving!StageWith, Unit!StageWith, Saving!ChangeIt, Unit!ChangeIt, Saving!Before,
       Unit!Before, Saving!StageOf, Unit!StageOf, Saving!Shared, Unit!Shared, Saving!Save,
       Unit!Save, Saving!Commit, Unit!Commit, Saving!Replacing, Unit!Replacing, Saving!OneTable,
       Unit!OneTable, Saving!FirstSaved, Unit!FirstSaved, Saving!Earlier, Unit!Earlier,
       Saving!IsNext, Unit!IsNext, Saving!Holds, Unit!Holds, Saving!Free, Unit!Free, Saving!Write,
       Unit!Write, Saving!Refuse, Unit!Refuse, Saving!Fits, Unit!Fits, Saving!ReplaceRow,
       Unit!ReplaceRow, Saving!ToAdd, Unit!ToAdd, Saving!MissRow, Unit!MissRow, Saving!AddRow,
       Unit!AddRow, Saving!Publish, Unit!Publish, Saving!RollBack, Unit!RollBack, Saving!Next, Unit!Next,
       Saving!Cardinality, Unit!Cardinality, Saving!IsFiniteSet, Unit!IsFiniteSet
<1>4. UNCHANGED Saving!vars <=> UNCHANGED Unit!vars
  BY DEF Saving!vars, Unit!vars
<1>5. Saving!TypeOK <=> Unit!TypeOK
  BY DEF Saving!Change, Unit!Change, Saving!Shape, Unit!Shape, Saving!Row, Unit!Row, Saving!Copy,
       Unit!Copy, Saving!Stage, Unit!Stage, Saving!TypeOK, Unit!TypeOK
<1>6. Saving!SavedIsKept <=> Unit!SavedIsKept
  BY DEF Saving!Misjudged, Unit!Misjudged, Saving!Protected, Unit!Protected, Saving!SavedIsKept,
       Unit!SavedIsKept
<1>7. Saving!WaitsAreInOrder <=> Unit!WaitsAreInOrder
  BY DEF Saving!InStage, Unit!InStage, Saving!Replacing, Unit!Replacing, Saving!OneTable,
       Unit!OneTable, Saving!FirstSaved, Unit!FirstSaved, Saving!Earlier, Unit!Earlier,
       Saving!IsNext, Unit!IsNext, Saving!Holds, Unit!Holds, Saving!Waits, Unit!Waits,
       Saving!WaitsAreInOrder, Unit!WaitsAreInOrder
<1>8. Saving!OnlyForAReason <=> Unit!OnlyForAReason
  BY DEF Saving!InStage, Unit!InStage, Saving!Misjudged, Unit!Misjudged, Saving!OnlyForAReason,
       Unit!OnlyForAReason
<1>. QED  BY <1>1, <1>2, <1>3, <1>4, <1>5, <1>6, <1>7, <1>8

LEMMA ConsumerStep ==
    /\ Shared!Init => Consumer!DecidedInv
    /\ Consumer!DecidedInv => Shared!TypeOK
    /\ Consumer!DecidedInv /\ [Shared!Next]_(Shared!vars) => Consumer!DecidedInv' /\ Shared!CustodyStays
<1>1. Consumer!ConsumerConstants /\ Consumer!NoSessionIsNone
  BY ConsumerConstants, ConsumerIsShared DEF Consumer!ConsumerConstants, Consumer!NoSessionIsNone
<1>. QED
  BY <1>1, ConsumerIsShared, ConsumerConstants, Consumer!DecidedInit, Consumer!SharedStep
     DEF Consumer!DecidedInv, Consumer!Typed

UnitInv == Unit!TypeOK /\ Unit!Forms /\ Unit!WriteOrders /\ Unit!RowsOk

LEMMA UnitStep ==
    /\ Saving!Init => UnitInv
    /\ UnitInv => Saving!TypeOK /\ Saving!SavedIsKept /\ Saving!WaitsAreInOrder
    /\ UnitInv /\ [Saving!Next]_(Saving!vars) => UnitInv' /\ [Saving!OnlyForAReason]_(Saving!vars)
<1>1. Unit!Init => UnitInv
  BY Unit!TypeInit, Unit!FormInit, Unit!OrderInit, Unit!RowsInit DEF UnitInv
<1>2. UnitInv => Unit!TypeOK /\ Unit!SavedIsKept /\ Unit!WaitsAreInOrder
  BY Unit!RowsTell, Unit!OrdersTell DEF UnitInv
<1>3. UnitInv /\ [Unit!Next]_(Unit!vars) => UnitInv' /\ [Unit!OnlyForAReason]_(Unit!vars)
  BY Unit!TypeStep, Unit!FormStep, Unit!OrderStep, Unit!RowsStep, Unit!ReasonStep DEF UnitInv
<1>. QED  BY <1>1, <1>2, <1>3, UnitIsSaving

-----------------------------------------------------------------------------
(* All places *)

DesksInv ==
    /\ place = "handover" => IInv
    /\ place = "shared" => Consumer!DecidedInv
    /\ place \in {"sends", "amendments"} => SendsInv
    /\ place \in {"codes", "roles"} => SignInInv
    /\ place \in {"claims", "incidents"} => ClaimInv
    /\ place \in {"fan-out", "dispatch"} => NoticesInv
    /\ place = "ledger" => LedgerInv
    /\ place \in {"office", "starts", "leave"} => StaffInv
    /\ place \in {"branches", "team", "applying"} => OfficeInv
    /\ place \in {"shelf", "stock"} => ShelfInv
    /\ place = "wire" => WireInv
    /\ place = "bridge" => BridgeInv
    /\ place = "book" => BookInv
    /\ place = "timeline" => AloneInv
    /\ place = "log" => TimelineRowsOK
    /\ place \in {"row", "rows"} => UnitInv

LEMMA DesksStart == DesksInit => DesksInv
<1> SUFFICES ASSUME DesksInit PROVE DesksInv
  OBVIOUS
<1>. QED
  BY InitInv, ConsumerStep, SendsInit, SignInInit, ClaimInit, NoticesInit, LedgerInit, StaffInit,
     OfficeInit, ShelfInit, WireInit, BridgeInit, BookInit, TimelineInit, AloneInit, UnitStep
     DEF DesksInit, DesksInv

\* A step is one of the place where it is taken.
LEMMA PlaceStep ==
    ASSUME [DesksNext]_<<place, vars, desks>>
    PROVE  /\ place' = place
           /\ place = "handover" => [Next]_vars
           /\ place = "shared" => [Shared!Next]_(Shared!vars)
           /\ place \in {"sends", "amendments"} => [Sending!Next]_(Sending!vars)
           /\ place \in {"codes", "roles"} => [Identity!Next]_(Identity!vars)
           /\ place \in {"claims", "incidents"} => [Claiming!Next]_(Claiming!vars)
           /\ place \in {"fan-out", "dispatch"} => [Telling!Next]_(Telling!vars)
           /\ place = "ledger" => [Ledger!Next]_(Ledger!vars)
           /\ place \in {"office", "starts", "leave"} => [Staff!Next]_(Staff!vars)
           /\ place \in {"branches", "team", "applying"} => [Office!Next]_(Office!vars)
           /\ place \in {"shelf", "stock"} => [Shelf!Next]_(Shelf!vars)
           /\ place = "wire" => [Wire!Next]_(Wire!vars)
           /\ place = "bridge" => [Bridge!Next]_(Bridge!vars)
           /\ place = "book" => [Book!Next]_(Book!vars)
           /\ place \in {"row", "rows"} => [Saving!Next]_(Saving!vars)
           /\ place \in {"timeline", "log"} => [Observing!Next]_(Observing!vars)
           /\ place = "timeline" /\ Apart => Apart'
<1>1. CASE UNCHANGED <<place, vars, desks>>
  <2>1. UNCHANGED place /\ UNCHANGED vars /\ UNCHANGED desks
    BY <1>1
  <2>2. UNCHANGED <<x1, x2, x3, x4, x5, x6, x7, x8>> /\ UNCHANGED <<x9, x10, x11, x12, x13, x14, x15, x16, x17, x18>>
    BY <2>1 DEF desks, after3, after4, after6, after7, after8, after10
  <2>3. UNCHANGED Shared!vars
    BY <2>2 DEF Shared!broker, Shared!database, Shared!store, Shared!thread, Shared!budgets,
         Shared!vars
  <2>4. UNCHANGED Sending!vars
    BY <2>2 DEF Sending!vars
  <2>5. UNCHANGED Identity!vars
    BY <2>2 DEF Identity!codes, Identity!vars
  <2>6. UNCHANGED Claiming!vars
    BY <2>2 DEF Claiming!vars
  <2>7. UNCHANGED Telling!vars
    BY <2>2 DEF Telling!tables, Telling!vars
  <2>8. UNCHANGED Ledger!vars
    BY <2>2 DEF Ledger!vars
  <2>9. UNCHANGED Staff!vars
    BY <2>2 DEF Staff!attendance, Staff!file, Staff!vars
  <2>10. UNCHANGED Office!vars
    BY <2>2 DEF Office!applying, Office!team, Office!vars
  <2>11. UNCHANGED Shelf!vars
    BY <2>2 DEF Shelf!catalogue, Shelf!stock, Shelf!vars
  <2>12. UNCHANGED Wire!vars
    BY <2>2 DEF Wire!vars
  <2>13. UNCHANGED Bridge!vars
    BY <2>2 DEF Bridge!source, Bridge!vars
  <2>14. UNCHANGED Book!vars
    BY <2>2 DEF Book!vars
  <2>15. UNCHANGED Observing!vars
    BY <2>2 DEF Observing!broker, Observing!database, Observing!vars
  <2>16. UNCHANGED Saving!vars
    BY <2>2 DEF Saving!vars
  <2>. QED
    BY <2>1, <2>2, <2>3, <2>4, <2>5, <2>6, <2>7, <2>8, <2>9, <2>10, <2>11, <2>12, <2>13, <2>14,
         <2>15, <2>16 DEF
         Apart, Observing!InTransaction
<1>2. CASE DesksNext
  BY <1>2 DEF DesksNext, Apart
<1>. QED  BY <1>1, <1>2

LEMMA DesksStep == DesksInv /\ [DesksNext]_<<place, vars, desks>> => DesksInv'
<1> SUFFICES ASSUME DesksInv, [DesksNext]_<<place, vars, desks>> PROVE DesksInv'
  OBVIOUS
<1>1. place' = place
  BY PlaceStep
<1>2. place = "handover" => IInv'
  BY PlaceStep, StepInv DEF DesksInv
<1>3. place = "shared" => Consumer!DecidedInv'
  BY PlaceStep, ConsumerStep DEF DesksInv
<1>4. place \in {"sends", "amendments"} => SendsInv'
  BY PlaceStep, SendsStep DEF DesksInv
<1>5. place \in {"codes", "roles"} => SignInInv'
  BY PlaceStep, SignInStep DEF DesksInv
<1>6. place \in {"claims", "incidents"} => ClaimInv'
  BY PlaceStep, ClaimStep DEF DesksInv
<1>7. place \in {"fan-out", "dispatch"} => NoticesInv'
  BY PlaceStep, NoticesStep DEF DesksInv
<1>8. place = "ledger" => LedgerInv'
  BY PlaceStep, LedgerStep DEF DesksInv
<1>9. place \in {"office", "starts", "leave"} => StaffInv'
  BY PlaceStep, StaffStep DEF DesksInv
<1>10. place \in {"branches", "team", "applying"} => OfficeInv'
  BY PlaceStep, OfficeStep DEF DesksInv
<1>11. place \in {"shelf", "stock"} => ShelfInv'
  BY PlaceStep, ShelfStep DEF DesksInv
<1>12. place = "wire" => WireInv'
  BY PlaceStep, WireStep DEF DesksInv
<1>13. place = "bridge" => BridgeInv'
  BY PlaceStep, BridgeStep DEF DesksInv
<1>14. place = "book" => BookInv'
  BY PlaceStep, BookStep DEF DesksInv
<1>15. place = "timeline" => AloneInv'
  BY PlaceStep, AloneStep DEF DesksInv, AloneInv
<1>16. place = "log" => TimelineRowsOK'
  BY PlaceStep, TimelineStep DEF DesksInv
<1>17. place \in {"row", "rows"} => UnitInv'
  BY PlaceStep, UnitStep DEF DesksInv
<1>. QED
  BY <1>1, <1>2, <1>3, <1>4, <1>5, <1>6, <1>7, <1>8, <1>9, <1>10, <1>11, <1>12, <1>13, <1>14, <1>15,
       <1>16, <1>17
       DEF DesksInv

\* What a step may not undo.
LEMMA UndoesNothing == DesksInv /\ [DesksNext]_<<place, vars, desks>> => [NothingUndone]_desks
<1> SUFFICES ASSUME DesksInv, [DesksNext]_<<place, vars, desks>>, desks' # desks PROVE NothingUndone
  OBVIOUS
<1>1. place \in {"codes", "roles"} => Identity!SessionsStayEnded
  BY PlaceStep, SignInStep DEF DesksInv
<1>2. place \in {"claims", "incidents"} => Claiming!DecisionsStay
  BY PlaceStep, ClaimStep DEF DesksInv
<1>3. place \in {"office", "starts", "leave"} => Staff!DaysStay
  BY PlaceStep, StaffStep DEF DesksInv
<1>4. place \in {"shelf", "stock"} => Shelf!OnlyRacesOrphan
  BY PlaceStep, ShelfStep DEF DesksInv
<1>5. place \in {"timeline", "log"} => TimelineRowsOK
  BY DEF DesksInv, AloneInv
<1>6. place \in {"timeline", "log"} => Observing!RecordsStay
  BY <1>5, PlaceStep, TimelineStep
<1>7. ASSUME place \in {"row", "rows"} PROVE Saving!OnlyForAReason
  <2>1. [Saving!OnlyForAReason]_(Saving!vars)
    BY <1>7, PlaceStep, UnitStep DEF DesksInv
  <2>2. UNCHANGED after8
    BY <1>7 DEF DesksNext, desks
  <2>. QED
    BY <2>1, <2>2 DEF Saving!vars, desks, after3, after4, after6, after7, after8
<1>. QED
  BY <1>1, <1>2, <1>3, <1>4, <1>6, <1>7 DEF NothingUndone

LEMMA CustodyIsKept == DesksInv /\ [DesksNext]_<<place, vars, desks>> =>
    [place = "shared" => Shared!CustodyStays]_desks
  BY PlaceStep, ConsumerStep DEF DesksInv

LEMMA DesksAlways == DesksSpec => []DesksInv
  BY DesksStart, DesksStep, PTL DEF DesksSpec

\* The tables of all services keep their shape, in whatever order requests,
\* consumers and clocks take their steps.
THEOREM ShapesAreKept == DesksSpec => []TypesOK
<1>1. DesksInv => TypesOK
  BY ConsumerStep, SendsTell, ClaimTells, NoticesTell, LedgerTells, StaffTells, OfficeTells,
     ShelfTells, WireTells, BridgeTells, BookTells, TimelineTells, UnitStep
     DEF DesksInv, TypesOK, IInv, SignInInv, AloneInv
<1>. QED  BY <1>1, DesksAlways, PTL

\* What is told, sent, acknowledged or passed on agrees with the rows, wherever
\* requests race, deliveries repeat and processes die.
THEOREM StoriesAlwaysAgree == DesksSpec => []StoriesAgree
<1>1. DesksInv => StoriesAgree
  BY SendsTell, NoticesTell, LedgerTells, OfficeTells, ShelfTells, WireTells, BridgeTells, UnitStep
     DEF DesksInv, StoriesAgree, AloneInv
<1>. QED  BY <1>1, DesksAlways, PTL

\* Where there may be one, racing requests never make two.
THEOREM NeverTwoAtATime == DesksSpec => []OneAtATime
<1>1. DesksInv => OneAtATime
  BY ClaimTells, StaffTells, BookTells, UnitStep DEF DesksInv, OneAtATime, SignInInv
<1>. QED  BY <1>1, DesksAlways, PTL

\* No request that read rows before they changed undoes what was decided,
\* ended or recorded since.
THEOREM NothingIsEverUndone == DesksSpec => NothingIsUndone
  BY DesksAlways, UndoesNothing, PTL DEF DesksSpec, NothingIsUndone

\* Custody starts once, however many handlers share a session.
THEOREM SharedCustodyStartsOnce == DesksSpec => CustodyStartsOnce
  BY DesksAlways, CustodyIsKept, PTL DEF DesksSpec, CustodyStartsOnce
====
