-------------------------- MODULE UnitOfWorkProofs ---------------------------
(***************************************************************************)
(* Proofs about UnitOfWork, for any number of requests, rows and changes.  *)
(*                                                                         *)
(* The argument for SavedIsKept: a copy knows the version it was read at,  *)
(* and while the row has that version, the copy has all changes of the     *)
(* row.  What is replaced has the version its stage was first read at, if  *)
(* the stage did not misjudge it; the lock keeps it so until the commit.   *)
(***************************************************************************)
EXTENDS UnitOfWork, TLAPS

-----------------------------------------------------------------------------
(* Types *)

Kinds == {"checked", "healed", "added", "replaced", "merged"}

AreTables(store) == \A i \in DOMAIN store : store[i].kind \in Kinds

LEMMA StoresAreTables == \A s \in DOMAIN Store : AreTables(Store[s])
<1>1. AreTables(ClaimsStore)
  BY DEF AreTables, Kinds, ClaimsStore, Checked, Healed, Added, Replaced, Merged,
         ClaimsClaims, ClaimsMessages, ClaimsIncidents, Outbox, Inbox
<1>2. AreTables(CustomerStore)
  BY DEF AreTables, Kinds, CustomerStore, Checked, Healed, Added, Replaced, Merged,
         CustomerProfiles, CustomerLegal, CustomerContacts, CustomerAddresses
<1>3. AreTables(DeliveryStore)
  BY DEF AreTables, Kinds, DeliveryStore, Checked, Healed, Added, Replaced, Merged,
         DeliveryManifests, DeliveryStops, DeliveryVerifications, DeliveryPayments, DeliveryPhotos, DeliveryFailedAttempts, DeliveryPreferences, DeliveryReports, DeliveryRatings, Outbox, Inbox
<1>4. AreTables(FinanceStore)
  BY DEF AreTables, Kinds, FinanceStore, Checked, Healed, Added, Replaced, Merged,
         FinanceLedger, FinanceDriverAccounts, FinanceMerchantAccounts, FinanceCollections, FinanceDeposits, FinancePayouts, FinanceReconciliations, Outbox, Inbox
<1>5. AreTables(HubStore)
  BY DEF AreTables, Kinds, HubStore, Checked, Healed, Added, Replaced, Merged,
         HubHubs, HubDropOffs, HubPresences, HubConsignments, HubLinehauls, HubSealChecks, HubPositions, Outbox, Inbox
<1>6. AreTables(IdentityStore)
  BY DEF AreTables, Kinds, IdentityStore, Checked, Healed, Added, Replaced, Merged,
         IdentityPrincipals, IdentityChallenges, IdentitySessions, IdentityGrants
<1>7. AreTables(MerchantStore)
  BY DEF AreTables, Kinds, MerchantStore, Checked, Healed, Added, Replaced, Merged,
         MerchantApplications, MerchantMerchants, MerchantPolicies, MerchantStores, MerchantMemberships, MerchantLabelStock, MerchantPrinters, MerchantCategories, MerchantProducts, Outbox, Inbox
<1>8. AreTables(NotificationStore)
  BY DEF AreTables, Kinds, NotificationStore, Checked, Healed, Added, Replaced, Merged,
         NotificationRecipients, NotificationPreferences, NotificationMessages, NotificationCentre, Inbox
<1>9. AreTables(OrderingStore)
  BY DEF AreTables, Kinds, OrderingStore, Checked, Healed, Added, Replaced, Merged,
         OrderingOrders, OrderingRequests, OrderingGoods, OrderingTariffs, Outbox, Inbox
<1>10. AreTables(WorkforceStore)
  BY DEF AreTables, Kinds, WorkforceStore, Checked, Healed, Added, Replaced, Merged,
         WorkforceApplications, WorkforceDrivers, WorkforcePatterns, WorkforceAttendance, WorkforceBlocks, WorkforceLeave, Inbox
<1> QED
  BY <1>1, <1>2, <1>3, <1>4, <1>5, <1>6, <1>7, <1>8, <1>9, <1>10 DEF Store

LEMMA TypeInit == Init => TypeOK
<1> SUFFICES ASSUME Init PROVE TypeOK
  OBVIOUS
<1>1. table \in [Rows -> Shape]
  <2>1. PICK s \in Services \cap DOMAIN Store :
          \E at \in [Rows -> Tables \cap DOMAIN Store[s]] :
            table = [r \in Rows |->
                [kind  |-> Store[s][at[r]].kind,
                 own   |-> Store[s][at[r]].own # {},
                 past  |-> Store[s][at[r]].past # {},
                 after |-> {q \in Rows : at[q] < at[r]}]]
    BY DEF Init
  <2>2. PICK at \in [Rows -> Tables \cap DOMAIN Store[s]] :
            table = [r \in Rows |->
                [kind  |-> Store[s][at[r]].kind,
                 own   |-> Store[s][at[r]].own # {},
                 past  |-> Store[s][at[r]].past # {},
                 after |-> {q \in Rows : at[q] < at[r]}]]
    BY <2>1
  <2>3. \A r \in Rows : Store[s][at[r]].kind \in Kinds
    BY StoresAreTables DEF AreTables
  <2> QED
    BY <2>2, <2>3 DEF Shape, Kinds
<1>2. stored \in [Rows -> Row]
  BY DEF Init, Row
<1>3. hand \in [Requests -> [Rows -> Copy]]
  BY DEF Init, Copy, NoCopy
<1>4. staged \in [Requests -> [Rows -> Stage]]
  BY DEF Init, Stage, NoStage
<1> QED
  <2>1. order \in [Requests -> Seq(Rows)]
    BY DEF Init
  <2>2. /\ phase \in [Requests -> {"open", "writing", "done", "stale", "gone"}]
        /\ written \in [Requests -> SUBSET Rows]
        /\ landed \in [Rows -> SUBSET Change]
    BY DEF Init
  <2> QED
    BY <1>1, <1>2, <1>3, <1>4, <2>1, <2>2 DEF TypeOK

\* The copies a request may take, and what it leaves in its stage, are typed.
LEMMA TakenTyped ==
    ASSUME TypeOK, NEW p \in Requests, NEW r \in Rows
    PROVE  /\ FromStore(r) \in Copy /\ FromStage(p, r) \in Copy
           /\ [version |-> 1, made |-> {}, read |-> 0, shared |-> FALSE] \in Copy
           /\ NoCopy \in Copy /\ NoStage \in Stage
BY DEF TypeOK, Copy, Stage, Row, FromStore, FromStage, NoCopy, NoStage

LEMMA StageTyped ==
    ASSUME TypeOK, NEW p \in Requests, NEW r \in Rows, NEW x \in Stage,
           staged' = [staged EXCEPT ![p][r] = x] \/ staged' = staged
    PROVE  staged' \in [Requests -> [Rows -> Stage]]
<1>1. staged \in [Requests -> [Rows -> Stage]]
  BY DEF TypeOK
<1>2. [staged[p] EXCEPT ![r] = x] \in [Rows -> Stage]
  BY <1>1
<1>3. staged' = [staged EXCEPT ![p] = [staged[p] EXCEPT ![r] = x]] \/ staged' = staged
  OBVIOUS
<1> QED
  BY <1>1, <1>2, <1>3

LEMMA ChangedTyped ==
    ASSUME TypeOK, NEW p \in Requests, NEW r \in Rows, NEW n \in 1 .. MaxChanges
    PROVE  HandWith(p, r, <<p, n>>) \in Copy /\ StageWith(p, r, <<p, n>>) \in Stage
<1>1. NextVersion(p, r) \in Nat
  BY DEF TypeOK, Copy, NextVersion
<1>2. <<p, n>> \in Change
  BY DEF Change
<1>3. HandWith(p, r, <<p, n>>) \in Copy
  <2>1. hand[p][r] \in Copy
    BY DEF TypeOK
  <2> QED
    BY <1>1, <1>2, <2>1 DEF Copy, HandWith
<1>4. StageWith(p, r, <<p, n>>) \in Stage
  <2>1. staged[p][r] \in Stage
    BY DEF TypeOK
  <2> QED
    BY <1>1, <1>2, <2>1 DEF Stage, StageWith
<1> QED
  BY <1>3, <1>4

LEMMA SavedTyped ==
    ASSUME TypeOK, NEW p \in Requests, NEW r \in InHand(p)
    PROVE  StageOf(p, r) \in Stage /\ Shared(hand[p][r]) \in Copy
<1>1. hand[p][r] \in Copy /\ staged[p][r] \in Stage
  BY DEF TypeOK, InHand
<1>2. Before(p, r) \in Nat
  BY <1>1 DEF Copy, Stage, InHand, Before
<1> QED
  BY <1>1, <1>2 DEF Copy, Stage, StageOf, Shared

LEMMA TypeStep == TypeOK /\ [Next]_vars => TypeOK'
<1> SUFFICES ASSUME TypeOK, [Next]_vars PROVE TypeOK'
  OBVIOUS
<1>1. ASSUME NEW p \in Requests, NEW r \in Rows, NEW c \in Copy, Take(p, r, c)
      PROVE  TypeOK'
  BY <1>1 DEF Take, TypeOK
<1>2. ASSUME NEW p \in Requests, NEW r \in Rows, Look(p, r) \/ LookPast(p, r) \/ Make(p, r)
      PROVE  TypeOK'
  BY <1>1, <1>2, TakenTyped DEF Look, LookPast, Make
<1>3. ASSUME NEW p \in Requests, NEW r \in Rows, ChangeIt(p, r)
      PROVE  TypeOK'
  <2>1. PICK n \in 1 .. MaxChanges :
          /\ hand' = [hand EXCEPT ![p][r] = HandWith(p, r, <<p, n>>)]
          /\ IF hand[p][r].shared
             THEN staged' = [staged EXCEPT ![p][r] = StageWith(p, r, <<p, n>>)]
             ELSE UNCHANGED staged
    BY <1>3 DEF ChangeIt
  <2>2. HandWith(p, r, <<p, n>>) \in Copy /\ StageWith(p, r, <<p, n>>) \in Stage
    BY ChangedTyped
  <2>3. hand' \in [Requests -> [Rows -> Copy]]
    BY <2>1, <2>2 DEF TypeOK
  <2>4. staged' \in [Requests -> [Rows -> Stage]]
    BY <2>1, <2>2, StageTyped
  <2> QED
    BY <1>3, <2>3, <2>4 DEF ChangeIt, TypeOK
<1>4. ASSUME NEW p \in Requests, NEW r \in Rows, Save(p, r)
      PROVE  TypeOK'
  <2>1. StageOf(p, r) \in Stage /\ Shared(hand[p][r]) \in Copy
    BY <1>4, SavedTyped DEF Save
  <2>2. hand' \in [Requests -> [Rows -> Copy]] /\ staged' \in [Requests -> [Rows -> Stage]]
    BY <1>4, <2>1 DEF Save, TypeOK
  <2>3. order' \in [Requests -> Seq(Rows)]
    BY <1>4 DEF Save, TypeOK
  <2> QED
    BY <1>4, <2>2, <2>3 DEF Save, TypeOK
<1>5. ASSUME NEW p \in Requests, NEW r \in Rows, ReplaceRow(p, r) \/ AddRow(p, r)
      PROVE  TypeOK'
  <2>1. CASE Write(p, r)
    BY <2>1 DEF Write, TypeOK
  <2>2. CASE Refuse(p)
    BY <2>2 DEF Refuse, TypeOK
  <2> QED
    BY <1>5, <2>1, <2>2 DEF ReplaceRow, AddRow
<1>6. ASSUME NEW p \in Requests, NEW r \in Rows, MissRow(p, r)
      PROVE  TypeOK'
  <2>2. ToAdd(p, r) \in Stage
    BY DEF TypeOK, Stage, ToAdd
  <2>1. staged' \in [Requests -> [Rows -> Stage]]
    <3>1. staged' = [staged EXCEPT ![p][r] = ToAdd(p, r)] \/ staged' = staged
      BY <1>6 DEF MissRow, Refuse
    <3> QED
      BY <2>2, <3>1, StageTyped
  <2> QED
    BY <1>6, <2>1 DEF MissRow, Refuse, TypeOK
<1>7. ASSUME NEW p \in Requests, Commit(p)
      PROVE  TypeOK'
  BY <1>7, TakenTyped DEF Commit, TypeOK
<1>8. ASSUME NEW p \in Requests, Publish(p)
      PROVE  TypeOK'
  <2>1. stored' \in [Rows -> Row] /\ landed' \in [Rows -> SUBSET Change]
    BY <1>8 DEF Publish, TypeOK, Stage, Row
  <2> QED
    BY <1>8, <2>1 DEF Publish, TypeOK
<1>9. ASSUME NEW p \in Requests, RollBack(p)
      PROVE  TypeOK'
  BY <1>9, TakenTyped DEF RollBack, TypeOK
<1>10. CASE UNCHANGED vars
  BY <1>10 DEF vars, TypeOK
<1> QED
  BY <1>2, <1>3, <1>4, <1>5, <1>6, <1>7, <1>8, <1>9, <1>10 DEF Next

\* Tables, rows, copies and stages keep their shapes.
THEOREM UnitTypes == Spec => []TypeOK
BY TypeInit, TypeStep, PTL DEF Spec

-----------------------------------------------------------------------------
(* Stages *)

\* What holds of the stage of a row, and of the copy that is shared with it.
Form(p, r) ==
    LET stage == staged[p][r]
        copy  == hand[p][r]
    IN  /\ r \in InStage(p) \/ stage = NoStage
        /\ stage.careless \/ stage.saved \subseteq stage.made
        /\ \A c \in stage.saved : c[1] = p
        /\ ~Versioned(r) => stage.before = stage.base
        /\ stage.once => stage.before = stage.base
        /\ stage.read > 0 \/ stage.base > 0 \/ copy.read > 0 => stored[r].version > 0
        /\ table[r].kind = "added" => stage.before = 0 /\ stage.read = 0
        /\ phase[p] = "open" /\ r \in InStage(p) => r \in InHand(p)
        /\ copy.shared => /\ r \in InStage(p)
                          /\ copy.version = stage.version
                          /\ copy.made = stage.made
                          /\ copy.read = stage.read

Forms == \A p \in Requests, r \in Rows : Form(p, r)

LEMMA FormInit == Init => Forms
BY DEF Init, Forms, Form, InStage, InHand, NoStage, NoCopy

\* What was not touched keeps its form.
LEMMA FormStays ==
    ASSUME NEW p \in Requests, NEW r \in Rows, Form(p, r),
           UNCHANGED table, hand'[p][r] = hand[p][r], staged'[p][r] = staged[p][r],
           stored[r].version > 0 => stored'[r].version > 0,
           phase'[p] = "open" => phase[p] = "open"
    PROVE  Form(p, r)'
BY DEF Form, InStage, InHand, Versioned

\* Other rows and other requests than those of a step are as before.
LEMMA OthersStay ==
    ASSUME TypeOK, NEW p \in Requests, NEW r \in Rows,
           NEW x, NEW y,
           hand' = hand \/ hand' = [hand EXCEPT ![p][r] = x],
           staged' = staged \/ staged' = [staged EXCEPT ![p][r] = y],
           NEW q \in Requests, NEW s \in Rows, q # p \/ s # r
    PROVE  hand'[q][s] = hand[q][s] /\ staged'[q][s] = staged[q][s]
BY DEF TypeOK

LEMMA FormOfOne ==
    ASSUME TypeOK, Forms, NEW p \in Requests, NEW r \in Rows,
           NEW x, NEW y,
           hand' = hand \/ hand' = [hand EXCEPT ![p][r] = x],
           staged' = staged \/ staged' = [staged EXCEPT ![p][r] = y],
           UNCHANGED <<table, stored, phase>>, Form(p, r)'
    PROVE  Forms'
<1> SUFFICES ASSUME NEW q \in Requests, NEW s \in Rows, q # p \/ s # r
             PROVE  Form(q, s)'
  BY DEF Forms
<1>1. hand'[q][s] = hand[q][s] /\ staged'[q][s] = staged[q][s]
  BY OthersStay
<1> QED
  BY <1>1, FormStays DEF Forms

\* The new copy and stage of the row of a step.
LEMMA NewOnes ==
    ASSUME TypeOK, NEW p \in Requests, NEW r \in Rows
    PROVE  /\ \A x : hand' = [hand EXCEPT ![p][r] = x] => hand'[p][r] = x
           /\ \A x : staged' = [staged EXCEPT ![p][r] = x] => staged'[p][r] = x
BY DEF TypeOK

LEMMA TakeForm ==
    ASSUME TypeOK, Forms, NEW p \in Requests, NEW r \in Rows,
           Look(p, r) \/ LookPast(p, r) \/ Make(p, r)
    PROVE  Forms'
<1>1. PICK x : /\ Take(p, r, x)
               /\ x.version > 0
               /\ x.read > 0 => stored[r].version > 0 \/ x.read = staged[p][r].read
               /\ x.shared => r \in InStage(p) /\ x = FromStage(p, r)
  BY DEF Look, LookPast, Make, FromStore, FromStage, InStage
<1>2. hand'[p][r] = x /\ UNCHANGED <<table, stored, phase, staged>>
  BY <1>1, NewOnes DEF Take
<1>3. Form(p, r)
  BY DEF Forms
<1>4. Form(p, r)'
  BY <1>1, <1>2, <1>3 DEF Form, InStage, InHand, FromStage, Versioned
<1> QED
  BY <1>1, <1>2, <1>4, FormOfOne DEF Take

LEMMA ChangeForm ==
    ASSUME TypeOK, Forms, NEW p \in Requests, NEW r \in Rows, ChangeIt(p, r)
    PROVE  Forms'
<1>1. PICK n \in 1 .. MaxChanges :
          /\ hand' = [hand EXCEPT ![p][r] = HandWith(p, r, <<p, n>>)]
          /\ IF hand[p][r].shared
             THEN staged' = [staged EXCEPT ![p][r] = StageWith(p, r, <<p, n>>)]
             ELSE UNCHANGED staged
  BY DEF ChangeIt
<1>2. hand'[p][r] = HandWith(p, r, <<p, n>>) /\ UNCHANGED <<table, stored, phase>>
  BY <1>1, NewOnes DEF ChangeIt
<1>3. Form(p, r) /\ phase[p] = "open" /\ r \in InHand(p) /\ NextVersion(p, r) > 0
  BY DEF Forms, ChangeIt, InHand, NextVersion, TypeOK, Copy
<1>4. CASE hand[p][r].shared
  <2>1. staged'[p][r] = StageWith(p, r, <<p, n>>)
    BY <1>1, <1>4, NewOnes
  <2>2. Form(p, r)'
    BY <1>2, <1>3, <1>4, <2>1
    DEF Form, InStage, InHand, HandWith, StageWith, Versioned
  <2> QED
    BY <1>1, <1>2, <1>4, <2>2, FormOfOne
<1>5. CASE ~hand[p][r].shared
  <2>1. Form(p, r)'
    BY <1>1, <1>2, <1>3, <1>5 DEF Form, InStage, InHand, HandWith, Versioned
  <2> QED
    BY <1>1, <1>2, <1>5, <2>1, FormOfOne
<1> QED
  BY <1>4, <1>5

LEMMA SaveForm ==
    ASSUME TypeOK, Forms, NEW p \in Requests, NEW r \in Rows, Save(p, r)
    PROVE  Forms'
<1>1. /\ hand'[p][r] = Shared(hand[p][r])
      /\ staged'[p][r] = StageOf(p, r)
      /\ UNCHANGED <<table, stored, phase>>
  BY NewOnes DEF Save
<1>2. Form(p, r) /\ hand[p][r] \in Copy /\ hand[p][r].version > 0
  BY DEF Forms, Save, InHand, TypeOK
<1>3. staged'[p][r].careless \/ staged'[p][r].saved \subseteq staged'[p][r].made
  <2>1. CASE r \notin InStage(p)
    <3>1. staged[p][r].saved = {}
      BY <1>2, <2>1 DEF Form, NoStage
    <3> QED
      BY <1>1, <3>1 DEF StageOf
  <2>2. CASE r \in InStage(p)
    <3>1. CASE staged[p][r].careless \/ ~hand[p][r].shared
      <4>1. staged'[p][r].careless = (staged[p][r].careless \/ ~hand[p][r].shared)
        BY <1>1, <2>2 DEF StageOf
      <4> QED
        BY <3>1, <4>1
    <3>2. CASE hand[p][r].shared /\ staged[p][r].saved \subseteq staged[p][r].made
      <4>1. staged[p][r].saved \subseteq hand[p][r].made
        BY <1>2, <3>2 DEF Form
      <4> QED
        BY <1>1, <4>1 DEF StageOf
    <3> QED
      BY <1>2, <3>1, <3>2 DEF Form
  <2> QED
    BY <2>1, <2>2
<1>4. ~Versioned(r) => staged'[p][r].before = staged'[p][r].base
  BY <1>1, <1>2 DEF StageOf, Before, Form
<1>5. table[r].kind = "added" => staged'[p][r].before = 0 /\ staged'[p][r].read = 0
  BY <1>1, <1>2 DEF StageOf, Before, Form, Save, Versioned
<1>6. \A c \in staged'[p][r].saved : c[1] = p
  BY <1>1, <1>2 DEF StageOf, Form
<1>7. staged'[p][r].once => staged'[p][r].before = staged'[p][r].base
  <2>1. CASE ~Versioned(r)
    BY <1>4, <2>1
  <2>2. CASE Versioned(r) /\ staged[p][r].before > 0
    <3>1. r \in InStage(p)
      BY <1>2, <2>2 DEF Form, NoStage
    <3>2. /\ staged'[p][r].base = staged[p][r].base
          /\ staged'[p][r].once = staged[p][r].once
          /\ staged'[p][r].before = staged[p][r].before
      BY <1>1, <2>2, <3>1 DEF StageOf, Before
    <3> QED
      BY <1>2, <3>2 DEF Form
  <2>3. CASE Versioned(r) /\ ~(staged[p][r].before > 0)
    <3>1. /\ staged'[p][r].once = (hand[p][r].version = staged'[p][r].base + 1)
          /\ staged'[p][r].before = hand[p][r].version - 1
      BY <1>1, <2>3 DEF StageOf, Before
    <3>2. staged'[p][r].base \in Nat
      BY <1>1, <1>2 DEF StageOf, Copy, Stage, TypeOK
    <3>3. staged'[p][r].once => hand[p][r].version = staged'[p][r].base + 1
      BY <3>1
    <3>4. hand[p][r].version \in Nat
      BY <1>2 DEF Copy
    <3> QED
      BY <3>1, <3>2, <3>3, <3>4
  <2> QED
    BY <2>1, <2>2, <2>3
<1>8. /\ staged'[p][r].read > 0 \/ hand'[p][r].read > 0 => hand[p][r].read > 0
      /\ staged'[p][r].base > 0 => staged[p][r].base > 0 \/ hand[p][r].read > 0
  BY <1>1 DEF StageOf, Shared
<1>9. Form(p, r)'
  BY <1>1, <1>2, <1>3, <1>4, <1>5, <1>6, <1>7, <1>8
  DEF Form, InStage, InHand, StageOf, Shared, Versioned, Copy
<1> QED
  BY <1>1, <1>9, FormOfOne DEF Save

LEMMA MissForm ==
    ASSUME TypeOK, Forms, NEW p \in Requests, NEW r \in Rows, MissRow(p, r),
           table[r].kind = "healed"
    PROVE  Forms'
<1>1. staged'[p][r] = ToAdd(p, r) /\ UNCHANGED <<table, stored, phase, hand>>
  BY NewOnes DEF MissRow
<1>2. Form(p, r) /\ r \in InStage(p) /\ phase[p] # "open"
  BY DEF Forms, MissRow, IsNext
<1>3. staged[p][r].base = 0
  <2>1. staged[p][r].base \in Nat
    BY DEF TypeOK, Stage
  <2> QED
    BY <1>2, <2>1 DEF Form, MissRow
<1>4. Form(p, r)'
  BY <1>1, <1>2, <1>3 DEF Form, InStage, InHand, ToAdd, Versioned
<1> QED
  BY <1>1, <1>4, FormOfOne DEF MissRow

\* What is left of a step that writes a row or fails to.
LEMMA RowOutcomes ==
    ASSUME NEW p \in Requests, NEW r \in Rows,
           ReplaceRow(p, r) \/ MissRow(p, r) \/ AddRow(p, r)
    PROVE  \/ Write(p, r) /\ (ReplaceRow(p, r) \/ AddRow(p, r))
           \/ Refuse(p)
           \/ MissRow(p, r) /\ table[r].kind = "healed"
BY DEF ReplaceRow, MissRow, AddRow

LEMMA FormStep == TypeOK /\ Forms /\ [Next]_vars => Forms'
<1> SUFFICES ASSUME TypeOK, Forms, [Next]_vars PROVE Forms'
  OBVIOUS
<1>1. ASSUME UNCHANGED <<table, hand, staged>>,
             \A r \in Rows : stored[r].version > 0 => stored'[r].version > 0,
             \A p \in Requests : phase'[p] = "open" => phase[p] = "open"
      PROVE  Forms'
  BY <1>1, FormStays DEF Forms
<1>2. ASSUME NEW p \in Requests, NEW r \in Rows,
             ReplaceRow(p, r) \/ MissRow(p, r) \/ AddRow(p, r)
      PROVE  Forms'
  <2>1. CASE Write(p, r)
    BY <1>1, <2>1 DEF Write
  <2>2. CASE Refuse(p)
    BY <1>1, <2>2 DEF Refuse, TypeOK
  <2>3. CASE MissRow(p, r) /\ table[r].kind = "healed"
    BY <2>3, MissForm
  <2> QED
    BY <1>2, <2>1, <2>2, <2>3, RowOutcomes
<1>3. ASSUME NEW p \in Requests, Commit(p)
      PROVE  Forms'
  <2> SUFFICES ASSUME NEW q \in Requests, NEW s \in Rows
               PROVE  Form(q, s)'
    BY DEF Forms
  <2>1. /\ UNCHANGED <<table, stored, staged>>
        /\ phase'[q] = IF q = p THEN "writing" ELSE phase[q]
        /\ hand'[q][s] = IF q = p THEN NoCopy ELSE hand[q][s]
    BY <1>3 DEF Commit, TypeOK
  <2>2. Form(q, s)
    BY DEF Forms
  <2> QED
    BY <2>1, <2>2 DEF Form, InStage, InHand, NoCopy, Versioned
<1>4. ASSUME NEW p \in Requests, Publish(p)
      PROVE  Forms'
  <2>1. \A r \in Rows : stored[r].version > 0 => stored'[r].version > 0
    BY <1>4 DEF Publish, InStage
  <2> QED
    BY <1>1, <1>4, <2>1 DEF Publish, TypeOK
<1>5. ASSUME NEW p \in Requests, RollBack(p)
      PROVE  Forms'
  <2> SUFFICES ASSUME NEW q \in Requests, NEW s \in Rows
               PROVE  Form(q, s)'
    BY DEF Forms
  <2>1. /\ UNCHANGED <<table, stored>>
        /\ phase'[q] = IF q = p THEN "gone" ELSE phase[q]
        /\ hand'[q][s] = IF q = p THEN NoCopy ELSE hand[q][s]
        /\ staged'[q][s] = IF q = p THEN NoStage ELSE staged[q][s]
    BY <1>5 DEF RollBack, TypeOK
  <2>2. Form(q, s)
    BY DEF Forms
  <2> QED
    BY <2>1, <2>2 DEF Form, InStage, InHand, NoCopy, NoStage, Versioned
<1>6. CASE UNCHANGED vars
  BY <1>1, <1>6 DEF vars
<1> QED
  BY <1>2, <1>3, <1>4, <1>5, <1>6, TakeForm, ChangeForm, SaveForm DEF Next

LEMMA TypedForms == Spec => [](TypeOK /\ Forms)
BY TypeInit, TypeStep, FormInit, FormStep, PTL DEF Spec

LEMMA ReasonStep == TypeOK /\ Forms /\ [Next]_vars => [OnlyForAReason]_vars
<1> SUFFICES ASSUME TypeOK, Forms, Next, NEW p \in Requests,
                    phase'[p] = "stale", phase[p] # "stale"
             PROVE  \E r \in InStage(p) :
                       Misjudged(p, r) \/ stored[r].version # staged[p][r].base
  BY DEF OnlyForAReason
<1>1. PICK q \in Requests, r \in Rows :
        /\ ReplaceRow(q, r) \/ MissRow(q, r) \/ AddRow(q, r)
        /\ Refuse(q)
  <2>1. phase' # phase
    OBVIOUS
  <2>2. ASSUME NEW q \in Requests, phase' = [phase EXCEPT ![q] = "writing"] \/
                                   phase' = [phase EXCEPT ![q] = "done"] \/
                                   phase' = [phase EXCEPT ![q] = "gone"]
        PROVE  FALSE
    BY <2>2 DEF TypeOK
  <2>3. ASSUME NEW q \in Requests PROVE ~Commit(q) /\ ~Publish(q) /\ ~RollBack(q)
    BY <2>2 DEF Commit, Publish, RollBack
  <2>4. ASSUME NEW q \in Requests, NEW r \in Rows
        PROVE  ~Look(q, r) /\ ~LookPast(q, r) /\ ~Make(q, r) /\ ~ChangeIt(q, r) /\ ~Save(q, r)
    BY <2>1 DEF Look, LookPast, Make, Take, ChangeIt, Save
  <2>5. PICK q \in Requests, r \in Rows : ReplaceRow(q, r) \/ MissRow(q, r) \/ AddRow(q, r)
    BY <2>3, <2>4 DEF Next
  <2>6. Refuse(q)
    BY <2>1, <2>5, RowOutcomes DEF Write, MissRow
  <2> QED
    BY <2>5, <2>6
<1>2. q = p
  BY <1>1 DEF Refuse, TypeOK
<1>3. r \in InStage(p) /\ Form(p, r) /\ staged[p][r] \in Stage /\ stored[r] \in Row
  BY <1>1, <1>2 DEF ReplaceRow, MissRow, AddRow, IsNext, Forms, TypeOK
<1>4. table[r].kind \in Kinds
  BY DEF TypeOK, Shape, Kinds
<1>5. /\ staged[p][r].before \in Nat /\ staged[p][r].base \in Nat
      /\ stored[r].version \in Nat
  BY <1>3 DEF Stage, Row
<1>6. written' = written
  BY <1>1 DEF Refuse
<1>7. Misjudged(p, r) \/ staged[p][r].before = staged[p][r].base
  BY <1>3, <1>5 DEF Misjudged, Form
<1>8. stored[r].version # staged[p][r].before
  <2>1. CASE ReplaceRow(p, r)
    <3>1. Fits(p, r) => Write(p, r)
      BY <2>1 DEF ReplaceRow
    <3>2. ~Write(p, r)
      BY <1>1, <1>2 DEF Refuse, Write
    <3> QED
      BY <3>1, <3>2 DEF Fits
  <2>2. CASE MissRow(p, r)
    BY <1>5, <2>2 DEF MissRow, Replacing
  <2>3. CASE AddRow(p, r)
    <3>1. stored[r].version # 0 /\ table[r].kind # "merged"
      BY <1>1, <1>2, <2>3 DEF AddRow, Write, Refuse
    <3>2. staged[p][r].before = 0
      BY <1>3, <1>4, <1>5, <2>3, <3>1 DEF AddRow, Replacing, Kinds, Form
    <3> QED
      BY <3>1, <3>2
  <2> QED
    BY <1>1, <1>2, <2>1, <2>2, <2>3
<1> QED
  BY <1>3, <1>7, <1>8

\* A request is refused only over a row that it misjudged or that is not as
\* it first read it.
THEOREM RefusalsAreFounded == Spec => RefusedForAReason
BY ReasonStep, TypedForms, PTL DEF RefusedForAReason, Spec

-----------------------------------------------------------------------------
(* The order of a commit's writes *)

\* What is replaced later does not come earlier in the order, and what is
\* added comes last.
WriteOrder(p) ==
    /\ phase[p] = "open" => written[p] = {}
    /\ phase[p] = "writing" =>
          /\ \A s \in written[p] \cap Replacing(p) :
                \A r \in Replacing(p) \ written[p] : ~Earlier(p, r, s)
          /\ ~(written[p] \subseteq Replacing(p)) => Replacing(p) \subseteq written[p]

WriteOrders == \A p \in Requests : WriteOrder(p)

LEMMA OrderInit == Init => WriteOrders
BY DEF Init, WriteOrders, WriteOrder

LEMMA OrderStays ==
    ASSUME NEW p \in Requests, WriteOrder(p), UNCHANGED <<table, order>>,
           written'[p] = written[p], staged'[p] = staged[p],
           phase'[p] \in {"open", "writing"} => phase'[p] = phase[p]
    PROVE  WriteOrder(p)'
BY DEF WriteOrder, Replacing, InStage, Earlier, OneTable, FirstSaved

\* A row that is written stands in its place.
LEMMA WriteKeepsOrder ==
    ASSUME TypeOK, WriteOrders, NEW p \in Requests, NEW r \in Rows,
           IsNext(p, r), Write(p, r)
    PROVE  WriteOrders'
<1> SUFFICES ASSUME NEW q \in Requests PROVE WriteOrder(q)'
  BY DEF WriteOrders
<1>1. WriteOrder(q) /\ UNCHANGED <<table, order, phase, staged>>
  BY DEF WriteOrders, Write
<1>2. CASE q # p
  <2>1. written'[q] = written[q]
    BY <1>2 DEF Write, TypeOK
  <2> QED
    BY <1>1, <2>1, OrderStays
<1>3. CASE q = p
  <2>1. written'[p] = written[p] \cup {r} /\ phase[p] = "writing"
    BY DEF Write, TypeOK, IsNext
  <2>2. Replacing(p)' = Replacing(p) /\ r \notin written[p]
    BY <1>1 DEF Replacing, InStage, IsNext
  <2>3. \A x, y \in Rows : Earlier(p, x, y)' = Earlier(p, x, y)
    BY <1>1 DEF Earlier, OneTable, FirstSaved
  <2>4. CASE r \in Replacing(p)
    BY <1>1, <1>3, <2>1, <2>2, <2>3, <2>4 DEF WriteOrder, IsNext, Replacing, InStage
  <2>5. CASE r \notin Replacing(p)
    BY <1>1, <1>3, <2>1, <2>2, <2>5 DEF WriteOrder, IsNext
  <2> QED
    BY <2>4, <2>5
<1> QED
  BY <1>2, <1>3

LEMMA OrderStep == TypeOK /\ WriteOrders /\ [Next]_vars => WriteOrders'
<1> SUFFICES ASSUME TypeOK, WriteOrders, [Next]_vars PROVE WriteOrders'
  OBVIOUS
<1>1. ASSUME NEW p \in Requests, UNCHANGED <<table, written>>,
             phase[p] = "open" \/ phase' = phase,
             \A q \in Requests \ {p} :
                phase'[q] = phase[q] /\ staged'[q] = staged[q] /\ order'[q] = order[q],
             phase[p] = "open",
             phase'[p] \in {"open", "writing"}
      PROVE  WriteOrders'
  <2> SUFFICES ASSUME NEW q \in Requests PROVE WriteOrder(q)'
    BY DEF WriteOrders
  <2>1. WriteOrder(q) /\ WriteOrder(p)
    BY DEF WriteOrders
  <2>2. CASE q = p
    BY <1>1, <2>1, <2>2 DEF WriteOrder
  <2>3. CASE q # p
    BY <1>1, <2>1, <2>3 DEF WriteOrder, Replacing, InStage, Earlier, OneTable, FirstSaved
  <2> QED
    BY <2>2, <2>3
<1>2. ASSUME UNCHANGED <<table, order, written, staged>>,
             \A p \in Requests :
                phase'[p] \in {"open", "writing"} => phase'[p] = phase[p]
      PROVE  WriteOrders'
  BY <1>2, OrderStays DEF WriteOrders
<1>3. ASSUME NEW p \in Requests, NEW r \in Rows,
             Look(p, r) \/ LookPast(p, r) \/ Make(p, r)
      PROVE  WriteOrders'
  BY <1>2, <1>3 DEF Look, LookPast, Make, Take
<1>4. ASSUME NEW p \in Requests, NEW r \in Rows, ChangeIt(p, r)
      PROVE  WriteOrders'
  <2>1. \A q \in Requests \ {p} : staged'[q] = staged[q]
    BY <1>4 DEF ChangeIt, TypeOK
  <2> QED
    BY <1>1, <1>4, <2>1 DEF ChangeIt
<1>5. ASSUME NEW p \in Requests, NEW r \in Rows, Save(p, r)
      PROVE  WriteOrders'
  <2>1. \A q \in Requests \ {p} : staged'[q] = staged[q] /\ order'[q] = order[q]
    BY <1>5 DEF Save, TypeOK
  <2> QED
    BY <1>1, <1>5, <2>1 DEF Save
<1>6. ASSUME NEW p \in Requests, NEW r \in Rows,
             ReplaceRow(p, r) \/ MissRow(p, r) \/ AddRow(p, r)
      PROVE  WriteOrders'
  <2>1. CASE Write(p, r)
    BY <1>6, <2>1, WriteKeepsOrder DEF ReplaceRow, MissRow, AddRow
  <2>2. CASE Refuse(p)
    BY <1>2, <2>2 DEF Refuse, TypeOK
  <2>3. CASE MissRow(p, r) /\ table[r].kind = "healed"
    <3> SUFFICES ASSUME NEW q \in Requests PROVE WriteOrder(q)'
      BY DEF WriteOrders
    <3>1. /\ UNCHANGED <<table, order, phase, written>> /\ WriteOrder(q)
          /\ \A s \in Rows : staged'[q][s] = IF q = p /\ s = r THEN ToAdd(p, r) ELSE staged[q][s]
      BY <2>3 DEF MissRow, TypeOK, WriteOrders
    <3>2. Replacing(q)' = IF q = p THEN Replacing(p) \ {r} ELSE Replacing(q)
      <4>1. \A s \in Rows : s \in Replacing(q)' <=> s \in Replacing(q) /\ (q # p \/ s # r)
        BY <3>1 DEF Replacing, InStage, ToAdd
      <4> QED
        BY <4>1 DEF Replacing, InStage
    <3>3. \A x, y \in Rows : Earlier(q, x, y)' = Earlier(q, x, y)
      BY <3>1 DEF Earlier, OneTable, FirstSaved
    <3>4. r \notin written[p] /\ r \in Replacing(p)
      BY <2>3 DEF MissRow, IsNext
    <3> QED
      BY <3>1, <3>2, <3>3, <3>4 DEF WriteOrder, Replacing, InStage
  <2> QED
    BY <1>6, <2>1, <2>2, <2>3, RowOutcomes
<1>7. ASSUME NEW p \in Requests, Commit(p)
      PROVE  WriteOrders'
  <2>1. /\ phase'[p] = "writing"
        /\ \A q \in Requests \ {p} : phase'[q] = phase[q]
    BY <1>7 DEF Commit, TypeOK
  <2> QED
    BY <1>1, <1>7, <2>1 DEF Commit
<1>8. ASSUME NEW p \in Requests, Publish(p)
      PROVE  WriteOrders'
  BY <1>2, <1>8 DEF Publish, TypeOK
<1>9. ASSUME NEW p \in Requests, RollBack(p)
      PROVE  WriteOrders'
  <2> SUFFICES ASSUME NEW q \in Requests PROVE WriteOrder(q)'
    BY DEF WriteOrders
  <2>1. CASE q = p
    BY <1>9, <2>1 DEF RollBack, TypeOK, WriteOrder
  <2>2. CASE q # p
    <3>1. /\ table' = table /\ phase'[q] = phase[q] /\ staged'[q] = staged[q]
          /\ order'[q] = order[q] /\ written'[q] = written[q] /\ WriteOrder(q)
      BY <1>9, <2>2 DEF RollBack, TypeOK, WriteOrders
    <3> QED
      BY <3>1 DEF WriteOrder, Replacing, InStage, Earlier, OneTable, FirstSaved
  <2> QED
    BY <2>1, <2>2
<1>10. CASE UNCHANGED vars
  BY <1>2, <1>10 DEF vars
<1> QED
  BY <1>3, <1>4, <1>5, <1>6, <1>7, <1>8, <1>9, <1>10 DEF Next

LEMMA OrdersTell == WriteOrders => WaitsAreInOrder
<1> SUFFICES ASSUME WriteOrders,
                    NEW p \in Requests, NEW q \in Requests, NEW r \in Rows, NEW s \in Rows,
                    Waits(p, q, r), Waits(q, p, s), r \in Replacing(p), s \in Replacing(q)
             PROVE  OneTable(r, s)
  BY DEF WaitsAreInOrder
<1>1. /\ r \in Replacing(p) \ written[p] /\ s \in written[p] /\ phase[p] = "writing"
      /\ s \in Replacing(q) \ written[q] /\ r \in written[q] /\ phase[q] = "writing"
  BY DEF Waits, IsNext, Holds
<1>2. s \in Replacing(p) /\ r \in Replacing(q)
  BY <1>1 DEF WriteOrders, WriteOrder
<1>3. ~Earlier(p, r, s) /\ ~Earlier(q, s, r)
  BY <1>1, <1>2 DEF WriteOrders, WriteOrder
<1> QED
  BY <1>3 DEF Earlier, OneTable

\* Requests that replace rows of different tables never wait for each other.
THEOREM WaitsFollowTables == Spec => []WaitsAreInOrder
<1>1. Init => TypeOK /\ WriteOrders
  BY TypeInit, OrderInit
<1>2. TypeOK /\ WriteOrders /\ [Next]_vars => (TypeOK /\ WriteOrders)'
  BY TypeStep, OrderStep
<1> QED
  BY OrdersTell, <1>1, <1>2, PTL DEF Spec

-----------------------------------------------------------------------------
(* Nothing that was saved is lost *)

Bad(r) == \E q \in Requests : phase[q] = "done" /\ Misjudged(q, r)

Good(r) == Protected(r) /\ ~Bad(r)

\* A copy knows the version it was read at; while the row has that version,
\* the copy has the changes of the row.
Tracks(c, r) ==
    /\ c.read <= c.version
    /\ c.read <= stored[r].version
    /\ c.read = stored[r].version =>
          /\ stored[r].made \subseteq c.made
          /\ Versioned(r) /\ c.version = c.read => c.made = stored[r].made

Kept(r) == stored[r].version = 0 => stored[r].made = {}

HandTracks(p, r) ==
    r \in InHand(p) /\ Good(r) =>
        Tracks(hand[p][r], r) /\ staged[p][r].base <= hand[p][r].read

StageTracks(p, r) ==
    phase[p] \in {"open", "writing"} /\ r \in InStage(p) /\ Good(r) =>
        Tracks(staged[p][r], r) /\ staged[p][r].base <= staged[p][r].read

\* A row that is written but not committed is as its stage expects it.
Lock(p, r) ==
    /\ phase[p] = "open" => written[p] = {}
    /\ Holds(p, r) => /\ Free(p, r)
                      /\ Protected(r) => stored[r].version = staged[p][r].before

Landing(r) ==
    \A c \in landed[r] :
        /\ phase[c[1]] = "done"
        /\ Good(r) => c \in stored[r].made \/ staged[c[1]][r].careless

OfRow(r) ==
    /\ Kept(r) /\ Landing(r)
    /\ \A p \in Requests : HandTracks(p, r) /\ StageTracks(p, r) /\ Lock(p, r)

RowsOk == \A r \in Rows : OfRow(r)

LEMMA RowsInit == Init => RowsOk
<1> SUFFICES ASSUME Init, NEW r \in Rows PROVE OfRow(r)
  BY DEF RowsOk
<1>1. stored[r].made = {} /\ landed[r] = {}
  <2>1. stored[r] \in {[version |-> v, made |-> {}] : v \in {0, 1}}
    BY DEF Init
  <2>2. landed[r] = {}
    BY DEF Init
  <2> QED
    BY <2>1, <2>2
<1>2. ASSUME NEW p \in Requests
      PROVE  r \notin InHand(p) /\ r \notin InStage(p) /\ written[p] = {} /\ phase[p] = "open"
  BY DEF Init, InHand, InStage, NoCopy, NoStage
<1> QED
  BY <1>1, <1>2 DEF OfRow, Kept, Landing, HandTracks, StageTracks, Lock, Holds

\* A row is good only if it was, unless a request is done now.
LEMMA GoodWas ==
    ASSUME NEW r \in Rows, UNCHANGED table,
           \A q \in Requests : phase[q] = "done" =>
               phase'[q] = "done" /\ staged'[q][r] = staged[q][r]
    PROVE  Good(r)' => Good(r)
BY DEF Good, Bad, Misjudged, Protected, Versioned

\* A step before the commit disturbs only the copy and the stage of its row.
LEMMA RowsOfOne ==
    ASSUME TypeOK, RowsOk, NEW p \in Requests, NEW r \in Rows,
           phase[p] \in {"open", "writing"},
           NEW x, NEW y,
           hand' = hand \/ hand' = [hand EXCEPT ![p][r] = x],
           staged' = staged \/ staged' = [staged EXCEPT ![p][r] = y],
           UNCHANGED <<table, stored, phase, written, landed>>,
           r \in written[p] => staged'[p][r].before = staged[p][r].before,
           Good(r) => HandTracks(p, r)' /\ StageTracks(p, r)'
    PROVE  RowsOk'
<1> SUFFICES ASSUME NEW s \in Rows PROVE OfRow(s)'
  BY DEF RowsOk
<1>1. OfRow(s)
  BY DEF RowsOk
<1>2. ASSUME NEW q \in Requests, q # p \/ s # r
      PROVE  hand'[q][s] = hand[q][s] /\ staged'[q][s] = staged[q][s]
  BY <1>2, OthersStay
<1>3. \A q \in Requests : phase[q] = "done" => q # p
  OBVIOUS
<1>4. Good(s)' => Good(s)
  BY <1>2, <1>3, GoodWas
<1>5. Kept(s)'
  BY <1>1 DEF OfRow, Kept
<1>6. Landing(s)'
  <2> SUFFICES ASSUME NEW c \in landed[s]
               PROVE  /\ phase[c[1]] = "done"
                      /\ Good(s)' => c \in stored[s].made \/ staged'[c[1]][s].careless
    BY DEF Landing
  <2>1. /\ phase[c[1]] = "done"
        /\ Good(s) => c \in stored[s].made \/ staged[c[1]][s].careless
    BY <1>1 DEF OfRow, Landing
  <2>2. c[1] \in Requests
    BY DEF TypeOK, Change
  <2> QED
    BY <1>2, <1>3, <1>4, <2>1, <2>2
<1>7. ASSUME NEW q \in Requests
      PROVE  HandTracks(q, s)' /\ StageTracks(q, s)' /\ Lock(q, s)'
  <2>1. Lock(q, s)'
    <3>1. Lock(q, s) /\ (s \in written[q] => staged'[q][s].before = staged[q][s].before)
      BY <1>1, <1>2 DEF OfRow
    <3> QED
      BY <3>1 DEF Lock, Holds, Free, Protected
  <2>2. CASE q = p /\ s = r
    BY <1>4, <2>1, <2>2 DEF HandTracks, StageTracks
  <2>3. CASE q # p \/ s # r
    <3>1. hand'[q][s] = hand[q][s] /\ staged'[q][s] = staged[q][s]
      BY <1>2, <2>3
    <3>2. HandTracks(q, s) /\ StageTracks(q, s)
      BY <1>1 DEF OfRow
    <3> QED
      BY <1>4, <2>1, <3>1, <3>2
      DEF HandTracks, StageTracks, Tracks, InHand, InStage, Versioned
  <2> QED
    BY <2>1, <2>2, <2>3
<1> QED
  BY <1>5, <1>6, <1>7 DEF OfRow

LEMMA TakeRows ==
    ASSUME TypeOK, Forms, RowsOk, NEW p \in Requests, NEW r \in Rows,
           Look(p, r) \/ LookPast(p, r) \/ Make(p, r)
    PROVE  RowsOk'
<1>1. PICK x : /\ Take(p, r, x)
               /\ \/ x = FromStore(r)
                  \/ x = FromStage(p, r) /\ r \in InStage(p)
                  \/ /\ x = [version |-> 1, made |-> {}, read |-> 0, shared |-> FALSE]
                     /\ r \notin InHand(p)
  BY DEF Look, LookPast, Make
<1>2. hand'[p][r] = x /\ UNCHANGED <<table, stored, phase, staged, written, landed>>
  BY <1>1, NewOnes DEF Take
<1>3. /\ phase[p] = "open" /\ Form(p, r) /\ StageTracks(p, r) /\ Kept(r)
      /\ staged[p][r] \in Stage /\ stored[r] \in Row
  BY <1>1 DEF Take, Forms, RowsOk, OfRow, TypeOK
<1>4. ASSUME Good(r) PROVE Tracks(x, r) /\ staged[p][r].base <= x.read
  <2>1. r \in InStage(p) => Tracks(staged[p][r], r) /\ staged[p][r].base <= staged[p][r].read
    BY <1>3, <1>4 DEF StageTracks
  <2>2. r \notin InStage(p) => staged[p][r].base = 0
    BY <1>3 DEF Form, NoStage
  <2>3. CASE x = FromStore(r)
    BY <1>3, <2>1, <2>2, <2>3 DEF FromStore, Tracks, Stage, Row
  <2>4. CASE x = FromStage(p, r) /\ r \in InStage(p)
    BY <2>1, <2>4 DEF FromStage, Tracks
  <2>5. CASE x = [version |-> 1, made |-> {}, read |-> 0, shared |-> FALSE] /\ r \notin InHand(p)
    <3>1. r \notin InStage(p)
      BY <1>3, <2>5 DEF Form
    <3> QED
      BY <1>3, <2>2, <2>5, <3>1 DEF Tracks, Kept, Row
  <2> QED
    BY <1>1, <2>3, <2>4, <2>5
<1>5. Good(r) => HandTracks(p, r)' /\ StageTracks(p, r)'
  BY <1>2, <1>3, <1>4 DEF HandTracks, StageTracks, Tracks, Good, Bad, Protected, Misjudged, Versioned, InStage
<1> QED
  BY <1>1, <1>2, <1>3, <1>5, RowsOfOne DEF Take

LEMMA ChangeRows ==
    ASSUME TypeOK, Forms, RowsOk, NEW p \in Requests, NEW r \in Rows, ChangeIt(p, r)
    PROVE  RowsOk'
<1>1. PICK n \in 1 .. MaxChanges :
          /\ hand' = [hand EXCEPT ![p][r] = HandWith(p, r, <<p, n>>)]
          /\ IF hand[p][r].shared
             THEN staged' = [staged EXCEPT ![p][r] = StageWith(p, r, <<p, n>>)]
             ELSE UNCHANGED staged
  BY DEF ChangeIt
<1>2. hand'[p][r] = HandWith(p, r, <<p, n>>) /\ UNCHANGED <<table, stored, phase, written, landed>>
  BY <1>1, NewOnes DEF ChangeIt
<1>3. staged'[p][r] = IF hand[p][r].shared THEN StageWith(p, r, <<p, n>>) ELSE staged[p][r]
  BY <1>1, NewOnes
<1>4. /\ phase[p] = "open" /\ Form(p, r) /\ StageTracks(p, r) /\ HandTracks(p, r)
      /\ r \in InHand(p)
      /\ staged[p][r] \in Stage /\ stored[r] \in Row /\ hand[p][r] \in Copy
  BY DEF ChangeIt, Forms, RowsOk, OfRow, TypeOK
<1>5. ASSUME NEW c, Tracks(c, r), c.version \in Nat, c.read \in Nat,
             NEW d, d.version = c.version + (IF Versioned(r) THEN 1 ELSE 0),
             d.read = c.read, c.made \subseteq d.made
      PROVE  Tracks(d, r)
  BY <1>4, <1>5 DEF Tracks, Row
<1>6. ASSUME Good(r)
      PROVE  Tracks(hand'[p][r], r) /\ staged'[p][r].base <= hand'[p][r].read
  <2>1. Tracks(hand[p][r], r) /\ staged[p][r].base <= hand[p][r].read
    BY <1>4, <1>6 DEF HandTracks
  <2>2. Tracks(HandWith(p, r, <<p, n>>), r)
    BY <1>4, <1>5, <2>1 DEF HandWith, NextVersion, Copy
  <2>3. staged'[p][r].base = staged[p][r].base /\ hand'[p][r].read = hand[p][r].read
    BY <1>2, <1>3 DEF HandWith, StageWith
  <2> QED
    BY <1>2, <2>1, <2>2, <2>3
<1>7. ASSUME Good(r), r \in InStage(p) \/ hand[p][r].shared
      PROVE  Tracks(staged'[p][r], r) /\ staged'[p][r].base <= staged'[p][r].read
  <2>1. Tracks(staged[p][r], r) /\ staged[p][r].base <= staged[p][r].read
    BY <1>4, <1>7 DEF StageTracks, Form
  <2>2. CASE hand[p][r].shared
    <3>1. hand[p][r].version = staged[p][r].version
      BY <1>4, <2>2 DEF Form
    <3>2. Tracks(StageWith(p, r, <<p, n>>), r)
      BY <1>4, <1>5, <2>1, <3>1 DEF StageWith, NextVersion, Stage
    <3> QED
      BY <1>3, <2>1, <2>2, <3>2 DEF StageWith
  <2>3. CASE ~hand[p][r].shared
    BY <1>3, <2>1, <2>3
  <2> QED
    BY <2>2, <2>3
<1>8. Good(r) => HandTracks(p, r)' /\ StageTracks(p, r)'
  <2> SUFFICES ASSUME Good(r) PROVE HandTracks(p, r)' /\ StageTracks(p, r)'
    OBVIOUS
  <2>1. HandTracks(p, r)'
    BY <1>2, <1>6 DEF HandTracks, Tracks, Versioned
  <2>2. r \in InStage(p)' => r \in InStage(p) \/ hand[p][r].shared
    BY <1>3 DEF InStage
  <2>3. StageTracks(p, r)'
    BY <1>2, <1>7, <2>2 DEF StageTracks, Tracks, Versioned
  <2> QED
    BY <2>1, <2>3
<1>9. staged' = staged \/ staged' = [staged EXCEPT ![p][r] = StageWith(p, r, <<p, n>>)]
  BY <1>1
<1>10. staged'[p][r].before = staged[p][r].before
  BY <1>3 DEF StageWith
<1> QED
  BY <1>1, <1>2, <1>4, <1>8, <1>9, <1>10, RowsOfOne

LEMMA SaveRows ==
    ASSUME TypeOK, Forms, RowsOk, NEW p \in Requests, NEW r \in Rows, Save(p, r)
    PROVE  RowsOk'
<1>1. /\ hand'[p][r] = Shared(hand[p][r])
      /\ staged'[p][r] = StageOf(p, r)
      /\ UNCHANGED <<table, stored, phase, written, landed>>
  BY NewOnes DEF Save
<1>2. /\ phase[p] = "open" /\ Form(p, r) /\ HandTracks(p, r) /\ Lock(p, r)
      /\ r \in InHand(p) /\ hand[p][r] \in Copy
  BY DEF Save, Forms, RowsOk, OfRow, TypeOK
<1>3. ASSUME Good(r) PROVE HandTracks(p, r)' /\ StageTracks(p, r)'
  <2>1. Tracks(hand[p][r], r) /\ staged[p][r].base <= hand[p][r].read
    BY <1>2, <1>3 DEF HandTracks
  <2>2. StageOf(p, r).base <= hand[p][r].read
    BY <1>2, <2>1 DEF StageOf, Copy
  <2>3. Tracks(Shared(hand[p][r]), r) /\ Tracks(StageOf(p, r), r)
    BY <2>1 DEF Tracks, Shared, StageOf
  <2>4. Shared(hand[p][r]).read = hand[p][r].read /\ StageOf(p, r).read = hand[p][r].read
    BY DEF Shared, StageOf
  <2> QED
    BY <1>1, <2>2, <2>3, <2>4 DEF HandTracks, StageTracks, Tracks, Versioned
<1>4. r \notin written[p]
  BY <1>2 DEF Lock
<1> QED
  BY <1>1, <1>2, <1>3, <1>4, RowsOfOne DEF Save

LEMMA MissRows ==
    ASSUME TypeOK, Forms, RowsOk, NEW p \in Requests, NEW r \in Rows, MissRow(p, r),
           table[r].kind = "healed"
    PROVE  RowsOk'
<1>1. staged'[p][r] = ToAdd(p, r) /\ UNCHANGED <<table, stored, phase, hand, written, landed>>
  BY NewOnes DEF MissRow
<1>2. /\ phase[p] = "writing" /\ StageTracks(p, r) /\ HandTracks(p, r)
      /\ r \notin written[p] /\ r \in InStage(p)
  BY DEF MissRow, IsNext, RowsOk, OfRow
<1>3. ASSUME Good(r) PROVE HandTracks(p, r)' /\ StageTracks(p, r)'
  <2>1. Tracks(staged[p][r], r) /\ staged[p][r].base <= staged[p][r].read
    BY <1>2, <1>3 DEF StageTracks
  <2>2. Tracks(ToAdd(p, r), r) /\ ToAdd(p, r).base <= ToAdd(p, r).read
    BY <2>1 DEF Tracks, ToAdd
  <2>3. r \in InHand(p)' => Tracks(hand[p][r], r) /\ ToAdd(p, r).base <= hand[p][r].read
    BY <1>1, <1>2, <1>3 DEF HandTracks, ToAdd, InHand
  <2> QED
    BY <1>1, <2>2, <2>3 DEF HandTracks, StageTracks, Tracks, Versioned
<1> QED
  BY <1>1, <1>2, <1>3, RowsOfOne DEF MissRow

\* A request that ends without a commit, or that begins one.
LEMMA RowsOfPhases ==
    ASSUME TypeOK, RowsOk, UNCHANGED <<table, stored, landed>>,
           \A q \in Requests :
              /\ phase'[q] = "done" <=> phase[q] = "done"
              /\ phase'[q] = "open" => phase[q] = "open"
              /\ written'[q] = written[q] \/ phase'[q] \notin {"open", "writing"}
              /\ phase'[q] = "writing" => phase[q] \in {"open", "writing"}
              /\ hand'[q] = hand[q] \/ \A r \in Rows : hand'[q][r] = NoCopy
              /\ \/ staged'[q] = staged[q]
                 \/ phase'[q] = "gone" /\ \A r \in Rows : hand'[q][r] = NoCopy
    PROVE  RowsOk'
<1> SUFFICES ASSUME NEW r \in Rows PROVE OfRow(r)'
  BY DEF RowsOk
<1>1. OfRow(r)
  BY DEF RowsOk
<1>2. \A q \in Requests : phase[q] = "done" => staged'[q] = staged[q] /\ phase'[q] = "done"
  OBVIOUS
<1>3. Good(r)' => Good(r)
  BY <1>2, GoodWas
<1>4. Kept(r)'
  BY <1>1 DEF OfRow, Kept
<1>5. Landing(r)'
  <2> SUFFICES ASSUME NEW c \in landed[r]
               PROVE  /\ phase'[c[1]] = "done"
                      /\ Good(r)' => c \in stored[r].made \/ staged'[c[1]][r].careless
    BY DEF Landing
  <2>1. /\ phase[c[1]] = "done"
        /\ Good(r) => c \in stored[r].made \/ staged[c[1]][r].careless
    BY <1>1 DEF OfRow, Landing
  <2>2. c[1] \in Requests
    BY DEF TypeOK, Change
  <2> QED
    BY <1>2, <1>3, <2>1, <2>2
<1>6. ASSUME NEW q \in Requests
      PROVE  HandTracks(q, r)' /\ StageTracks(q, r)' /\ Lock(q, r)'
  <2>1. HandTracks(q, r) /\ StageTracks(q, r) /\ Lock(q, r)
    BY <1>1 DEF OfRow
  <2>2. Lock(q, r)'
    <3>1. \A p \in Requests : Holds(p, r)' => Holds(p, r) /\ staged'[p] = staged[p]
      <4> SUFFICES ASSUME NEW p \in Requests, Holds(p, r)'
                   PROVE  Holds(p, r) /\ staged'[p] = staged[p]
        OBVIOUS
      <4>1. phase'[p] = "writing" /\ written'[p] = written[p] /\ r \in written[p]
        BY DEF Holds
      <4>2. phase[p] # "open"
        BY <1>1, <4>1 DEF OfRow, Lock
      <4> QED
        BY <4>1, <4>2 DEF Holds
    <3>2. phase'[q] = "open" => written'[q] = {}
      BY <2>1 DEF Lock
    <3> QED
      BY <2>1, <3>1, <3>2 DEF Lock, Free, Protected
  <2>3. StageTracks(q, r)'
    <3> SUFFICES ASSUME phase'[q] \in {"open", "writing"}, StageTracks(q, r)
                 PROVE  StageTracks(q, r)'
      BY <2>1 DEF StageTracks
    <3>1. staged'[q] = staged[q] /\ phase[q] \in {"open", "writing"}
      OBVIOUS
    <3> QED
      BY <1>3, <3>1 DEF StageTracks, Tracks, InStage, Versioned
  <2>4. HandTracks(q, r)'
    <3>1. CASE hand'[q][r] = NoCopy
      BY <3>1 DEF HandTracks, InHand, NoCopy
    <3>2. CASE hand'[q] = hand[q] /\ staged'[q] = staged[q]
      BY <1>3, <2>1, <3>2 DEF HandTracks, Tracks, InHand, Versioned
    <3> QED
      BY <3>1, <3>2
  <2> QED
    BY <2>2, <2>3, <2>4
<1> QED
  BY <1>4, <1>5, <1>6 DEF OfRow

LEMMA WriteRows ==
    ASSUME TypeOK, Forms, RowsOk, NEW p \in Requests, NEW r \in Rows, Write(p, r),
           ReplaceRow(p, r) \/ AddRow(p, r)
    PROVE  RowsOk'
<1>1. /\ UNCHANGED <<table, stored, phase, hand, staged, landed>>
      /\ \A q \in Requests : written'[q] = IF q = p THEN written[p] \cup {r} ELSE written[q]
  BY DEF Write, TypeOK
<1>2. /\ phase[p] = "writing" /\ Free(p, r) /\ r \in InStage(p)
      /\ Form(p, r) /\ staged[p][r] \in Stage /\ table[r].kind \in Kinds
  BY DEF ReplaceRow, AddRow, IsNext, Forms, TypeOK, Shape, Kinds
<1>3. Protected(r) => stored[r].version = staged[p][r].before
  <2>1. CASE ReplaceRow(p, r)
    <3>1. Fits(p, r)
      <4>1. ~Refuse(p)
        BY <1>2, <1>1 DEF Refuse, TypeOK
      <4> QED
        BY <2>1, <4>1 DEF ReplaceRow
    <3> QED
      BY <3>1 DEF Fits, Protected
  <2>2. CASE AddRow(p, r)
    <3>1. stored[r].version = 0 \/ table[r].kind = "merged"
      <4>1. ~Refuse(p)
        BY <1>2, <1>1 DEF Refuse, TypeOK
      <4> QED
        BY <2>2, <4>1 DEF AddRow
    <3>2. Protected(r) => staged[p][r].before = 0
      BY <1>2, <2>2 DEF AddRow, Replacing, Protected, Kinds, Form, Stage
    <3> QED
      BY <3>1, <3>2 DEF Protected
  <2> QED
    BY <2>1, <2>2
<1> SUFFICES ASSUME NEW s \in Rows PROVE OfRow(s)'
  BY DEF RowsOk
<1>4. OfRow(s)
  BY DEF RowsOk
<1>5. Good(s)' = Good(s)
  BY <1>1 DEF Good, Bad, Misjudged, Protected, Versioned
<1>6. Kept(s)' /\ Landing(s)'
  BY <1>1, <1>4, <1>5 DEF OfRow, Kept, Landing
<1>7. ASSUME NEW q \in Requests
      PROVE  HandTracks(q, s)' /\ StageTracks(q, s)' /\ Lock(q, s)'
  <2>1. HandTracks(q, s) /\ StageTracks(q, s) /\ Lock(q, s)
    BY <1>4 DEF OfRow
  <2>2. HandTracks(q, s)' /\ StageTracks(q, s)'
    BY <1>1, <1>5, <2>1 DEF HandTracks, StageTracks, Tracks, InHand, InStage, Versioned
  <2>3. phase[q] = "open" => written'[q] = {}
    BY <1>1, <1>2, <2>1 DEF Lock
  <2>4. ASSUME NEW x \in Requests PROVE Holds(x, s)' <=> Holds(x, s) \/ (x = p /\ s = r)
    BY <1>1, <1>2 DEF Holds
  <2>5. ASSUME Holds(q, s)' PROVE Free(q, s)' /\ (Protected(s)' => stored'[s].version = staged'[q][s].before)
    <3>1. CASE q = p /\ s = r
      BY <1>1, <1>2, <1>3, <2>4, <3>1 DEF Free, Protected
    <3>2. CASE q # p \/ s # r
      <4>1. Holds(q, s)
        BY <2>4, <2>5, <3>2
      <4>2. Free(q, s) /\ (Protected(s) => stored[s].version = staged[q][s].before)
        BY <2>1, <4>1 DEF Lock
      <4>3. s = r => q = p
        BY <1>2, <4>1 DEF Free
      <4> QED
        BY <1>1, <2>4, <3>2, <4>2, <4>3 DEF Free, Protected
    <3> QED
      BY <3>1, <3>2
  <2>6. Lock(q, s)'
    BY <1>1, <2>3, <2>5 DEF Lock
  <2> QED
    BY <2>2, <2>6
<1> QED
  BY <1>6, <1>7 DEF OfRow

\* What a commit publishes over a good row it has read, or reads no less.
LEMMA PublishedRow ==
    ASSUME TypeOK, Forms, RowsOk, NEW p \in Requests, Publish(p), NEW r \in Rows,
           Good(r)', r \in InStage(p)
    PROVE  /\ Good(r) /\ r \in written[p]
           /\ stored[r].version <= staged[p][r].version
           /\ stored[r].made \subseteq staged[p][r].made
           /\ stored[r].version = staged[p][r].version => staged[p][r].made = stored[r].made
<1>1. /\ UNCHANGED <<table, staged>> /\ phase[p] = "writing" /\ r \in written[p]
      /\ \A q \in Requests : phase'[q] = IF q = p THEN "done" ELSE phase[q]
  BY DEF Publish, TypeOK
<1>2. Good(r)
  BY <1>1, GoodWas
<1>3. ~Misjudged(p, r)
  BY <1>1 DEF Good, Bad, Misjudged, Versioned
<1>4. Form(p, r) /\ StageTracks(p, r) /\ Lock(p, r) /\ staged[p][r] \in Stage /\ stored[r] \in Row
      /\ table[r].kind \in Kinds
  BY DEF Forms, RowsOk, OfRow, TypeOK, Shape, Kinds
<1>5. staged[p][r].before = staged[p][r].base
  BY <1>3, <1>4 DEF Misjudged, Form, Stage
<1>6. stored[r].version = staged[p][r].before
  BY <1>1, <1>2, <1>4 DEF Lock, Holds, Good
<1>7. Tracks(staged[p][r], r) /\ staged[p][r].base <= staged[p][r].read
  BY <1>1, <1>2, <1>4 DEF StageTracks
<1>8. staged[p][r].read = stored[r].version
  BY <1>4, <1>5, <1>6, <1>7 DEF Tracks, Stage, Row
<1>9. stored[r].version <= staged[p][r].version /\ stored[r].made \subseteq staged[p][r].made
  BY <1>7, <1>8 DEF Tracks
<1>10. ASSUME stored[r].version = staged[p][r].version
       PROVE  staged[p][r].made = stored[r].made
  <2>1. CASE Versioned(r)
    BY <1>7, <1>8, <1>10, <2>1 DEF Tracks
  <2>2. CASE ~Versioned(r)
    <3>1. table[r].kind = "added"
      BY <1>2, <1>4, <2>2 DEF Good, Protected, Versioned, Kinds
    <3>2. stored[r].version = 0
      BY <1>4, <1>6, <3>1 DEF Form
    <3>3. staged[p][r].version > 0 /\ staged[p][r].version \in Nat
      BY <1>4 DEF InStage, Stage
    <3> QED
      BY <1>10, <3>2, <3>3
  <2> QED
    BY <2>1, <2>2
<1> QED
  BY <1>1, <1>2, <1>9, <1>10

LEMMA PublishRows ==
    ASSUME TypeOK, Forms, RowsOk, NEW p \in Requests, Publish(p)
    PROVE  RowsOk'
<1>1. /\ UNCHANGED <<table, hand, staged, written>> /\ phase[p] = "writing"
      /\ InStage(p) \subseteq written[p]
      /\ \A q \in Requests : phase'[q] = IF q = p THEN "done" ELSE phase[q]
      /\ \A r \in Rows : /\ landed'[r] = landed[r] \cup staged[p][r].saved
                         /\ r \in InStage(p) => /\ stored'[r].version = staged[p][r].version
                                                /\ stored'[r].made = staged[p][r].made
                         /\ r \notin InStage(p) => stored'[r] = stored[r]
  BY DEF Publish, TypeOK
<1> SUFFICES ASSUME NEW r \in Rows PROVE OfRow(r)'
  BY DEF RowsOk
<1>2. OfRow(r) /\ stored[r] \in Row /\ Form(p, r) /\ staged[p][r] \in Stage
  BY DEF RowsOk, TypeOK, Forms
<1>3. Good(r)' => Good(r)
  BY <1>1, GoodWas
<1>4. ASSUME Good(r)'
      PROVE  /\ stored[r].version <= stored'[r].version
             /\ stored[r].made \subseteq stored'[r].made
             /\ stored[r].version = stored'[r].version => stored'[r].made = stored[r].made
  <2>1. CASE r \in InStage(p)
    BY <1>1, <1>4, <2>1, PublishedRow
  <2>2. CASE r \notin InStage(p)
    BY <1>1, <1>2, <2>2 DEF Row
  <2> QED
    BY <2>1, <2>2
<1>5. Kept(r)'
  BY <1>1, <1>2 DEF OfRow, Kept, InStage
<1>6. Landing(r)'
  <2> SUFFICES ASSUME NEW c \in landed'[r]
               PROVE  /\ phase'[c[1]] = "done"
                      /\ Good(r)' => c \in stored'[r].made \/ staged'[c[1]][r].careless
    BY DEF Landing
  <2>1. CASE c \in landed[r]
    <3>1. /\ phase[c[1]] = "done"
          /\ Good(r) => c \in stored[r].made \/ staged[c[1]][r].careless
      BY <1>2, <2>1 DEF OfRow, Landing
    <3>2. c[1] \in Requests
      BY <2>1 DEF TypeOK, Change
    <3> QED
      BY <1>1, <1>3, <1>4, <3>1, <3>2
  <2>2. CASE c \in staged[p][r].saved
    <3>1. c[1] = p /\ r \in InStage(p)
      BY <1>2, <2>2 DEF Form, NoStage
    <3>2. staged[p][r].careless \/ c \in staged[p][r].made
      BY <1>2, <2>2 DEF Form
    <3> QED
      BY <1>1, <3>1, <3>2
  <2> QED
    BY <1>1, <2>1, <2>2
<1>7. ASSUME NEW c, c.read \in Nat, c.version \in Nat, Good(r)', Tracks(c, r)
      PROVE  Tracks(c, r)'
  <2>1. stored'[r].version \in Nat
    BY <1>1, <1>2 DEF Row, Stage
  <2>2. Versioned(r)' = Versioned(r)
    BY <1>1 DEF Versioned
  <2>3. c.read = stored'[r].version => c.read = stored[r].version
    BY <1>2, <1>4, <1>7, <2>1 DEF Tracks, Row
  <2>4. c.read <= c.version /\ c.read <= stored'[r].version
    BY <1>2, <1>4, <1>7, <2>1 DEF Tracks, Row
  <2>5. ASSUME c.read = stored'[r].version
        PROVE  stored'[r].made \subseteq c.made
               /\ (Versioned(r) /\ c.version = c.read => c.made = stored'[r].made)
    BY <1>4, <1>7, <2>3, <2>5 DEF Tracks
  <2> QED
    BY <2>2, <2>4, <2>5 DEF Tracks
<1>8. ASSUME NEW q \in Requests
      PROVE  HandTracks(q, r)' /\ StageTracks(q, r)' /\ Lock(q, r)'
  <2>1. /\ HandTracks(q, r) /\ StageTracks(q, r) /\ Lock(q, r)
        /\ hand[q][r] \in Copy /\ staged[q][r] \in Stage
    BY <1>2 DEF OfRow, TypeOK
  <2>2. HandTracks(q, r)'
    <3> SUFFICES ASSUME r \in InHand(q)', Good(r)'
                 PROVE  Tracks(hand[q][r], r)' /\ staged[q][r].base <= hand[q][r].read
      BY <1>1 DEF HandTracks
    <3>1. Tracks(hand[q][r], r) /\ staged[q][r].base <= hand[q][r].read
      BY <1>1, <1>3, <2>1 DEF HandTracks, InHand
    <3>2. Tracks(hand[q][r], r)'
      <4>1. hand'[q][r] = hand[q][r]
        BY <1>1
      <4>2. hand[q][r].read \in Nat /\ hand[q][r].version \in Nat
        BY <2>1 DEF Copy
      <4>3. ASSUME NEW c, c = hand[q][r] PROVE Tracks(c, r)'
        BY <1>7, <3>1, <4>2, <4>3
      <4> QED
        BY <4>1, <4>3 DEF Tracks
    <3> QED
      BY <3>1, <3>2
  <2>3. StageTracks(q, r)'
    <3> SUFFICES ASSUME r \in InStage(q)', Good(r)', phase'[q] \in {"open", "writing"}
                 PROVE  Tracks(staged[q][r], r)' /\ staged[q][r].base <= staged[q][r].read
      BY <1>1 DEF StageTracks
    <3>1. Tracks(staged[q][r], r) /\ staged[q][r].base <= staged[q][r].read
      BY <1>1, <1>3, <2>1 DEF StageTracks, InStage
    <3>2. Tracks(staged[q][r], r)'
      <4>1. staged'[q][r] = staged[q][r]
        BY <1>1
      <4>2. staged[q][r].read \in Nat /\ staged[q][r].version \in Nat
        BY <2>1 DEF Stage
      <4>3. ASSUME NEW c, c = staged[q][r] PROVE Tracks(c, r)'
        BY <1>7, <3>1, <4>2, <4>3
      <4> QED
        BY <4>1, <4>3 DEF Tracks
    <3> QED
      BY <3>1, <3>2
  <2>4. Lock(q, r)'
    <3>1. phase'[q] = "open" => written'[q] = {}
      BY <1>1, <2>1 DEF Lock
    <3>2. \A x \in Requests : Holds(x, r)' => Holds(x, r) /\ x # p
      BY <1>1 DEF Holds
    <3>3. ASSUME Holds(q, r)'
          PROVE  Free(q, r)' /\ (Protected(r)' => stored'[r].version = staged'[q][r].before)
      <4>1. Holds(q, r) /\ q # p
        BY <3>2, <3>3
      <4>2. Free(q, r) /\ (Protected(r) => stored[r].version = staged[q][r].before)
        BY <2>1, <4>1 DEF Lock
      <4>3. r \notin InStage(p)
        BY <1>1, <4>1, <4>2 DEF Free, Holds
      <4>4. stored'[r] = stored[r]
        BY <1>1, <4>3
      <4> QED
        BY <1>1, <3>2, <4>2, <4>4 DEF Free, Protected
    <3> QED
      BY <3>1, <3>3 DEF Lock
  <2> QED
    BY <2>2, <2>3, <2>4
<1> QED
  BY <1>5, <1>6, <1>8 DEF OfRow

LEMMA RowsStep == TypeOK /\ Forms /\ RowsOk /\ [Next]_vars => RowsOk'
<1> SUFFICES ASSUME TypeOK, Forms, RowsOk, [Next]_vars PROVE RowsOk'
  OBVIOUS
<1>1. ASSUME NEW p \in Requests, NEW r \in Rows,
             ReplaceRow(p, r) \/ MissRow(p, r) \/ AddRow(p, r)
      PROVE  RowsOk'
  <2>1. CASE Write(p, r) /\ (ReplaceRow(p, r) \/ AddRow(p, r))
    BY <2>1, WriteRows
  <2>2. CASE Refuse(p)
    <3>1. \A q \in Requests : phase'[q] = IF q = p THEN "stale" ELSE phase[q]
      BY <2>2 DEF Refuse, TypeOK
    <3>2. phase[p] = "writing"
      BY <1>1 DEF ReplaceRow, MissRow, AddRow, IsNext
    <3> QED
      BY <2>2, <3>1, <3>2, RowsOfPhases DEF Refuse
  <2>3. CASE MissRow(p, r) /\ table[r].kind = "healed"
    BY <2>3, MissRows
  <2> QED
    BY <1>1, <2>1, <2>2, <2>3, RowOutcomes
<1>2. ASSUME NEW p \in Requests, Commit(p)
      PROVE  RowsOk'
  <2>1. \A q \in Requests : /\ phase'[q] = IF q = p THEN "writing" ELSE phase[q]
                            /\ q # p => hand'[q] = hand[q]
                            /\ q = p => \A r \in Rows : hand'[q][r] = NoCopy
    BY <1>2 DEF Commit, TypeOK
  <2>2. phase[p] = "open" /\ UNCHANGED <<table, stored, staged, written, landed>>
    BY <1>2 DEF Commit
  <2> QED
    BY <2>1, <2>2, RowsOfPhases
<1>3. ASSUME NEW p \in Requests, RollBack(p)
      PROVE  RowsOk'
  <2>1. \A q \in Requests : /\ phase'[q] = IF q = p THEN "gone" ELSE phase[q]
                            /\ q # p => /\ hand'[q] = hand[q]
                                        /\ staged'[q] = staged[q]
                                        /\ written'[q] = written[q]
                            /\ q = p => \A r \in Rows : hand'[q][r] = NoCopy
    BY <1>3 DEF RollBack, TypeOK
  <2>2. phase[p] \in {"open", "writing"} /\ UNCHANGED <<table, stored, landed>>
    BY <1>3 DEF RollBack
  <2> QED
    BY <2>1, <2>2, RowsOfPhases
<1>4. CASE UNCHANGED vars
  BY <1>4, RowsOfPhases DEF vars
<1> QED
  BY <1>1, <1>2, <1>3, <1>4, TakeRows, ChangeRows, SaveRows, PublishRows DEF Next

LEMMA RowsTell == TypeOK /\ RowsOk => SavedIsKept
<1> SUFFICES ASSUME RowsOk, NEW r \in Rows, Protected(r), NEW c \in landed[r] \ stored[r].made
             PROVE  staged[c[1]][r].careless \/ Bad(r)
  BY DEF SavedIsKept, Bad
<1> QED
  BY DEF RowsOk, OfRow, Landing, Good

\* A change whose request was told it is saved stays in its row, unless a
\* service misjudged the row or saved one copy of it over another.
THEOREM SavedStays == Spec => []SavedIsKept
BY RowsTell, TypeInit, TypeStep, FormInit, FormStep, RowsInit, RowsStep, PTL DEF Spec
=============================================================================
