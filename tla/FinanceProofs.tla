---------------------------- MODULE FinanceProofs ----------------------------
(***************************************************************************)
(* Proofs about the finance service.  First what a sum over a finite set   *)
(* does when elements come, go or change: the library defines it by a      *)
(* table of partial sums, and what holds of every table is shown of the    *)
(* smallest subset where it could fail.  Then the cash of drivers and the  *)
(* money of a merchant, each by an inductive invariant, and the service.   *)
(***************************************************************************)
EXTENDS Finance, FiniteSetTheorems, WellFoundedInduction, TLAPS

-----------------------------------------------------------------------------
(* Sums *)

\* Induction over the subsets of a finite set: among those that are bad, one
\* has no bad proper subset.
LEMMA SmallestBad ==
    ASSUME NEW S, IsFiniteSet(S), NEW T, T \subseteq SUBSET S, T # {}
    PROVE  \E U \in T : \A V \in T : V \subseteq U => V = U
<1>1. T \subseteq FiniteSubsetsOf(S)
  BY FS_FiniteSubsetsOfFinite
<1>2. PICK U \in T : \A V \in T : ~ (<<V, U>> \in StrictSubsetOrdering(S))
  BY <1>1, FS_StrictSubsetOrderingWellFounded, WFMin
<1>3. ASSUME NEW V \in T, V \subseteq U PROVE V = U
  BY <1>2, <1>3 DEF StrictSubsetOrdering
<1>. QED  BY <1>3

AnyOf(s) == CHOOSE x \in s : TRUE

\* The table of all partial sums by which the library defines a sum.
IsSum(g, f, S) ==
    g = [s \in SUBSET S |-> IF s = {} THEN 0 ELSE f[AnyOf(s)] + g[s \ {AnyOf(s)}]]

LEMMA SumIs ==
    ASSUME NEW f, NEW S
    PROVE  SumFunctionOnSet(f, S) = (CHOOSE g : IsSum(g, f, S))[S]
  BY DEF SumFunctionOnSet, FoldFunctionOnSet, MapThenFoldSet, IsSum, AnyOf

LEMMA AnyOfIn == ASSUME NEW s, s # {} PROVE AnyOf(s) \in s
  BY DEF AnyOf

LEMMA SumStep ==
    ASSUME NEW g, NEW f, NEW S, IsSum(g, f, S)
    PROVE  /\ g[{}] = 0
           /\ \A s \in SUBSET S : s # {} =>
                 /\ AnyOf(s) \in s /\ s \ {AnyOf(s)} \in SUBSET S
                 /\ g[s] = f[AnyOf(s)] + g[s \ {AnyOf(s)}]
<1>1. \A s \in SUBSET S :
         g[s] = IF s = {} THEN 0 ELSE f[AnyOf(s)] + g[s \ {AnyOf(s)}]
  BY DEF IsSum
<1>. QED  BY <1>1, AnyOfIn

LEMMA SumUnique ==
    ASSUME NEW f, NEW S, IsFiniteSet(S), NEW R \in SUBSET S,
           NEW g, IsSum(g, f, S), NEW h, IsSum(h, f, R)
    PROVE  \A s \in SUBSET R : g[s] = h[s]
<1>. DEFINE T == {s \in SUBSET R : g[s] # h[s]}
<1>. SUFFICES ASSUME T # {} PROVE FALSE
  OBVIOUS
<1>1. IsFiniteSet(R)
  BY FS_Subset
<1>2. PICK U \in T : \A V \in T : V \subseteq U => V = U
  <2>1. T \subseteq SUBSET R
    OBVIOUS
  <2>. HIDE DEF T
  <2>. QED  BY <1>1, <2>1, SmallestBad
<1>3. U # {}
  BY <1>2, SumStep
<1>. DEFINE x == AnyOf(U)
<1>4. x \in U /\ U \ {x} \in SUBSET R /\ U \in SUBSET R /\ U \in SUBSET S
  BY <1>2, <1>3, AnyOfIn
<1>5. U \ {x} \notin T
  BY <1>2, <1>4
<1>6. g[U \ {x}] = h[U \ {x}]
  BY <1>4, <1>5
<1>7. g[U] = f[x] + g[U \ {x}]
  BY <1>3, <1>4, SumStep
<1>8. h[U] = f[x] + h[U \ {x}]
  <2>1. \A s \in SUBSET R : s # {} => h[s] = f[AnyOf(s)] + h[s \ {AnyOf(s)}]
    BY SumStep
  <2>. QED  BY <2>1, <1>3, <1>4
<1>9. g[U] = h[U]
  BY <1>6, <1>7, <1>8
<1>. QED  BY <1>2, <1>9

LEMMA SumExists ==
    ASSUME NEW f, NEW S, IsFiniteSet(S)
    PROVE  \E g : IsSum(g, f, S)
<1>. DEFINE T == {s \in SUBSET S : ~ \E g : IsSum(g, f, s)}
<1>. SUFFICES ASSUME T # {} PROVE FALSE
  OBVIOUS
<1>1. PICK U \in T : \A V \in T : V \subseteq U => V = U
  <2>1. T \subseteq SUBSET S
    OBVIOUS
  <2>. HIDE DEF T
  <2>. QED  BY <2>1, SmallestBad
<1>. DEFINE G(V) == CHOOSE g : IsSum(g, f, V)
            x == AnyOf(U)
            h == [V \in SUBSET U |->
                     IF V = {} THEN 0 ELSE IF V = U THEN f[x] + G(U \ {x})[U \ {x}] ELSE G(V)[V]]
<1>2. \A V \in SUBSET U : V # U => IsSum(G(V), f, V)
  <2>1. \A V \in SUBSET U : V # U => V \notin T /\ V \in SUBSET S
    BY <1>1
  <2>2. \A V \in SUBSET U : V # U => \E g : IsSum(g, f, V)
    BY <2>1
  <2>. QED  BY <2>2
<1>3. ASSUME NEW V \in SUBSET U, V # {}
      PROVE  h[V] = f[AnyOf(V)] + h[V \ {AnyOf(V)}]
  <2>. DEFINE y == AnyOf(V)
  <2>1. y \in V /\ V \ {y} \in SUBSET U /\ V \ {y} # U /\ V \ {y} # V
    BY <1>3, AnyOfIn
  <2>2. IsSum(G(V \ {y}), f, V \ {y})
    BY <1>2, <2>1
  <2>3. h[V \ {y}] = G(V \ {y})[V \ {y}]
    BY <2>1, <2>2, SumStep
  <2>4. CASE V = U
    BY <2>3, <2>4, <1>3
  <2>5. CASE V # U
    <3>1. IsSum(G(V), f, V) /\ h[V] = G(V)[V]
      BY <1>2, <1>3, <2>5
    <3>2. G(V)[V] = f[y] + G(V)[V \ {y}]
      BY <1>3, <3>1, SumStep
    <3>3. IsFiniteSet(V)
      BY <1>1, FS_Subset
    <3>4. G(V)[V \ {y}] = G(V \ {y})[V \ {y}]
      <4>1. V \ {y} \in SUBSET V /\ V \ {y} \in SUBSET (V \ {y})
        OBVIOUS
      <4>. HIDE DEF G, y
      <4>. QED  BY <4>1, <2>2, <3>1, <3>3, SumUnique
    <3>. QED  BY <3>1, <3>2, <3>4, <2>3
  <2>. QED  BY <2>4, <2>5
<1>4. IsSum(h, f, U)
  <2>1. h = [V \in SUBSET U |-> h[V]]
    OBVIOUS
  <2>2. h[{}] = 0
    OBVIOUS
  <2>3. \A V \in SUBSET U :
           h[V] = IF V = {} THEN 0 ELSE f[AnyOf(V)] + h[V \ {AnyOf(V)}]
    <3>. HIDE DEF h
    <3>. QED  BY <1>3, <2>2
  <2>. HIDE DEF h
  <2>. QED  BY <2>1, <2>3 DEF IsSum
<1>. QED  BY <1>1, <1>4

\* The sum over any subset is in the table.
LEMMA SumInTable ==
    ASSUME NEW f, NEW S, IsFiniteSet(S)
    PROVE  \E g : IsSum(g, f, S) /\ \A R \in SUBSET S : SumFunctionOnSet(f, R) = g[R]
<1>1. PICK g : IsSum(g, f, S)
  BY SumExists
<1>2. ASSUME NEW R \in SUBSET S PROVE SumFunctionOnSet(f, R) = g[R]
  <2>1. \E h : IsSum(h, f, R)
    BY FS_Subset, SumExists
  <2>. DEFINE h == CHOOSE h : IsSum(h, f, R)
  <2>2. IsSum(h, f, R)
    BY <2>1
  <2>3. SumFunctionOnSet(f, R) = h[R]
    BY SumIs
  <2>. HIDE DEF h
  <2>. QED  BY <1>1, <2>2, <2>3, SumUnique
<1>. QED  BY <1>1, <1>2

LEMMA SumOfNothing == ASSUME NEW f PROVE SumFunctionOnSet(f, {}) = 0
<1>1. PICK g : IsSum(g, f, {}) /\ \A R \in SUBSET {} : SumFunctionOnSet(f, R) = g[R]
  BY FS_EmptySet, SumInTable
<1>. QED  BY <1>1, SumStep

LEMMA SumTakeOne ==
    ASSUME NEW f, NEW S, IsFiniteSet(S), S # {}
    PROVE  \E x \in S : SumFunctionOnSet(f, S) = f[x] + SumFunctionOnSet(f, S \ {x})
<1>1. PICK g : IsSum(g, f, S) /\ \A R \in SUBSET S : SumFunctionOnSet(f, R) = g[R]
  BY SumInTable
<1>2. AnyOf(S) \in S /\ g[S] = f[AnyOf(S)] + g[S \ {AnyOf(S)}]
  BY <1>1, SumStep
<1>. QED  BY <1>1, <1>2

LEMMA SumIsInt ==
    ASSUME NEW S, IsFiniteSet(S), NEW f, \A x \in S : f[x] \in Int
    PROVE  SumFunctionOnSet(f, S) \in Int
<1>. DEFINE T == {s \in SUBSET S : SumFunctionOnSet(f, s) \notin Int}
<1>. SUFFICES ASSUME T # {} PROVE FALSE
  OBVIOUS
<1>1. PICK U \in T : \A V \in T : V \subseteq U => V = U
  <2>1. T \subseteq SUBSET S
    OBVIOUS
  <2>. HIDE DEF T
  <2>. QED  BY <2>1, SmallestBad
<1>2. IsFiniteSet(U) /\ U # {}
  <2>1. SumFunctionOnSet(f, {}) \in Int
    BY SumOfNothing
  <2>2. U # {}
    BY <2>1
  <2>. QED  BY <2>2, FS_Subset
<1>3. PICK x \in U : SumFunctionOnSet(f, U) = f[x] + SumFunctionOnSet(f, U \ {x})
  BY <1>2, SumTakeOne
<1>4. U \ {x} \notin T /\ U \ {x} \in SUBSET S
  BY <1>1
<1>5. SumFunctionOnSet(f, U \ {x}) \in Int /\ f[x] \in Int
  BY <1>4
<1>. QED  BY <1>3, <1>5

\* Any element may be taken out.
LEMMA SumTakeOut ==
    ASSUME NEW S, IsFiniteSet(S), NEW f, \A x \in S : f[x] \in Int
    PROVE  \A y \in S : SumFunctionOnSet(f, S) = f[y] + SumFunctionOnSet(f, S \ {y})
<1>. DEFINE T == {s \in SUBSET S : \E y \in s :
                     SumFunctionOnSet(f, s) # f[y] + SumFunctionOnSet(f, s \ {y})}
<1>. SUFFICES ASSUME T # {} PROVE FALSE
  OBVIOUS
<1>1. PICK U \in T : \A V \in T : V \subseteq U => V = U
  <2>1. T \subseteq SUBSET S
    OBVIOUS
  <2>. HIDE DEF T
  <2>. QED  BY <2>1, SmallestBad
<1>2. U \subseteq S /\ IsFiniteSet(U)
  BY FS_Subset
<1>3. PICK y \in U : SumFunctionOnSet(f, U) # f[y] + SumFunctionOnSet(f, U \ {y})
  OBVIOUS
<1>4. PICK x \in U : SumFunctionOnSet(f, U) = f[x] + SumFunctionOnSet(f, U \ {x})
  BY <1>2, <1>3, SumTakeOne
<1>5. x # y
  BY <1>3, <1>4
<1>. DEFINE W == (U \ {x}) \ {y}
<1>6. SumFunctionOnSet(f, U \ {x}) = f[y] + SumFunctionOnSet(f, W)
  <2>1. U \ {x} \in SUBSET S /\ U \ {x} \notin T /\ y \in U \ {x}
    BY <1>1, <1>2, <1>4, <1>5
  <2>. QED  BY <2>1
<1>7. SumFunctionOnSet(f, U \ {y}) = f[x] + SumFunctionOnSet(f, W)
  <2>1. U \ {y} \in SUBSET S /\ U \ {y} \notin T /\ x \in U \ {y}
    BY <1>1, <1>2, <1>3, <1>5
  <2>2. (U \ {y}) \ {x} = W
    OBVIOUS
  <2>. QED  BY <2>1, <2>2
<1>8. SumFunctionOnSet(f, W) \in Int /\ f[x] \in Int /\ f[y] \in Int
  <2>1. IsFiniteSet(W) /\ \A z \in W : f[z] \in Int
    BY <1>2, FS_Subset
  <2>. HIDE DEF W
  <2>. QED  BY <1>2, <2>1, SumIsInt
<1>9. f[x] + (f[y] + SumFunctionOnSet(f, W)) = f[y] + (f[x] + SumFunctionOnSet(f, W))
  BY <1>8
<1>. QED  BY <1>3, <1>4, <1>6, <1>7, <1>9

\* More of what is not negative is not less.
LEMMA SumGrows ==
    ASSUME NEW S, IsFiniteSet(S), NEW f, \A x \in S : f[x] \in Nat, NEW R \in SUBSET S
    PROVE  SumFunctionOnSet(f, R) <= SumFunctionOnSet(f, S)
<1>. DEFINE T == {s \in SUBSET S : R \subseteq s /\
                     ~ (SumFunctionOnSet(f, R) <= SumFunctionOnSet(f, s))}
<1>. SUFFICES ASSUME T # {} PROVE FALSE
  OBVIOUS
<1>1. PICK U \in T : \A V \in T : V \subseteq U => V = U
  <2>1. T \subseteq SUBSET S
    OBVIOUS
  <2>. HIDE DEF T
  <2>. QED  BY <2>1, SmallestBad
<1>2. /\ U \subseteq S /\ R \subseteq U /\ IsFiniteSet(U) /\ IsFiniteSet(R)
      /\ \A x \in U : f[x] \in Int
  BY FS_Subset
<1>3. ~ (SumFunctionOnSet(f, R) <= SumFunctionOnSet(f, U))
  OBVIOUS
<1>4. SumFunctionOnSet(f, U) \in Int /\ SumFunctionOnSet(f, R) \in Int
  BY <1>2, SumIsInt
<1>5. R # U
  BY <1>3, <1>4
<1>6. PICK y \in U : y \notin R
  BY <1>2, <1>5
<1>7. SumFunctionOnSet(f, R) <= SumFunctionOnSet(f, U \ {y})
  <2>1. U \ {y} \in SUBSET S /\ U \ {y} \notin T /\ R \subseteq U \ {y}
    BY <1>1, <1>2, <1>6
  <2>. QED  BY <2>1
<1>8. SumFunctionOnSet(f, U) = f[y] + SumFunctionOnSet(f, U \ {y})
  BY <1>2, SumTakeOut
<1>9. SumFunctionOnSet(f, U \ {y}) \in Int
  <2>1. IsFiniteSet(U \ {y}) /\ \A x \in U \ {y} : f[x] \in Int
    BY <1>2, FS_Subset
  <2>. QED  BY <2>1, SumIsInt
<1>10. f[y] \in Nat
  BY <1>2
<1>. QED  BY <1>3, <1>4, <1>7, <1>8, <1>9, <1>10

\* A sum looks at the values only.
LEMMA SumSame ==
    ASSUME NEW S, IsFiniteSet(S), NEW f, NEW g, \A x \in S : f[x] = g[x]
    PROVE  SumFunctionOnSet(f, S) = SumFunctionOnSet(g, S)
<1>. DEFINE T == {s \in SUBSET S : SumFunctionOnSet(f, s) # SumFunctionOnSet(g, s)}
<1>. SUFFICES ASSUME T # {} PROVE FALSE
  OBVIOUS
<1>1. PICK a : IsSum(a, f, S) /\ \A R \in SUBSET S : SumFunctionOnSet(f, R) = a[R]
  BY SumInTable
<1>2. \A s \in SUBSET S : s # {} => AnyOf(s) \in S
  BY AnyOfIn
<1>3. IsSum(a, g, S)
  BY <1>1, <1>2 DEF IsSum
<1>4. PICK b : IsSum(b, g, S) /\ \A R \in SUBSET S : SumFunctionOnSet(g, R) = b[R]
  BY SumInTable
<1>5. S \in SUBSET S
  OBVIOUS
<1>6. \A s \in SUBSET S : a[s] = b[s]
  BY <1>3, <1>4, <1>5, SumUnique
<1>. QED  BY <1>1, <1>4, <1>6

\* One value changes: the sum changes by as much.
LEMMA SumMoves ==
    ASSUME NEW S, IsFiniteSet(S), NEW f, \A x \in S : f[x] \in Int,
           NEW g, NEW y \in S, g[y] \in Int, \A x \in S : x # y => g[x] = f[x]
    PROVE  SumFunctionOnSet(g, S) = SumFunctionOnSet(f, S) + (g[y] - f[y])
<1>1. SumFunctionOnSet(f, S) = f[y] + SumFunctionOnSet(f, S \ {y})
  BY SumTakeOut
<1>2. SumFunctionOnSet(g, S) = g[y] + SumFunctionOnSet(g, S \ {y})
  <2>1. \A x \in S : g[x] \in Int
    OBVIOUS
  <2>. QED  BY <2>1, SumTakeOut
<1>3. IsFiniteSet(S \ {y}) /\ \A x \in S \ {y} : g[x] = f[x] /\ f[x] \in Int
  BY FS_Subset
<1>4. SumFunctionOnSet(g, S \ {y}) = SumFunctionOnSet(f, S \ {y})
  BY <1>3, SumSame
<1>5. SumFunctionOnSet(f, S \ {y}) \in Int
  BY <1>3, SumIsInt
<1>. QED  BY <1>1, <1>2, <1>4, <1>5

-----------------------------------------------------------------------------
(* The cash of drivers.  The version predicates and unique keys make each   *)
(* decision once, and a posting goes with the row that explains it.         *)

IInv == TypeOK /\ LedgerTellsRows /\ SettledOnce /\ BreachesAreOrdered

LEMMA EntryKinds ==
    /\ \A p \in Parcels : <<"COLLECTED", p>> \in Entries
    /\ \A d \in Deposits : /\ <<"DEPOSITED", d>> \in Entries
                           /\ <<"VERIFIED", d>> \in Entries
                           /\ <<"REJECTED", d>> \in Entries
    /\ \A r \in Counts : <<"ADJUSTED", r>> \in Entries
  BY DEF Entries

\* Posting adds one entry and leaves the others alone.
LEMMA PostAddsOne ==
    ASSUME TypeOK, NEW e \in Entries, Post(e)
    PROVE  /\ ledger' \in [Entries -> Nat]
           /\ ledger'[e] = ledger[e] + 1
           /\ \A f \in Entries : f # e => ledger'[f] = ledger[f]
  BY DEF TypeOK, Post

LEMMA InitHolds == Init => IInv
<1> SUFFICES ASSUME Init PROVE IInv
  OBVIOUS
<1>1. TypeOK
  BY CashConstants DEF Init, TypeOK, AccountRow
<1>2. LedgerTellsRows
  BY EntryKinds DEF Init, LedgerTellsRows, Made
<1>3. SettledOnce
  BY CashConstants DEF Init, SettledOnce
<1>4. BreachesAreOrdered
  BY DEF Init, BreachesAreOrdered
<1>. QED  BY <1>1, <1>2, <1>3, <1>4 DEF IInv

\* A step that writes no settled parcel and no deposit keeps what was settled.
LEMMA SettledKept ==
    ASSUME SettledOnce, UNCHANGED <<deposit, settled>>,
           \A o \in Parcels : parcel'[o] \in Deposits <=> parcel[o] \in Deposits,
           \A o \in Parcels : parcel[o] \in Deposits => parcel'[o] = parcel[o]
    PROVE  SettledOnce'
<1>1. {o \in Parcels : parcel'[o] \in Deposits} = {o \in Parcels : parcel[o] \in Deposits}
  OBVIOUS
<1>2. {[parcel |-> o, by |-> parcel'[o]] : o \in {p \in Parcels : parcel'[p] \in Deposits}}
         = {[parcel |-> o, by |-> parcel[o]] : o \in {p \in Parcels : parcel[p] \in Deposits}}
  BY <1>1
<1>. QED  BY <1>2 DEF SettledOnce, Made

LEMMA CollectHolds ==
    ASSUME IInv, NEW q \in Requests, NEW p \in Parcels, RecordCollection(q, p)
    PROVE  IInv'
<1>1. /\ parcel[p] = None /\ parcel' = [parcel EXCEPT ![p] = Unsettled]
      /\ Post(<<"COLLECTED", p>>) /\ UNCHANGED <<deposit, count, settled>>
  BY DEF RecordCollection
<1>2. /\ ledger' \in [Entries -> Nat]
      /\ ledger'[<<"COLLECTED", p>>] = ledger[<<"COLLECTED", p>>] + 1
      /\ \A f \in Entries : f # <<"COLLECTED", p>> => ledger'[f] = ledger[f]
  BY <1>1, EntryKinds, PostAddsOne DEF IInv
<1>3. parcel' \in [Parcels -> Deposits \cup {Unsettled, None}]
  BY <1>1 DEF IInv, TypeOK
<1>4. PICK held, read : /\ read = request[q].account /\ AnnounceABreach(p, held, read)
                        /\ read \in AccountRow
  <2>1. request[q] \in Reading
    BY DEF RecordCollection, End, IInv, TypeOK
  <2>2. request[q].account \in AccountRow
    BY <2>1 DEF Reading
  <2>. QED  BY <2>2 DEF RecordCollection
<1>5. /\ account' \in AccountRow /\ breaches' \subseteq [parcel: Parcels, version: Nat]
      /\ BreachesAreOrdered'
  <2>1. CASE UNCHANGED <<account, breaches>>
    BY <2>1 DEF IInv, TypeOK, BreachesAreOrdered
  <2>2. CASE /\ AccountCurrent(read)
             /\ account' = [account EXCEPT !.version = read.version + 1]
             /\ breaches' = breaches \cup {[parcel |-> p, version |-> read.version + 1]}
    <3>1. account'.version = account.version + 1 /\ account' \in AccountRow
      BY <2>2 DEF AccountCurrent, IInv, TypeOK, AccountRow
    <3>2. breaches' = breaches \cup {[parcel |-> p, version |-> account'.version]}
      BY <2>2, <3>1 DEF AccountCurrent
    <3>. QED  BY <3>1, <3>2 DEF IInv, TypeOK, BreachesAreOrdered, AccountRow
  <2>. QED  BY <1>4, <2>1, <2>2 DEF AnnounceABreach
<1>6. TypeOK'
  BY <1>1, <1>2, <1>3, <1>5 DEF RecordCollection, End, IInv, TypeOK, Collected
<1>7. LedgerTellsRows'
  BY <1>1, <1>2, EntryKinds, NoneIsNothing DEF IInv, TypeOK, LedgerTellsRows, Made
<1>8. SettledOnce'
  <2>1. /\ \A o \in Parcels : parcel'[o] \in Deposits <=> parcel[o] \in Deposits
        /\ \A o \in Parcels : parcel[o] \in Deposits => parcel'[o] = parcel[o]
    BY <1>1, NoneIsNothing, CashConstants DEF IInv, TypeOK
  <2>. QED  BY <1>1, <2>1, SettledKept DEF IInv
<1>. QED  BY <1>5, <1>6, <1>7, <1>8 DEF IInv

LEMMA SubmitHolds ==
    ASSUME IInv, NEW q \in Requests, NEW d \in Deposits, NEW m \in Methods, NEW a \in Amounts,
           SubmitDeposit(q, d, m, a)
    PROVE  IInv'
<1> DEFINE new == [method |-> m, amount |-> a, status |-> "PENDING_VERIFICATION"]
<1>1. /\ ~Made(d) /\ deposit' = [deposit EXCEPT ![d] = new] /\ Post(<<"DEPOSITED", d>>)
      /\ UNCHANGED <<parcel, count, account, settled, breaches>>
  BY DEF SubmitDeposit
<1>2. /\ ledger' \in [Entries -> Nat]
      /\ ledger'[<<"DEPOSITED", d>>] = ledger[<<"DEPOSITED", d>>] + 1
      /\ \A f \in Entries : f # <<"DEPOSITED", d>> => ledger'[f] = ledger[f]
  BY <1>1, EntryKinds, PostAddsOne DEF IInv
<1>3. new \in DepositRow /\ new # None
  BY NoneIsNothing DEF DepositRow
<1>4. deposit' \in [Deposits -> DepositRow \cup {None}]
  BY <1>1, <1>3 DEF IInv, TypeOK
<1>5. deposit'[d] = new /\ \A c \in Deposits : c # d => deposit'[c] = deposit[c]
  BY <1>1 DEF IInv, TypeOK
<1>6. TypeOK'
  BY <1>1, <1>2, <1>4 DEF SubmitDeposit, End, IInv, TypeOK, Collected
<1>7. LedgerTellsRows'
  BY <1>1, <1>2, <1>3, <1>5, EntryKinds DEF IInv, LedgerTellsRows, Made
<1>8. SettledOnce'
  BY <1>1, <1>5 DEF IInv, SettledOnce, Made
<1>9. BreachesAreOrdered'
  BY <1>1 DEF IInv, BreachesAreOrdered
<1>. QED  BY <1>6, <1>7, <1>8, <1>9 DEF IInv

\* A decision: the deposit was pending and no parcel was settled by it.
LEMMA DecideRow ==
    ASSUME IInv, NEW d \in Deposits, MayDecide(d), NEW s \in {"CONFIRMED", "REJECTED"},
           Decide(d, s)
    PROVE  /\ deposit' \in [Deposits -> DepositRow \cup {None}]
           /\ \A c \in Deposits : deposit'[c] # None <=> deposit[c] # None
           /\ deposit'[d].status = s /\ deposit'[d].method = deposit[d].method
           /\ \A c \in Deposits : c # d => deposit'[c] = deposit[c]
           /\ \A p \in Parcels : parcel[p] # d
<1>1. /\ deposit[d] \in DepositRow /\ deposit[d].status = "PENDING_VERIFICATION"
      /\ deposit' = [deposit EXCEPT ![d] = [deposit[d] EXCEPT !.status = s]]
  BY DEF MayDecide, Decide, Made, IInv, TypeOK
<1>2. /\ [deposit[d] EXCEPT !.status = s] \in DepositRow
      /\ [deposit[d] EXCEPT !.status = s].status = s
      /\ [deposit[d] EXCEPT !.status = s].method = deposit[d].method
  BY <1>1 DEF DepositRow
<1>3. \A p \in Parcels : parcel[p] # d
  BY <1>1 DEF IInv, SettledOnce
<1>. QED  BY <1>1, <1>2, <1>3, NoneIsNothing DEF IInv, TypeOK

LEMMA ConfirmAtHubHolds ==
    ASSUME IInv, NEW q \in Requests, NEW d \in Deposits, ConfirmAtHub(q, d)
    PROVE  IInv'
<1> DEFINE paid == Covered(request[q].outstanding, deposit[d].amount)
<1>1. /\ MayDecide(d) /\ Decide(d, "CONFIRMED") /\ deposit[d].method = "HUB_CASHIER"
      /\ paid \subseteq Outstanding
      /\ parcel' = [p \in Parcels |-> IF p \in paid THEN d ELSE parcel[p]]
      /\ settled' = settled \cup {[parcel |-> p, by |-> d] : p \in paid}
      /\ UNCHANGED <<ledger, count, account, breaches>>
  BY DEF ConfirmAtHub, StillUnsettled
<1> HIDE DEF paid
<1>2. /\ deposit' \in [Deposits -> DepositRow \cup {None}]
      /\ \A c \in Deposits : deposit'[c] # None <=> deposit[c] # None
      /\ deposit'[d].status = "CONFIRMED" /\ deposit'[d].method = "HUB_CASHIER"
      /\ \A c \in Deposits : c # d => deposit'[c] = deposit[c]
      /\ \A p \in Parcels : parcel[p] # d
  BY <1>1, DecideRow
<1>3. /\ paid \subseteq Parcels
      /\ \A p \in Parcels : parcel'[p] = IF p \in paid THEN d ELSE parcel[p]
      /\ \A p \in paid : parcel[p] = Unsettled
  BY <1>1 DEF Outstanding
<1>4. Collected' = Collected
  BY <1>3, NoneIsNothing, CashConstants DEF Collected
<1>5. TypeOK'
  BY <1>1, <1>2, <1>3, <1>4 DEF ConfirmAtHub, End, IInv, TypeOK
<1>6. LedgerTellsRows'
  <2>1. \A p \in Parcels : parcel'[p] # None <=> parcel[p] # None
    BY <1>4 DEF Collected
  <2>2. deposit[d].status = "PENDING_VERIFICATION" /\ Made(d)
    BY <1>1 DEF MayDecide
  <2>. QED  BY <1>1, <1>2, <2>1, <2>2 DEF IInv, LedgerTellsRows, Made
<1>7. SettledOnce'
  <2>1. \A p \in Parcels : parcel'[p] \in Deposits =>
            deposit'[parcel'[p]] # None /\ deposit'[parcel'[p]].status = "CONFIRMED"
            /\ deposit'[parcel'[p]].method = "HUB_CASHIER"
    BY <1>1, <1>2, <1>3 DEF IInv, SettledOnce, Made, MayDecide
  <2>2. settled' = {[parcel |-> p, by |-> parcel'[p]] : p \in {o \in Parcels : parcel'[o] \in Deposits}}
    <3>1. {o \in Parcels : parcel'[o] \in Deposits}
             = {o \in Parcels : parcel[o] \in Deposits} \cup paid
      BY <1>3, NoneIsNothing
    <3>2. \A o \in {p \in Parcels : parcel[p] \in Deposits} : parcel'[o] = parcel[o]
      BY <1>3, NoneIsNothing
    <3>3. \A o \in paid : parcel'[o] = d
      BY <1>3
    <3>4. {[parcel |-> p, by |-> parcel'[p]] : p \in {o \in Parcels : parcel'[o] \in Deposits}}
             = {[parcel |-> p, by |-> parcel[p]] : p \in {o \in Parcels : parcel[o] \in Deposits}}
               \cup {[parcel |-> p, by |-> d] : p \in paid}
      BY <3>1, <3>2, <3>3
    <3>. QED  BY <1>1, <3>4 DEF IInv, SettledOnce
  <2>3. SettledOnce' <=>
          /\ \A p \in Parcels : parcel'[p] \in Deposits =>
                /\ deposit'[parcel'[p]] # None /\ deposit'[parcel'[p]].status = "CONFIRMED"
                /\ deposit'[parcel'[p]].method = "HUB_CASHIER"
          /\ settled' = {[parcel |-> p, by |-> parcel'[p]] : p \in {o \in Parcels : parcel'[o] \in Deposits}}
    BY DEF SettledOnce, Made
  <2>. QED  BY <2>1, <2>2, <2>3
<1>8. BreachesAreOrdered'
  BY <1>1 DEF IInv, BreachesAreOrdered
<1>. QED  BY <1>5, <1>6, <1>7, <1>8 DEF IInv

LEMMA ConfirmElsewhereHolds ==
    ASSUME IInv, NEW d \in Deposits, ConfirmElsewhere(d)
    PROVE  IInv'
<1>1. /\ MayDecide(d) /\ Decide(d, "CONFIRMED") /\ deposit[d].method # "HUB_CASHIER"
      /\ UNCHANGED <<parcel, count, account, settled, breaches, request>>
  BY DEF ConfirmElsewhere
<1>2. /\ deposit' \in [Deposits -> DepositRow \cup {None}]
      /\ \A c \in Deposits : deposit'[c] # None <=> deposit[c] # None
      /\ deposit'[d].status = "CONFIRMED" /\ deposit'[d].method = deposit[d].method
      /\ \A c \in Deposits : c # d => deposit'[c] = deposit[c]
      /\ \A p \in Parcels : parcel[p] # d
  BY <1>1, DecideRow
<1>3. /\ ledger' \in [Entries -> Nat]
      /\ ledger'[<<"VERIFIED", d>>] = ledger[<<"VERIFIED", d>>]
             + (IF deposit[d].method = "EXCHANGE_OFFICE" THEN 1 ELSE 0)
      /\ \A f \in Entries : f # <<"VERIFIED", d>> => ledger'[f] = ledger[f]
  <2>1. CASE deposit[d].method = "EXCHANGE_OFFICE"
    <3>1. Post(<<"VERIFIED", d>>)
      BY <2>1 DEF ConfirmElsewhere
    <3>. QED  BY <2>1, <3>1, EntryKinds, PostAddsOne DEF IInv
  <2>2. CASE deposit[d].method # "EXCHANGE_OFFICE"
    <3>1. ledger' = ledger
      BY <2>2 DEF ConfirmElsewhere
    <3>2. ledger \in [Entries -> Nat] /\ ledger[<<"VERIFIED", d>>] \in Nat
      BY EntryKinds DEF IInv, TypeOK
    <3>. QED  BY <2>2, <3>1, <3>2
  <2>. QED  BY <2>1, <2>2
<1>4. TypeOK'
  BY <1>1, <1>2, <1>3 DEF IInv, TypeOK, Collected
<1>5. LedgerTellsRows'
  <2>1. deposit[d].status = "PENDING_VERIFICATION" /\ Made(d)
    BY <1>1 DEF MayDecide
  <2>. QED  BY <1>1, <1>2, <1>3, <2>1, EntryKinds DEF IInv, LedgerTellsRows, Made
<1>6. SettledOnce'
  BY <1>1, <1>2 DEF IInv, SettledOnce, Made
<1>7. BreachesAreOrdered'
  BY <1>1 DEF IInv, BreachesAreOrdered
<1>. QED  BY <1>4, <1>5, <1>6, <1>7 DEF IInv

LEMMA RejectHolds ==
    ASSUME IInv, NEW d \in Deposits, RejectDeposit(d)
    PROVE  IInv'
<1>1. /\ MayDecide(d) /\ Decide(d, "REJECTED") /\ Post(<<"REJECTED", d>>)
      /\ UNCHANGED <<parcel, count, account, settled, breaches, request>>
  BY DEF RejectDeposit
<1>2. /\ deposit' \in [Deposits -> DepositRow \cup {None}]
      /\ \A c \in Deposits : deposit'[c] # None <=> deposit[c] # None
      /\ deposit'[d].status = "REJECTED"
      /\ \A c \in Deposits : c # d => deposit'[c] = deposit[c]
      /\ \A p \in Parcels : parcel[p] # d
  BY <1>1, DecideRow
<1>3. /\ ledger' \in [Entries -> Nat]
      /\ ledger'[<<"REJECTED", d>>] = ledger[<<"REJECTED", d>>] + 1
      /\ \A f \in Entries : f # <<"REJECTED", d>> => ledger'[f] = ledger[f]
  BY <1>1, EntryKinds, PostAddsOne DEF IInv
<1>4. TypeOK'
  BY <1>1, <1>2, <1>3 DEF IInv, TypeOK, Collected
<1>5. LedgerTellsRows'
  <2>1. deposit[d].status = "PENDING_VERIFICATION" /\ Made(d)
    BY <1>1 DEF MayDecide
  <2>. QED  BY <1>1, <1>2, <1>3, <2>1, EntryKinds DEF IInv, LedgerTellsRows, Made
<1>6. SettledOnce'
  BY <1>1, <1>2 DEF IInv, SettledOnce, Made
<1>7. BreachesAreOrdered'
  BY <1>1 DEF IInv, BreachesAreOrdered
<1>. QED  BY <1>4, <1>5, <1>6, <1>7 DEF IInv

LEMMA OpenReconciliationHolds ==
    ASSUME IInv, NEW q \in Requests, NEW r \in Counts, NEW c \in Amounts \cup {0},
           OpenReconciliation(q, r, c)
    PROVE  IInv'
<1> DEFINE new == [expected |-> request[q].held, counted |-> c,
                   status |-> IF c = request[q].held THEN "RESOLVED" ELSE "OPEN"]
<1>1. /\ count[r] = None /\ request[q].held \in Nat /\ count' = [count EXCEPT ![r] = new]
      /\ UNCHANGED <<ledger, parcel, deposit, account, settled, breaches>>
  BY DEF OpenReconciliation, Readable
<1>2. new \in CountRow
  BY <1>1 DEF CountRow
<1> HIDE DEF new
<1>3. /\ count' \in [Counts -> CountRow \cup {None}]
      /\ \A s \in Counts : s # r => count'[s] = count[s]
  BY <1>1, <1>2 DEF IInv, TypeOK
<1>4. TypeOK'
  BY <1>1, <1>3 DEF OpenReconciliation, End, IInv, TypeOK, Collected
<1>5. LedgerTellsRows'
  BY <1>1, <1>3 DEF IInv, LedgerTellsRows, Made, IsBalanced
<1>6. SettledOnce'
  BY <1>1, SettledKept DEF IInv
<1>7. BreachesAreOrdered'
  BY <1>1 DEF IInv, BreachesAreOrdered
<1>. QED  BY <1>4, <1>5, <1>6, <1>7 DEF IInv

LEMMA ResolveHolds ==
    ASSUME IInv, NEW r \in Counts, NEW adjust \in BOOLEAN, ResolveReconciliation(r, adjust)
    PROVE  IInv'
<1> DEFINE new == [count[r] EXCEPT !.status = "RESOLVED"]
<1>1. /\ count[r] \in CountRow /\ count[r] # None /\ count[r].status = "OPEN"
      /\ count' = [count EXCEPT ![r] = new]
      /\ UNCHANGED <<parcel, deposit, account, settled, breaches, request>>
  BY DEF ResolveReconciliation, IInv, TypeOK
<1>2. /\ new \in CountRow /\ new # None /\ new.status = "RESOLVED"
      /\ IsBalanced(new) <=> IsBalanced(count[r])
  BY <1>1, NoneIsNothing DEF CountRow, IsBalanced
<1> HIDE DEF new
<1>3. /\ count' \in [Counts -> CountRow \cup {None}] /\ count'[r] = new
      /\ \A s \in Counts : s # r => count'[s] = count[s]
  BY <1>1, <1>2 DEF IInv, TypeOK
<1>4. ledger[<<"ADJUSTED", r>>] = 0
  BY <1>1 DEF IInv, LedgerTellsRows
<1>5. /\ ledger' \in [Entries -> Nat]
      /\ ledger'[<<"ADJUSTED", r>>] \in {0, 1}
      /\ ledger'[<<"ADJUSTED", r>>] = 1 => ~IsBalanced(count[r])
      /\ \A f \in Entries : f # <<"ADJUSTED", r>> => ledger'[f] = ledger[f]
  <2>1. CASE Post(<<"ADJUSTED", r>>) /\ ~IsBalanced(count[r])
    BY <1>4, <2>1, EntryKinds, PostAddsOne DEF IInv
  <2>2. CASE UNCHANGED ledger
    BY <1>4, <2>2 DEF IInv, TypeOK
  <2>. QED  BY <2>1, <2>2 DEF ResolveReconciliation
<1>6. TypeOK'
  BY <1>1, <1>3, <1>5 DEF IInv, TypeOK, Collected
<1>7. LedgerTellsRows'
  <2>1. \A p \in Parcels : ledger'[<<"COLLECTED", p>>] = ledger[<<"COLLECTED", p>>]
    BY <1>5, EntryKinds
  <2>2. \A d \in Deposits : /\ ledger'[<<"DEPOSITED", d>>] = ledger[<<"DEPOSITED", d>>]
                             /\ ledger'[<<"REJECTED", d>>] = ledger[<<"REJECTED", d>>]
                             /\ ledger'[<<"VERIFIED", d>>] = ledger[<<"VERIFIED", d>>]
    BY <1>5, EntryKinds
  <2>3. \A s \in Counts : s # r => ledger'[<<"ADJUSTED", s>>] = ledger[<<"ADJUSTED", s>>]
    BY <1>5, EntryKinds
  <2>4. \A s \in Counts :
            /\ ledger'[<<"ADJUSTED", s>>] \in {0, 1}
            /\ ledger'[<<"ADJUSTED", s>>] = 1 =>
                   count'[s] # None /\ count'[s].status = "RESOLVED" /\ ~IsBalanced(count'[s])
    <3> SUFFICES ASSUME NEW s \in Counts
                 PROVE  /\ ledger'[<<"ADJUSTED", s>>] \in {0, 1}
                        /\ ledger'[<<"ADJUSTED", s>>] = 1 =>
                             count'[s] # None /\ count'[s].status = "RESOLVED" /\ ~IsBalanced(count'[s])
      OBVIOUS
    <3>1. CASE s = r
      BY <1>2, <1>3, <1>5, <3>1
    <3>2. CASE s # r
      BY <1>3, <2>3, <3>2 DEF IInv, LedgerTellsRows
    <3>. QED  BY <3>1, <3>2
  <2>. QED  BY <1>1, <2>1, <2>2, <2>4 DEF IInv, LedgerTellsRows, Made, IsBalanced
<1>8. SettledOnce'
  BY <1>1, SettledKept DEF IInv
<1>9. BreachesAreOrdered'
  BY <1>1 DEF IInv, BreachesAreOrdered
<1>. QED  BY <1>6, <1>7, <1>8, <1>9 DEF IInv

LEMMA SetLimitHolds ==
    ASSUME IInv, NEW limit \in Amounts, SetLimit(limit)
    PROVE  IInv'
<1>1. /\ account' = [limit |-> limit, version |-> account.version + 1]
      /\ UNCHANGED <<ledger, parcel, deposit, count, settled, breaches, request>>
  BY DEF SetLimit
<1>2. account' \in AccountRow /\ account'.version = account.version + 1
  BY <1>1 DEF IInv, TypeOK, AccountRow
<1>3. TypeOK'
  BY <1>1, <1>2 DEF IInv, TypeOK, Collected
<1>4. LedgerTellsRows'
  BY <1>1 DEF IInv, LedgerTellsRows, Made, IsBalanced
<1>5. SettledOnce'
  BY <1>1, SettledKept DEF IInv
<1>6. BreachesAreOrdered'
  BY <1>1, <1>2 DEF IInv, TypeOK, BreachesAreOrdered, AccountRow
<1>. QED  BY <1>3, <1>4, <1>5, <1>6 DEF IInv

\* Postings are integers, and so is their sum.
LEMMA PostingsAreInts ==
    ASSUME TypeOK
    PROVE  /\ \A p \in Parcels : Brought[p] \in Int
           /\ \A d \in Deposits : TakenOut[d] \in Int
           /\ \A r \in Counts : Corrected[r] \in Int
           /\ SumFunctionOnSet(Brought, Parcels) \in Int
           /\ SumFunctionOnSet(TakenOut, Deposits) \in Int
           /\ SumFunctionOnSet(Corrected, Counts) \in Int
<1>0. ledger \in [Entries -> Nat]
  BY DEF TypeOK
<1>1. ASSUME NEW p \in Parcels PROVE Brought[p] \in Int
  <2>1. Total[p] \in Nat /\ ledger[<<"COLLECTED", p>>] \in Nat
    BY <1>0, EntryKinds, CashConstants
  <2>. QED  BY <2>1 DEF Brought
<1>2. ASSUME NEW d \in Deposits PROVE TakenOut[d] \in Int
  <2>1. ledger[<<"DEPOSITED", d>>] \in Nat /\ ledger[<<"REJECTED", d>>] \in Nat
    BY <1>0, EntryKinds
  <2>2. Made(d) => deposit[d].amount \in Nat
    BY CashConstants DEF TypeOK, Made, DepositRow
  <2>. QED  BY <2>1, <2>2 DEF TakenOut
<1>3. ASSUME NEW r \in Counts PROVE Corrected[r] \in Int
  <2>1. ledger[<<"ADJUSTED", r>>] \in Nat
    BY <1>0, EntryKinds
  <2>2. CASE count[r] = None
    BY <2>2 DEF Corrected
  <2>3. CASE count[r] # None
    <3>1. count[r] \in CountRow
      BY <2>3 DEF TypeOK
    <3>2. count[r].counted \in Amounts \cup {0} /\ count[r].expected \in Nat
      BY <3>1 DEF CountRow
    <3>3. count[r].counted \in Nat
      <4>1. \A a \in Amounts : a \in Nat
        BY CashConstants
      <4>. QED  BY <3>2, <4>1
    <3>. QED  BY <2>1, <2>3, <3>2, <3>3 DEF Corrected
  <2>. QED  BY <2>2, <2>3
<1>4. SumFunctionOnSet(Brought, Parcels) \in Int
  BY <1>1, CashConstants, SumIsInt
<1>5. SumFunctionOnSet(TakenOut, Deposits) \in Int
  BY <1>2, CashConstants, SumIsInt
<1>6. SumFunctionOnSet(Corrected, Counts) \in Int
  BY <1>3, CashConstants, SumIsInt
<1>. QED  BY <1>1, <1>2, <1>3, <1>4, <1>5, <1>6

\* Steps that write no table.
LEMMA ReadHolds ==
    ASSUME IInv, UNCHANGED db,
           \/ UNCHANGED request
           \/ \E q \in Requests : Begin(q) \/ GiveUp(q)
    PROVE  IInv'
<1>1. UNCHANGED <<ledger, parcel, deposit, count, account, settled, breaches>>
  BY DEF db
<1>2. /\ request' \in [Requests -> Reading \cup {None}]
      /\ \A q \in Requests : request'[q] # None => request'[q].outstanding \subseteq Collected
  <2>1. CASE UNCHANGED request
    BY <2>1 DEF IInv, TypeOK
  <2>2. ASSUME NEW q \in Requests, GiveUp(q) PROVE <1>2
    BY <2>2 DEF GiveUp, End, IInv, TypeOK
  <2>3. ASSUME NEW q \in Requests, Begin(q) PROVE <1>2
    <3>1. /\ Outstanding \subseteq Collected /\ Outstanding \subseteq Parcels
          /\ account \in AccountRow
      BY NoneIsNothing DEF Outstanding, Collected, IInv, TypeOK
    <3>2. Held \in Int
      BY PostingsAreInts DEF Held, IInv
    <3>. DEFINE new == [held |-> Held, outstanding |-> Outstanding, account |-> account]
    <3>3. new \in Reading /\ new.outstanding = Outstanding
      BY <3>1, <3>2 DEF Reading
    <3>4. request' = [request EXCEPT ![q] = new]
      BY <2>3 DEF Begin
    <3>. HIDE DEF new
    <3>. QED  BY <3>1, <3>3, <3>4 DEF IInv, TypeOK
  <2>. QED  BY <2>1, <2>2, <2>3
<1>3. TypeOK'
  BY <1>1, <1>2 DEF IInv, TypeOK, Collected
<1>4. LedgerTellsRows'
  BY <1>1 DEF IInv, LedgerTellsRows, Made, IsBalanced
<1>5. SettledOnce'
  BY <1>1, SettledKept DEF IInv
<1>6. BreachesAreOrdered'
  BY <1>1 DEF IInv, BreachesAreOrdered
<1>. QED  BY <1>3, <1>4, <1>5, <1>6 DEF IInv

LEMMA StepHolds == IInv /\ [Next]_vars => IInv'
<1> SUFFICES ASSUME IInv, [Next]_vars PROVE IInv'
  OBVIOUS
<1>1. CASE UNCHANGED vars
  BY <1>1, ReadHolds DEF vars
<1>2. ASSUME NEW q \in Requests, Begin(q) \/ GiveUp(q) PROVE IInv'
  BY <1>2, ReadHolds DEF Begin, GiveUp
<1>. QED
  BY <1>1, <1>2, CollectHolds, SubmitHolds, ConfirmAtHubHolds, ConfirmElsewhereHolds, RejectHolds,
     OpenReconciliationHolds, ResolveHolds, SetLimitHolds DEF Next

-----------------------------------------------------------------------------
(* What a deposit pays for. *)

LEMMA LargestOf ==
    ASSUME NEW S, IsFiniteSet(S), \A n \in S : n \in Nat, S # {}
    PROVE  \E m \in S : \A n \in S : n <= m
<1>. DEFINE T == {s \in SUBSET S : s # {} /\ ~ \E m \in s : \A n \in s : n <= m}
<1>. SUFFICES ASSUME T # {} PROVE FALSE
  OBVIOUS
<1>1. PICK U \in T : \A V \in T : V \subseteq U => V = U
  <2>1. T \subseteq SUBSET S
    OBVIOUS
  <2>. HIDE DEF T
  <2>. QED  BY <2>1, SmallestBad
<1>2. PICK x \in U : x \in Nat
  OBVIOUS
<1>3. CASE U \ {x} = {}
  <2>1. \A n \in U : n <= x
    BY <1>2, <1>3
  <2>. QED  BY <1>2, <2>1
<1>4. CASE U \ {x} # {}
  <2>1. U \ {x} \in SUBSET S /\ U \ {x} \notin T
    BY <1>1, <1>2
  <2>2. PICK m \in U \ {x} : \A n \in U \ {x} : n <= m
    BY <1>4, <2>1
  <2>3. \A n \in U : n <= (IF x <= m THEN m ELSE x)
    <3>1. \A n \in U : n \in Nat
      OBVIOUS
    <3>. QED  BY <2>2, <3>1
  <2>. QED  BY <1>2, <2>2, <2>3
<1>. QED  BY <1>3, <1>4

\* What is covered is among what its last parcel was found covered with.
LEMMA CoveredFits ==
    ASSUME NEW outstanding, outstanding \subseteq Parcels, NEW amount \in Nat
    PROVE  TotalOf(Covered(outstanding, amount)) <= amount
<1>. DEFINE paid == Covered(outstanding, amount)
<1>1. /\ IsFiniteSet(outstanding) /\ outstanding \subseteq Nat
      /\ paid \subseteq outstanding /\ IsFiniteSet(paid)
  BY CashConstants, FS_Subset DEF Covered
<1>2. CASE paid = {}
  BY <1>2, SumOfNothing DEF TotalOf
<1>3. CASE paid # {}
  <2>1. PICK m \in paid : \A n \in paid : n <= m
    <3>. HIDE DEF paid
    <3>. QED  BY <1>1, <1>3, LargestOf
  <2>. DEFINE upToIt == {o \in outstanding : o <= m}
  <2>2. TotalOf(upToIt) <= amount
    BY <2>1 DEF Covered
  <2>3. paid \in SUBSET upToIt
    BY <1>1, <2>1
  <2>4. IsFiniteSet(upToIt) /\ upToIt \subseteq Parcels
    BY <1>1, FS_Subset
  <2>5. \A o \in upToIt : Total[o] \in Nat
    BY <2>4, CashConstants
  <2>. HIDE DEF paid, upToIt
  <2>6. /\ SumFunctionOnSet(Total, paid) <= SumFunctionOnSet(Total, upToIt)
        /\ SumFunctionOnSet(Total, upToIt) \in Int
    BY <2>3, <2>4, <2>5, SumGrows, SumIsInt
  <2>7. SumFunctionOnSet(Total, paid) \in Int
    <3>1. \A o \in paid : Total[o] \in Int
      BY <2>3, <2>5
    <3>. QED  BY <1>1, <3>1, SumIsInt
  <2>. QED  BY <2>2, <2>6, <2>7 DEF TotalOf, paid
<1>. QED  BY <1>2, <1>3

\* Where neither its parcels nor its amount change, a deposit covers what it did.
LEMMA CoversKept ==
    ASSUME DepositCovers, \A p \in Parcels : parcel'[p] \in Deposits \/ parcel[p] \in Deposits
                                                 => parcel'[p] = parcel[p],
           \A d \in Deposits : deposit'[d] # None <=> deposit[d] # None,
           \A d \in Deposits : Made(d) => deposit'[d].amount = deposit[d].amount
    PROVE  DepositCovers'
<1>. SUFFICES ASSUME NEW d \in Deposits, deposit'[d] # None
              PROVE  TotalOf({p \in Parcels : parcel'[p] = d}) <= deposit'[d].amount
  BY DEF DepositCovers, Made, TotalOf
<1>1. {p \in Parcels : parcel'[p] = d} = {p \in Parcels : parcel[p] = d}
  OBVIOUS
<1>. QED  BY <1>1 DEF DepositCovers, Made

\* A decision leaves the amounts alone.
LEMMA DecideKeepsAmounts ==
    ASSUME IInv, NEW d \in Deposits, MayDecide(d), NEW s, Decide(d, s)
    PROVE  \A c \in Deposits : Made(c) => deposit'[c].amount = deposit[c].amount
<1>1. /\ deposit[d] \in DepositRow
      /\ deposit' = [deposit EXCEPT ![d] = [deposit[d] EXCEPT !.status = s]]
  BY DEF MayDecide, Decide, Made, IInv, TypeOK
<1>2. [deposit[d] EXCEPT !.status = s].amount = deposit[d].amount
  BY <1>1 DEF DepositRow
<1>. QED  BY <1>1, <1>2 DEF IInv, TypeOK

LEMMA CoversHolds ==
    ASSUME IInv, DepositCovers, [Next]_vars
    PROVE  DepositCovers'
<1>. USE NoneIsNothing, CashConstants
<1>1. ASSUME UNCHANGED <<parcel, deposit>> PROVE DepositCovers'
  BY <1>1, CoversKept
<1>2. ASSUME NEW q \in Requests, NEW p \in Parcels, RecordCollection(q, p) PROVE DepositCovers'
  <2>1. /\ parcel[p] = None /\ parcel' = [parcel EXCEPT ![p] = Unsettled] /\ deposit' = deposit
    BY <1>2 DEF RecordCollection
  <2>2. \A o \in Parcels : parcel'[o] \in Deposits \/ parcel[o] \in Deposits => parcel'[o] = parcel[o]
    BY <2>1 DEF IInv, TypeOK
  <2>. QED  BY <2>1, <2>2, CoversKept
<1>3. ASSUME NEW q \in Requests, NEW d \in Deposits, NEW m \in Methods, NEW a \in Amounts,
             SubmitDeposit(q, d, m, a)
      PROVE  DepositCovers'
  <2>1. /\ ~Made(d) /\ parcel' = parcel
        /\ deposit' = [deposit EXCEPT ![d] =
               [method |-> m, amount |-> a, status |-> "PENDING_VERIFICATION"]]
    BY <1>3 DEF SubmitDeposit
  <2>2. ASSUME NEW c \in Deposits, deposit'[c] # None
        PROVE  TotalOf({p \in Parcels : parcel'[p] = c}) <= deposit'[c].amount
    <3>1. CASE c = d
      <4>1. {p \in Parcels : parcel'[p] = c} = {}
        BY <2>1, <3>1 DEF IInv, SettledOnce
      <4>2. deposit'[c].amount = a
        BY <2>1, <3>1 DEF IInv, TypeOK
      <4>. QED  BY <4>1, <4>2, SumOfNothing DEF TotalOf
    <3>2. CASE c # d
      <4>1. deposit'[c] = deposit[c]
        BY <2>1, <3>2 DEF IInv, TypeOK
      <4>. QED  BY <2>1, <2>2, <4>1 DEF DepositCovers, Made
    <3>. QED  BY <3>1, <3>2
  <2>. QED  BY <2>2 DEF DepositCovers, Made, TotalOf
<1>4. ASSUME NEW q \in Requests, NEW d \in Deposits, ConfirmAtHub(q, d) PROVE DepositCovers'
  <2>. DEFINE paid == Covered(request[q].outstanding, deposit[d].amount)
  <2>1. /\ MayDecide(d) /\ Decide(d, "CONFIRMED") /\ paid \subseteq Outstanding
        /\ parcel' = [p \in Parcels |-> IF p \in paid THEN d ELSE parcel[p]]
    BY <1>4 DEF ConfirmAtHub, StillUnsettled
  <2>2. TotalOf(paid) <= deposit[d].amount
    <3>1. request[q].outstanding \subseteq Parcels
      BY <1>4 DEF ConfirmAtHub, End, IInv, TypeOK, Collected
    <3>2. deposit[d].amount \in Nat
      BY <2>1 DEF MayDecide, Made, IInv, TypeOK, DepositRow
    <3>. QED  BY <3>1, <3>2, CoveredFits
  <2>. HIDE DEF paid
  <2>3. /\ \A c \in Deposits : deposit'[c] # None <=> deposit[c] # None
        /\ \A p \in Parcels : parcel[p] # d
        /\ \A c \in Deposits : Made(c) => deposit'[c].amount = deposit[c].amount
    BY <2>1, DecideRow, DecideKeepsAmounts
  <2>4. \A p \in paid : p \in Parcels /\ parcel[p] = Unsettled
    BY <2>1 DEF Outstanding
  <2>5. ASSUME NEW c \in Deposits, deposit'[c] # None
        PROVE  TotalOf({p \in Parcels : parcel'[p] = c}) <= deposit'[c].amount
    <3>1. CASE c = d
      <4>1. {p \in Parcels : parcel'[p] = c} = paid
        BY <2>1, <2>3, <2>4, <3>1
      <4>. QED  BY <2>2, <2>3, <3>1, <4>1, <2>1 DEF MayDecide
    <3>2. CASE c # d
      <4>1. {p \in Parcels : parcel'[p] = c} = {p \in Parcels : parcel[p] = c}
        BY <2>1, <2>4, <3>2
      <4>. QED  BY <2>3, <2>5, <4>1 DEF DepositCovers, Made
    <3>. QED  BY <3>1, <3>2
  <2>. QED  BY <2>5 DEF DepositCovers, Made, TotalOf
<1>5. ASSUME NEW d \in Deposits, ConfirmElsewhere(d) \/ RejectDeposit(d) PROVE DepositCovers'
  <2>1. PICK s \in {"CONFIRMED", "REJECTED"} : MayDecide(d) /\ Decide(d, s) /\ parcel' = parcel
    BY <1>5 DEF ConfirmElsewhere, RejectDeposit
  <2>. QED  BY <2>1, DecideRow, DecideKeepsAmounts, CoversKept
<1>6. CASE UNCHANGED vars
  BY <1>1, <1>6 DEF vars, db
<1>7. ASSUME NEW q \in Requests, Begin(q) \/ GiveUp(q) PROVE DepositCovers'
  BY <1>1, <1>7 DEF Begin, GiveUp, db
<1>8. ASSUME NEW q \in Requests, NEW r \in Counts, NEW c \in Amounts \cup {0},
             OpenReconciliation(q, r, c)
      PROVE  DepositCovers'
  BY <1>1, <1>8 DEF OpenReconciliation
<1>9. ASSUME NEW limit \in Amounts, SetLimit(limit) PROVE DepositCovers'
  BY <1>1, <1>9 DEF SetLimit
<1>10. ASSUME NEW r \in Counts, NEW adjust \in BOOLEAN, ResolveReconciliation(r, adjust)
       PROVE  DepositCovers'
  BY <1>1, <1>10 DEF ResolveReconciliation
<1>. QED  BY <1>2, <1>3, <1>4, <1>5, <1>6, <1>7, <1>8, <1>9, <1>10 DEF Next

-----------------------------------------------------------------------------
(* What takes the balance below zero. *)

\* Tables whose entries did not move sum to what they did.
LEMMA SumsStay ==
    /\ (\A p \in Parcels : ledger'[<<"COLLECTED", p>>] = ledger[<<"COLLECTED", p>>])
           => Brought' = Brought
    /\ UNCHANGED deposit
       /\ (\A d \in Deposits : ledger'[<<"DEPOSITED", d>>] = ledger[<<"DEPOSITED", d>>]
                               /\ ledger'[<<"REJECTED", d>>] = ledger[<<"REJECTED", d>>])
           => TakenOut' = TakenOut
    /\ UNCHANGED count
       /\ (\A r \in Counts : ledger'[<<"ADJUSTED", r>>] = ledger[<<"ADJUSTED", r>>])
           => Corrected' = Corrected
<1>1. ASSUME \A p \in Parcels : ledger'[<<"COLLECTED", p>>] = ledger[<<"COLLECTED", p>>]
      PROVE  Brought' = Brought
  BY <1>1 DEF Brought
<1>2. ASSUME UNCHANGED deposit,
             \A d \in Deposits : ledger'[<<"DEPOSITED", d>>] = ledger[<<"DEPOSITED", d>>]
                                 /\ ledger'[<<"REJECTED", d>>] = ledger[<<"REJECTED", d>>]
      PROVE  TakenOut' = TakenOut
  BY <1>2 DEF TakenOut, Made
<1>3. ASSUME UNCHANGED count,
             \A r \in Counts : ledger'[<<"ADJUSTED", r>>] = ledger[<<"ADJUSTED", r>>]
      PROVE  Corrected' = Corrected
  BY <1>3 DEF Corrected
<1>. QED  BY <1>1, <1>2, <1>3

\* What is collected is held.
LEMMA CollectRaises ==
    ASSUME IInv, NEW q \in Requests, NEW p \in Parcels, RecordCollection(q, p)
    PROVE  Held' = Held + Total[p]
<1>1. Post(<<"COLLECTED", p>>) /\ UNCHANGED <<deposit, count>>
  BY DEF RecordCollection
<1>2. /\ ledger'[<<"COLLECTED", p>>] = ledger[<<"COLLECTED", p>>] + 1
      /\ \A f \in Entries : f # <<"COLLECTED", p>> => ledger'[f] = ledger[f]
  BY <1>1, EntryKinds, PostAddsOne DEF IInv
<1>3. TakenOut' = TakenOut /\ Corrected' = Corrected
  BY <1>1, <1>2, EntryKinds, SumsStay
<1>4. Total[p] \in Nat /\ ledger[<<"COLLECTED", p>>] \in Nat
  BY EntryKinds, CashConstants DEF IInv, TypeOK
<1>5. /\ Brought'[p] = Brought[p] + Total[p]
      /\ \A o \in Parcels : p # o => Brought'[o] = Brought[o]
  <2>1. \A o \in Parcels : Brought'[o] = Total[o] * ledger'[<<"COLLECTED", o>>]
                            /\ Brought[o] = Total[o] * ledger[<<"COLLECTED", o>>]
    BY DEF Brought
  <2>2. Total[p] * (ledger[<<"COLLECTED", p>>] + 1) = Total[p] * ledger[<<"COLLECTED", p>>] + Total[p]
    BY <1>4
  <2>. QED  BY <1>2, <2>1, <2>2, EntryKinds
<1>6. /\ \A o \in Parcels : Brought[o] \in Int
      /\ SumFunctionOnSet(Brought, Parcels) \in Int
      /\ SumFunctionOnSet(TakenOut, Deposits) \in Int
      /\ SumFunctionOnSet(Corrected, Counts) \in Int
  BY PostingsAreInts DEF IInv
<1>7. SumFunctionOnSet(Brought', Parcels)
        = SumFunctionOnSet(Brought, Parcels) + (Brought'[p] - Brought[p])
  <2>1. Brought'[p] \in Int
    BY <1>4, <1>5, <1>6
  <2>2. \A o \in Parcels : o # p => Brought'[o] = Brought[o]
    BY <1>5
  <2>3. IsFiniteSet(Parcels)
    BY CashConstants
  <2>. QED  BY <1>6, <2>1, <2>2, <2>3, SumMoves
<1>. QED  BY <1>3, <1>4, <1>5, <1>6, <1>7 DEF Held

\* A deposit takes out its amount; one that is rejected gives it back.
LEMMA DepositMoves ==
    ASSUME TypeOK, NEW d \in Deposits, deposit'[d] # None, deposit'[d].amount \in Nat,
           UNCHANGED count,
           \A c \in Deposits : c # d => deposit'[c] = deposit[c],
           \A f \in Entries : f # <<"DEPOSITED", d>> /\ f # <<"REJECTED", d>>
                                  => ledger'[f] = ledger[f],
           NEW moved \in Int,
           ledger'[<<"DEPOSITED", d>>] - ledger'[<<"REJECTED", d>>] \in Int,
           deposit'[d].amount * (ledger'[<<"DEPOSITED", d>>] - ledger'[<<"REJECTED", d>>])
              = TakenOut[d] + moved
    PROVE  Held' = Held - moved
<1>1. Brought' = Brought /\ Corrected' = Corrected
  BY EntryKinds, SumsStay
<1>2. TakenOut'[d] = TakenOut[d] + moved
  BY DEF TakenOut, Made
<1>3. \A c \in Deposits : d # c => TakenOut'[c] = TakenOut[c]
  BY EntryKinds DEF TakenOut, Made
<1>4. /\ \A c \in Deposits : TakenOut[c] \in Int
      /\ SumFunctionOnSet(Brought, Parcels) \in Int
      /\ SumFunctionOnSet(TakenOut, Deposits) \in Int
      /\ SumFunctionOnSet(Corrected, Counts) \in Int
  BY PostingsAreInts
<1>5. SumFunctionOnSet(TakenOut', Deposits)
        = SumFunctionOnSet(TakenOut, Deposits) + (TakenOut'[d] - TakenOut[d])
  <2>1. TakenOut'[d] \in Int
    BY <1>2, <1>4
  <2>. QED  BY <1>3, <1>4, <2>1, CashConstants, SumMoves
<1>. QED  BY <1>1, <1>2, <1>4, <1>5 DEF Held

LEMMA SubmitLowers ==
    ASSUME IInv, NEW q \in Requests, NEW d \in Deposits, NEW m \in Methods, NEW a \in Amounts,
           SubmitDeposit(q, d, m, a)
    PROVE  Held' = Held - a
<1>1. /\ ~Made(d) /\ Post(<<"DEPOSITED", d>>) /\ UNCHANGED count
      /\ deposit' = [deposit EXCEPT ![d] =
             [method |-> m, amount |-> a, status |-> "PENDING_VERIFICATION"]]
  BY DEF SubmitDeposit
<1>2. /\ ledger'[<<"DEPOSITED", d>>] = ledger[<<"DEPOSITED", d>>] + 1
      /\ \A f \in Entries : f # <<"DEPOSITED", d>> => ledger'[f] = ledger[f]
  BY <1>1, EntryKinds, PostAddsOne DEF IInv
<1>3. ledger[<<"DEPOSITED", d>>] = 0 /\ ledger[<<"REJECTED", d>>] = 0
  BY <1>1 DEF IInv, LedgerTellsRows
<1>4. ledger'[<<"DEPOSITED", d>>] = 1 /\ ledger'[<<"REJECTED", d>>] = 0
  <2>1. <<"DEPOSITED", d>> \in Entries /\ <<"REJECTED", d>> \in Entries
    BY EntryKinds
  <2>2. <<"DEPOSITED", d>> # <<"REJECTED", d>>
    OBVIOUS
  <2>3. ledger'[<<"DEPOSITED", d>>] = 1
    BY <1>2, <1>3, <2>1, <2>2
  <2>4. ledger'[<<"REJECTED", d>>] = 0
    BY <1>2, <1>3, <2>1, <2>2
  <2>. QED  BY <2>3, <2>4
<1>5. /\ deposit'[d] # None /\ deposit'[d].amount = a /\ a \in Nat
      /\ \A c \in Deposits : c # d => deposit'[c] = deposit[c]
  BY <1>1, NoneIsNothing, CashConstants DEF IInv, TypeOK, DepositRow
<1>6. TakenOut[d] = 0
  BY <1>1 DEF TakenOut
<1>7. a * (1 - 0) = 0 + a
  BY <1>5
<1>. QED  BY <1>1, <1>2, <1>4, <1>5, <1>6, <1>7, DepositMoves DEF IInv

LEMMA RejectRaises ==
    ASSUME IInv, NEW d \in Deposits, RejectDeposit(d)
    PROVE  deposit[d].amount \in Nat /\ Held' = Held + deposit[d].amount
<1>1. /\ MayDecide(d) /\ Decide(d, "REJECTED") /\ Post(<<"REJECTED", d>>) /\ UNCHANGED count
  BY DEF RejectDeposit
<1>2. /\ ledger'[<<"REJECTED", d>>] = ledger[<<"REJECTED", d>>] + 1
      /\ \A f \in Entries : f # <<"REJECTED", d>> => ledger'[f] = ledger[f]
  BY <1>1, EntryKinds, PostAddsOne DEF IInv
<1>3. ledger[<<"DEPOSITED", d>>] = 1 /\ ledger[<<"REJECTED", d>>] = 0
  BY <1>1 DEF IInv, LedgerTellsRows, MayDecide
<1>4. ledger'[<<"DEPOSITED", d>>] = 1 /\ ledger'[<<"REJECTED", d>>] = 1
  <2>1. <<"DEPOSITED", d>> \in Entries /\ <<"REJECTED", d>> \in Entries
    BY EntryKinds
  <2>2. <<"DEPOSITED", d>> # <<"REJECTED", d>>
    OBVIOUS
  <2>3. ledger'[<<"DEPOSITED", d>>] = 1
    BY <1>2, <1>3, <2>1, <2>2
  <2>4. ledger'[<<"REJECTED", d>>] = 1
    BY <1>2, <1>3, <2>1, <2>2
  <2>. QED  BY <2>3, <2>4
<1>5. /\ deposit'[d] # None /\ deposit'[d].amount = deposit[d].amount
      /\ deposit[d].amount \in Nat /\ Made(d)
      /\ \A c \in Deposits : c # d => deposit'[c] = deposit[c]
  <2>1. deposit[d].amount \in Nat /\ Made(d)
    BY <1>1, CashConstants DEF MayDecide, Made, IInv, TypeOK, DepositRow
  <2>. QED  BY <1>1, <2>1, DecideRow, DecideKeepsAmounts DEF Made
<1>6. TakenOut[d] = deposit[d].amount
  BY <1>3, <1>5 DEF TakenOut
<1>. DEFINE a == deposit[d].amount
<1>7. a * (1 - 1) = a + (0 - a) /\ (0 - a) \in Int
  BY <1>5
<1>8. Held' = Held - (0 - a)
  BY <1>1, <1>2, <1>4, <1>5, <1>6, <1>7, DepositMoves DEF IInv
<1>9. Held \in Int
  BY PostingsAreInts DEF Held, IInv
<1>. QED  BY <1>5, <1>8, <1>9

\* An adjustment takes out what was missing when the route was counted.
LEMMA AdjustMoves ==
    ASSUME IInv, NEW r \in Counts, NEW adjust \in BOOLEAN, ResolveReconciliation(r, adjust),
           ledger' # ledger
    PROVE  Held' = Held + (count[r].counted - count[r].expected)
<1>1. /\ count[r] # None /\ count[r].status = "OPEN" /\ Post(<<"ADJUSTED", r>>)
      /\ count' = [count EXCEPT ![r] = [count[r] EXCEPT !.status = "RESOLVED"]]
      /\ UNCHANGED deposit
  BY DEF ResolveReconciliation
<1>2. /\ ledger'[<<"ADJUSTED", r>>] = ledger[<<"ADJUSTED", r>>] + 1
      /\ \A f \in Entries : f # <<"ADJUSTED", r>> => ledger'[f] = ledger[f]
  BY <1>1, EntryKinds, PostAddsOne DEF IInv
<1>3. ledger[<<"ADJUSTED", r>>] = 0 /\ ledger'[<<"ADJUSTED", r>>] = 1
  BY <1>1, <1>2 DEF IInv, LedgerTellsRows
<1>4. Brought' = Brought /\ TakenOut' = TakenOut
  BY <1>1, <1>2, EntryKinds, SumsStay
<1>5. count[r] \in CountRow /\ count[r].counted \in Nat /\ count[r].expected \in Nat
  BY <1>1, CashConstants DEF IInv, TypeOK, CountRow
<1>6. /\ count'[r] # None /\ count'[r].counted = count[r].counted
      /\ count'[r].expected = count[r].expected
      /\ \A s \in Counts : r # s => count'[s] = count[s]
  <2>1. /\ [count[r] EXCEPT !.status = "RESOLVED"] \in CountRow
        /\ [count[r] EXCEPT !.status = "RESOLVED"].counted = count[r].counted
        /\ [count[r] EXCEPT !.status = "RESOLVED"].expected = count[r].expected
    BY <1>5 DEF CountRow
  <2>. QED  BY <1>1, <2>1, NoneIsNothing DEF IInv, TypeOK
<1>7. Corrected[r] = 0 /\ Corrected'[r] = count[r].counted - count[r].expected
  BY <1>1, <1>3, <1>5, <1>6 DEF Corrected
<1>8. \A s \in Counts : r # s => Corrected'[s] = Corrected[s]
  BY <1>2, <1>6, EntryKinds DEF Corrected
<1>9. /\ \A s \in Counts : Corrected[s] \in Int
      /\ SumFunctionOnSet(Brought, Parcels) \in Int
      /\ SumFunctionOnSet(TakenOut, Deposits) \in Int
      /\ SumFunctionOnSet(Corrected, Counts) \in Int
  BY PostingsAreInts DEF IInv
<1>10. SumFunctionOnSet(Corrected', Counts)
         = SumFunctionOnSet(Corrected, Counts) + (Corrected'[r] - Corrected[r])
  <2>1. Corrected'[r] \in Int
    BY <1>5, <1>7
  <2>. QED  BY <1>8, <1>9, <2>1, CashConstants, SumMoves
<1>. QED  BY <1>4, <1>5, <1>7, <1>9, <1>10 DEF Held

\* Where nothing but a verification is posted the balance stays.
LEMMA VerifyStays ==
    ASSUME IInv, NEW d \in Deposits, ConfirmElsewhere(d), ledger' # ledger
    PROVE  Held' = Held
<1>1. MayDecide(d) /\ Decide(d, "CONFIRMED") /\ Post(<<"VERIFIED", d>>) /\ UNCHANGED count
  BY DEF ConfirmElsewhere
<1>2. \A f \in Entries : f # <<"VERIFIED", d>> => ledger'[f] = ledger[f]
  BY <1>1, EntryKinds, PostAddsOne DEF IInv
<1>3. /\ \A c \in Deposits : deposit'[c] # None <=> deposit[c] # None
      /\ \A c \in Deposits : Made(c) => deposit'[c].amount = deposit[c].amount
  BY <1>1, DecideRow, DecideKeepsAmounts
<1>4. TakenOut' = TakenOut
  BY <1>2, <1>3, EntryKinds DEF TakenOut, Made
<1>5. Brought' = Brought /\ Corrected' = Corrected
  BY <1>1, <1>2, EntryKinds, SumsStay
<1>. QED  BY <1>4, <1>5 DEF Held

StaleDecision ==
    \/ \E q \in Requests : request[q] # None /\ request'[q] = None /\ request[q].held > Held
    \/ \E r \in Counts : count[r] # None /\ count'[r] # count[r] /\ count[r].expected > Held

LEMMA OnlyStaleLowers ==
    ASSUME IInv, [Next]_vars, ledger' # ledger, Held' < 0, Held' < Held
    PROVE  StaleDecision
<1>1. Held \in Int
  BY PostingsAreInts DEF Held, IInv
<1>2. CASE UNCHANGED vars
  BY <1>2 DEF vars, db
<1>3. ASSUME NEW q \in Requests, Begin(q) \/ GiveUp(q) PROVE StaleDecision
  BY <1>3 DEF Begin, GiveUp, db
<1>4. ASSUME NEW q \in Requests, NEW p \in Parcels, RecordCollection(q, p) PROVE StaleDecision
  <2>1. Held' = Held + Total[p] /\ Total[p] \in Nat
    BY <1>4, CollectRaises, CashConstants
  <2>. QED  BY <1>1, <2>1
<1>5. ASSUME NEW q \in Requests, NEW d \in Deposits, NEW m \in Methods, NEW a \in Amounts,
             SubmitDeposit(q, d, m, a)
      PROVE  StaleDecision
  <2>1. Held' = Held - a /\ a \in Nat
    BY <1>5, SubmitLowers, CashConstants
  <2>2. request[q] # None /\ request[q].held \in Nat /\ a <= request[q].held
    BY <1>5 DEF SubmitDeposit, End, Affordable, Readable
  <2>3. request'[q] = None
    BY <1>5 DEF SubmitDeposit, End, IInv, TypeOK
  <2>. QED  BY <1>1, <2>1, <2>2, <2>3 DEF StaleDecision
<1>6. ASSUME NEW q \in Requests, NEW d \in Deposits, ConfirmAtHub(q, d) PROVE StaleDecision
  BY <1>6 DEF ConfirmAtHub
<1>7. ASSUME NEW d \in Deposits, ConfirmElsewhere(d) PROVE StaleDecision
  BY <1>1, <1>7, VerifyStays
<1>8. ASSUME NEW d \in Deposits, RejectDeposit(d) PROVE StaleDecision
  BY <1>1, <1>8, RejectRaises
<1>9. ASSUME NEW q \in Requests, NEW r \in Counts, NEW c \in Amounts \cup {0},
             OpenReconciliation(q, r, c)
      PROVE  StaleDecision
  BY <1>9 DEF OpenReconciliation
<1>10. ASSUME NEW r \in Counts, NEW adjust \in BOOLEAN, ResolveReconciliation(r, adjust)
       PROVE  StaleDecision
  <2>1. Held' = Held + (count[r].counted - count[r].expected)
    BY <1>10, AdjustMoves
  <2>2. /\ count[r] \in CountRow /\ count[r] # None /\ count[r].status = "OPEN"
        /\ count' = [count EXCEPT ![r] = [count[r] EXCEPT !.status = "RESOLVED"]]
    BY <1>10 DEF ResolveReconciliation, IInv, TypeOK
  <2>3. count[r].counted \in Nat /\ count[r].expected \in Nat
    BY <2>2, CashConstants DEF CountRow
  <2>4. count'[r] # count[r]
    <3>1. [count[r] EXCEPT !.status = "RESOLVED"].status = "RESOLVED"
      BY <2>2 DEF CountRow
    <3>. QED  BY <2>2, <3>1 DEF IInv, TypeOK
  <2>. QED  BY <1>1, <2>1, <2>2, <2>3, <2>4 DEF StaleDecision
<1>11. ASSUME NEW limit \in Amounts, SetLimit(limit) PROVE StaleDecision
  BY <1>11 DEF SetLimit
<1>. QED  BY <1>2, <1>3, <1>4, <1>5, <1>6, <1>7, <1>8, <1>9, <1>10, <1>11 DEF Next

-----------------------------------------------------------------------------
(* The money of a merchant. *)

\* What a request asks for was available when it asked.
AskedWithinReach ==
    \A r \in Requests : mRequest[r] # None => mRequest[r].amount <= mRequest[r].available

SettlementInv ==
    Settlement!TypeOK /\ Settlement!PayoutFactsTellTheRow /\ AskedWithinReach

Amount == [o \in Payouts |-> IF mPayout[o] # None THEN mPayout[o].amount ELSE 0]

\* The sums of MerchantSettlement are the same sums.
LEMMA SameSum ==
    ASSUME NEW f, NEW S
    PROVE  Settlement!SumFunctionOnSet(f, S) = SumFunctionOnSet(f, S)
  BY DEF Settlement!SumFunctionOnSet, Settlement!FoldFunctionOnSet, Settlement!MapThenFoldSet,
         SumFunctionOnSet, FoldFunctionOnSet, MapThenFoldSet

LEMMA AskedForIsASum == ASSUME NEW open PROVE Settlement!AskedFor(open) = SumFunctionOnSet(Amount, open)
<1>1. Settlement!AskedFor(open) = Settlement!SumFunctionOnSet(Amount, open)
  BY Zenon DEF Settlement!AskedFor, Settlement!Made, Amount
<1>. QED  BY <1>1, SameSum

LEMMA OnwardIsTransitive ==
    /\ \A s, t, u : t \in Settlement!OnwardOf(s) /\ u \in Settlement!OnwardOf(t)
           => u \in Settlement!OnwardOf(s)
    /\ \A s : "REQUESTED" \notin Settlement!OnwardOf(s)
    /\ \A s : Settlement!OnwardOf(s) \subseteq {"APPROVED", "REJECTED"}
    /\ \A s : Settlement!OnwardOf(s) # {} => s \in {"REQUESTED", "APPROVED"}
  BY DEF Settlement!OnwardOf

\* What the balance is made of.
LEMMA BalanceIsInt ==
    ASSUME Settlement!TypeOK
    PROVE  /\ Settlement!Balance \in Int
           /\ SumFunctionOnSet(GoodsAmount, mCollected) \in Int
           /\ \A open \in SUBSET Payouts : SumFunctionOnSet(Amount, open) \in Int
           /\ Settlement!Committed \in Int
           /\ Settlement!Available \in Nat
<1>. DEFINE Owing == [p \in Parcels |-> RefusalFee * mCharges[p] + mRefunds[p]]
<1>1. SumFunctionOnSet(GoodsAmount, mCollected) \in Int
  <2>1. IsFiniteSet(mCollected) /\ mCollected \subseteq Parcels
    BY CashConstants, FS_Subset DEF Settlement!TypeOK
  <2>2. \A p \in mCollected : GoodsAmount[p] \in Int
    BY <2>1, SettlementConstants
  <2>. QED  BY <2>1, <2>2, SumIsInt
<1>2. SumFunctionOnSet(Owing, Parcels) \in Int
  <2>1. ASSUME NEW p \in Parcels PROVE Owing[p] \in Int
    <3>1. mCharges[p] \in 0 .. MaxCharges /\ mRefunds[p] \in 0 .. MaxRefunds
      BY DEF Settlement!TypeOK
    <3>2. mCharges[p] \in Nat /\ mRefunds[p] \in Nat /\ RefusalFee \in Nat
      BY <3>1, SettlementConstants
    <3>. QED  BY <3>2
  <2>2. IsFiniteSet(Parcels)
    BY CashConstants
  <2>. HIDE DEF Owing
  <2>. QED  BY <2>1, <2>2, SumIsInt
<1>3. Settlement!Balance \in Int
  <2>1. Settlement!Balance = Settlement!SumFunctionOnSet(GoodsAmount, mCollected)
                             - Settlement!SumFunctionOnSet(Owing, Parcels)
    BY Zenon DEF Settlement!Balance
  <2>. HIDE DEF Owing
  <2>. QED  BY <1>1, <1>2, <2>1, SameSum
<1>4. ASSUME NEW open \in SUBSET Payouts PROVE SumFunctionOnSet(Amount, open) \in Int
  <2>1. IsFiniteSet(open)
    BY SettlementConstants, FS_Subset
  <2>2. \A o \in open : Amount[o] \in Int
    <3>1. ASSUME NEW o \in open, mPayout[o] # None PROVE mPayout[o].amount \in Int
      <4>1. mPayout[o] \in Settlement!PayoutRow
        BY <3>1 DEF Settlement!TypeOK
      <4>2. mPayout[o].amount \in Amounts
        BY <4>1 DEF Settlement!PayoutRow
      <4>3. \A a \in Amounts : a \in Int
        BY CashConstants
      <4>. QED  BY <4>2, <4>3
    <3>. QED  BY <3>1 DEF Amount
  <2>. QED  BY <2>1, <2>2, SumIsInt
<1>5. Settlement!Committed \in Int
  <2>1. {o \in Payouts : Settlement!IsOpen(o)} \in SUBSET Payouts
    OBVIOUS
  <2>. QED  BY <1>4, <2>1, AskedForIsASum DEF Settlement!Committed
<1>6. Settlement!Available \in Nat
  BY <1>3, <1>5 DEF Settlement!Available
<1>. QED  BY <1>1, <1>3, <1>4, <1>5, <1>6

LEMMA SettlementInit == Settlement!Init => SettlementInv
<1>. SUFFICES ASSUME Settlement!Init PROVE SettlementInv
  OBVIOUS
<1>1. Settlement!TypeOK
  <2>1. 0 \in 0 .. MaxCharges /\ 0 \in 0 .. MaxRefunds
    BY SettlementConstants
  <2>. QED  BY <2>1 DEF Settlement!Init, Settlement!TypeOK
<1>2. Settlement!PayoutFactsTellTheRow
  BY DEF Settlement!Init, Settlement!PayoutFactsTellTheRow, Settlement!Made
<1>3. AskedWithinReach
  BY DEF Settlement!Init, AskedWithinReach
<1>. QED  BY <1>1, <1>2, <1>3 DEF SettlementInv

\* A step that writes no payout and tells nothing.
LEMMA SettlementKept ==
    ASSUME SettlementInv, UNCHANGED <<mPayout, mFacts>>
    PROVE  Settlement!PayoutFactsTellTheRow'
  BY DEF SettlementInv, Settlement!PayoutFactsTellTheRow, Settlement!Made, Settlement!Tell

LEMMA JournalHolds ==
    ASSUME SettlementInv, NEW p \in Parcels,
           \/ Settlement!RecordCollection(p) \/ Settlement!ChargeForRefusal(p)
           \/ Settlement!RecogniseRefund(p)
    PROVE  SettlementInv'
<1>1. UNCHANGED <<mPayout, mBlocked, mFacts, mRequest>>
  BY DEF Settlement!RecordCollection, Settlement!ChargeForRefusal, Settlement!RecogniseRefund
<1>2. /\ mCollected' \subseteq Parcels
      /\ mCharges' \in [Parcels -> 0 .. MaxCharges] /\ mRefunds' \in [Parcels -> 0 .. MaxRefunds]
  <2>1. /\ mCollected \subseteq Parcels /\ mCharges \in [Parcels -> 0 .. MaxCharges]
        /\ mRefunds \in [Parcels -> 0 .. MaxRefunds]
    BY DEF SettlementInv, Settlement!TypeOK
  <2>2. /\ mCharges[p] \in Nat /\ mRefunds[p] \in Nat
        /\ MaxCharges \in Nat /\ MaxRefunds \in Nat
    BY <2>1, SettlementConstants
  <2>3. CASE Settlement!RecordCollection(p)
    BY <2>1, <2>3 DEF Settlement!RecordCollection
  <2>4. CASE Settlement!ChargeForRefusal(p)
    BY <2>1, <2>2, <2>4 DEF Settlement!ChargeForRefusal
  <2>5. CASE Settlement!RecogniseRefund(p)
    BY <2>1, <2>2, <2>5 DEF Settlement!RecogniseRefund
  <2>. QED  BY <2>3, <2>4, <2>5
<1>3. Settlement!TypeOK'
  BY <1>1, <1>2 DEF SettlementInv, Settlement!TypeOK
<1>. QED  BY <1>1, <1>3, SettlementKept DEF SettlementInv, AskedWithinReach

LEMMA ReadBalanceHolds ==
    ASSUME SettlementInv, NEW r \in Requests, NEW a \in Amounts, Settlement!ReadBalance(r, a)
    PROVE  SettlementInv'
<1>. DEFINE new == [amount |-> a, available |-> Settlement!Available]
<1>1. /\ a <= Settlement!Available /\ mRequest' = [mRequest EXCEPT ![r] = new]
      /\ UNCHANGED <<mCollected, mCharges, mRefunds, mPayout, mBlocked, mFacts>>
  BY DEF Settlement!ReadBalance, Settlement!journal
<1>2. new \in Settlement!Asked /\ new.amount <= new.available
  BY <1>1, BalanceIsInt DEF SettlementInv, Settlement!Asked
<1>. HIDE DEF new
<1>3. Settlement!TypeOK' /\ AskedWithinReach'
  BY <1>1, <1>2 DEF SettlementInv, Settlement!TypeOK, AskedWithinReach
<1>. QED  BY <1>1, <1>3, SettlementKept DEF SettlementInv

LEMMA RequestPayoutHolds ==
    ASSUME SettlementInv, NEW r \in Requests, NEW o \in Payouts, Settlement!RequestPayout(r, o)
    PROVE  SettlementInv'
<1>. DEFINE new  == [amount |-> mRequest[r].amount, status |-> "REQUESTED", version |-> 1]
            fact == [payout |-> o, kind |-> "REQUESTED", version |-> 1]
<1>1. /\ mRequest[r] # None /\ mPayout[o] = None
      /\ mPayout' = [mPayout EXCEPT ![o] = new] /\ mFacts' = mFacts \cup {fact}
      /\ mRequest' = [mRequest EXCEPT ![r] = None]
      /\ UNCHANGED <<mCollected, mCharges, mRefunds, mBlocked>>
  BY DEF Settlement!RequestPayout, Settlement!Made, Settlement!Tell, Settlement!journal
<1>2. mRequest[r].amount \in Amounts
  BY <1>1 DEF SettlementInv, Settlement!TypeOK, Settlement!Asked
<1>3. /\ new \in Settlement!PayoutRow /\ new # None
      /\ new.status = "REQUESTED" /\ new.version = 1
      /\ fact \in [payout: Payouts, kind: {"REQUESTED", "APPROVED", "REJECTED"}, version: Nat]
      /\ fact.payout = o /\ fact.version = 1
  BY <1>2, SettlementConstants DEF Settlement!PayoutRow
<1>4. fact = Settlement!Tell(o, new.status, new.version)
  BY <1>3 DEF Settlement!Tell
<1>. HIDE DEF new, fact
<1>5. Settlement!TypeOK' /\ AskedWithinReach'
  BY <1>1, <1>3 DEF SettlementInv, Settlement!TypeOK, AskedWithinReach
<1>6. \A f \in mFacts : f.payout # o
  BY <1>1 DEF SettlementInv, Settlement!PayoutFactsTellTheRow, Settlement!Made
<1>7. ASSUME NEW c \in Payouts
      PROVE  LET told == {f \in mFacts' : f.payout = c}
             IN  IF mPayout'[c] = None THEN told = {}
                 ELSE /\ Settlement!Tell(c, mPayout'[c].status, mPayout'[c].version) \in told
                      /\ {f.version : f \in told} = 1 .. mPayout'[c].version
                      /\ \A f, g \in told :
                            f.version < g.version => g.kind \in Settlement!OnwardOf(f.kind)
  <2>1. CASE c = o
    <3>1. {f \in mFacts' : f.payout = c} = {fact}
      BY <1>1, <1>3, <1>6, <2>1
    <3>2. mPayout'[c] = new
      BY <1>1, <2>1 DEF SettlementInv, Settlement!TypeOK
    <3>3. 1 .. 1 = {1}
      OBVIOUS
    <3>. QED  BY <1>3, <1>4, <2>1, <3>1, <3>2, <3>3
  <2>2. CASE c # o
    <3>1. {f \in mFacts' : f.payout = c} = {f \in mFacts : f.payout = c}
      BY <1>1, <1>3, <2>2
    <3>2. mPayout'[c] = mPayout[c]
      BY <1>1, <2>2 DEF SettlementInv, Settlement!TypeOK
    <3>. QED  BY <3>1, <3>2 DEF SettlementInv, Settlement!PayoutFactsTellTheRow, Settlement!Made
  <2>. QED  BY <2>1, <2>2
<1>8. \A f, g \in mFacts' : f.payout = g.payout /\ f.version = g.version => f = g
  BY <1>1, <1>3, <1>6 DEF SettlementInv, Settlement!PayoutFactsTellTheRow
<1>9. Settlement!PayoutFactsTellTheRow'
  BY <1>7, <1>8 DEF Settlement!PayoutFactsTellTheRow, Settlement!Made, Settlement!Tell
<1>. QED  BY <1>5, <1>9 DEF SettlementInv

LEMMA PayoutDecided ==
    ASSUME SettlementInv, NEW o \in Payouts, NEW target, Settlement!Decide(o, target)
    PROVE  /\ mPayout[o] # None /\ mPayout[o] \in Settlement!PayoutRow
           /\ target \in Settlement!OnwardOf(mPayout[o].status)
           /\ \E new \in Settlement!PayoutRow :
                 /\ new # None /\ new.amount = mPayout[o].amount
                 /\ new.status = target /\ new.version = mPayout[o].version + 1
                 /\ mPayout' = [mPayout EXCEPT ![o] = new]
           /\ mFacts' = mFacts \cup {Settlement!Tell(o, target, mPayout[o].version + 1)}
           /\ UNCHANGED <<mCollected, mCharges, mRefunds, mBlocked, mRequest>>
<1>1. /\ mPayout[o] # None /\ target \in Settlement!OnwardOf(mPayout[o].status)
      /\ mPayout' = [mPayout EXCEPT ![o].status = target, ![o].version = @ + 1]
      /\ mFacts' = mFacts \cup {Settlement!Tell(o, target, mPayout[o].version + 1)}
      /\ UNCHANGED <<mCollected, mCharges, mRefunds, mBlocked, mRequest>>
  BY DEF Settlement!Decide, Settlement!Made, Settlement!Decided, Settlement!journal
<1>2. mPayout[o] \in Settlement!PayoutRow /\ mPayout \in [Payouts -> Settlement!PayoutRow \cup {None}]
  BY <1>1 DEF SettlementInv, Settlement!TypeOK
<1>. DEFINE new == [amount |-> mPayout[o].amount, status |-> target,
                    version |-> mPayout[o].version + 1]
<1>3. mPayout' = [mPayout EXCEPT ![o] = new]
  BY <1>1, <1>2 DEF Settlement!PayoutRow
<1>4. target \in {"APPROVED", "REJECTED"}
  BY <1>1, OnwardIsTransitive
<1>5. new \in Settlement!PayoutRow
  BY <1>2, <1>4 DEF Settlement!PayoutRow
<1>6. new # None
  BY <1>5, SettlementConstants
<1>. QED  BY <1>1, <1>2, <1>3, <1>5, <1>6

LEMMA DecideHolds ==
    ASSUME SettlementInv, NEW o \in Payouts, NEW target, Settlement!Decide(o, target)
    PROVE  SettlementInv'
<1>. DEFINE fact == Settlement!Tell(o, target, mPayout[o].version + 1)
            told == {f \in mFacts : f.payout = o}
<1>1. /\ mPayout[o] # None /\ mPayout[o] \in Settlement!PayoutRow
      /\ target \in Settlement!OnwardOf(mPayout[o].status)
      /\ mFacts' = mFacts \cup {fact}
      /\ UNCHANGED <<mCollected, mCharges, mRefunds, mBlocked, mRequest>>
  BY PayoutDecided
<1>2. PICK new \in Settlement!PayoutRow :
          /\ new # None /\ new.status = target /\ new.version = mPayout[o].version + 1
          /\ mPayout' = [mPayout EXCEPT ![o] = new]
  BY PayoutDecided
<1>3. /\ fact.payout = o /\ fact.kind = target /\ fact.version = mPayout[o].version + 1
      /\ mPayout[o].version \in Nat
      /\ fact = Settlement!Tell(o, new.status, new.version)
  BY <1>1, <1>2 DEF Settlement!Tell, Settlement!PayoutRow
<1>4. fact \in [payout: Payouts, kind: {"REQUESTED", "APPROVED", "REJECTED"}, version: Nat]
  BY <1>1, <1>3, OnwardIsTransitive DEF Settlement!Tell
<1>. HIDE DEF fact
<1>5. Settlement!TypeOK'
  BY <1>1, <1>2, <1>4 DEF SettlementInv, Settlement!TypeOK
<1>6. AskedWithinReach'
  BY <1>1 DEF SettlementInv, AskedWithinReach
<1>7. /\ Settlement!Tell(o, mPayout[o].status, mPayout[o].version) \in told
      /\ {f.version : f \in told} = 1 .. mPayout[o].version
      /\ \A f, g \in told : f.version < g.version => g.kind \in Settlement!OnwardOf(f.kind)
      /\ \A f, g \in mFacts : f.payout = g.payout /\ f.version = g.version => f = g
  BY <1>1 DEF SettlementInv, Settlement!PayoutFactsTellTheRow, Settlement!Made
<1>8. \A f \in told : f.version \in Nat /\ f.version <= mPayout[o].version
  <2>1. \A f \in told : f.version \in 1 .. mPayout[o].version
    BY <1>7
  <2>. QED  BY <1>3, <2>1
<1>9. ASSUME NEW f \in told PROVE target \in Settlement!OnwardOf(f.kind)
  <2>. DEFINE last == Settlement!Tell(o, mPayout[o].status, mPayout[o].version)
  <2>1. last \in told /\ last.kind = mPayout[o].status /\ last.version = mPayout[o].version
    BY <1>7 DEF Settlement!Tell
  <2>2. CASE f.version = last.version
    <3>1. f = last
      BY <1>7, <2>1, <2>2
    <3>. QED  BY <1>1, <2>1, <3>1
  <2>3. CASE f.version < last.version
    BY <1>1, <1>7, <2>1, <2>3, OnwardIsTransitive
  <2>. HIDE DEF last
  <2>. QED  BY <1>3, <1>8, <2>1, <2>2, <2>3
<1>. HIDE DEF told
<1>10. ASSUME NEW c \in Payouts
       PROVE  LET said == {f \in mFacts' : f.payout = c}
              IN  IF mPayout'[c] = None THEN said = {}
                  ELSE /\ Settlement!Tell(c, mPayout'[c].status, mPayout'[c].version) \in said
                       /\ {f.version : f \in said} = 1 .. mPayout'[c].version
                       /\ \A f, g \in said :
                             f.version < g.version => g.kind \in Settlement!OnwardOf(f.kind)
  <2>1. CASE c = o
    <3>1. {f \in mFacts' : f.payout = c} = told \cup {fact}
      BY <1>1, <1>3, <2>1 DEF told
    <3>2. mPayout'[c] = new
      BY <1>2, <2>1 DEF SettlementInv, Settlement!TypeOK
    <3>3. {f.version : f \in told \cup {fact}} = 1 .. new.version
      <4>1. {f.version : f \in told \cup {fact}} = {f.version : f \in told} \cup {fact.version}
        OBVIOUS
      <4>2. 1 .. (mPayout[o].version + 1) = (1 .. mPayout[o].version) \cup {mPayout[o].version + 1}
        BY <1>3
      <4>. QED  BY <1>2, <1>3, <1>7, <4>1, <4>2
    <3>4. ASSUME NEW f \in told \cup {fact}, NEW g \in told \cup {fact}, f.version < g.version
          PROVE  g.kind \in Settlement!OnwardOf(f.kind)
      <4>1. CASE f \in told /\ g \in told
        BY <1>7, <3>4, <4>1
      <4>2. CASE f \in told /\ g = fact
        BY <1>3, <1>9, <4>2
      <4>3. f # fact
        BY <1>3, <1>8, <3>4
      <4>. QED  BY <4>1, <4>2, <4>3
    <3>. QED  BY <1>2, <1>3, <2>1, <3>1, <3>2, <3>3, <3>4
  <2>2. CASE c # o
    <3>1. {f \in mFacts' : f.payout = c} = {f \in mFacts : f.payout = c}
      BY <1>1, <1>3, <2>2
    <3>2. mPayout'[c] = mPayout[c]
      BY <1>2, <2>2 DEF SettlementInv, Settlement!TypeOK
    <3>. QED  BY <3>1, <3>2 DEF SettlementInv, Settlement!PayoutFactsTellTheRow, Settlement!Made
  <2>. QED  BY <2>1, <2>2
<1>11. ASSUME NEW f \in mFacts', NEW g \in mFacts', f.payout = g.payout, f.version = g.version
       PROVE  f = g
  <2>1. ASSUME NEW h \in mFacts, h.payout = o PROVE h.version # fact.version
    <3>1. h \in told
      BY <2>1 DEF told
    <3>. QED  BY <1>3, <1>8, <3>1
  <2>. QED  BY <1>1, <1>3, <1>7, <1>11, <2>1
<1>12. Settlement!PayoutFactsTellTheRow'
  BY <1>10, <1>11 DEF Settlement!PayoutFactsTellTheRow, Settlement!Made, Settlement!Tell
<1>. QED  BY <1>5, <1>6, <1>12 DEF SettlementInv

LEMMA SettlementStep == SettlementInv /\ [Settlement!Next]_mVars => SettlementInv'
<1>. SUFFICES ASSUME SettlementInv, [Settlement!Next]_mVars PROVE SettlementInv'
  OBVIOUS
<1>1. CASE UNCHANGED mVars
  BY <1>1, SettlementKept DEF mVars, SettlementInv, Settlement!TypeOK, AskedWithinReach
<1>2. ASSUME NEW hold \in BOOLEAN, Settlement!BlockPayouts(hold) PROVE SettlementInv'
  BY <1>2, SettlementKept
     DEF Settlement!BlockPayouts, Settlement!journal, SettlementInv, Settlement!TypeOK, AskedWithinReach
<1>3. ASSUME NEW o \in Payouts, Settlement!ApprovePayout(o) \/ Settlement!RejectPayout(o)
      PROVE  SettlementInv'
  BY <1>3, DecideHolds DEF Settlement!ApprovePayout, Settlement!RejectPayout
<1>. QED
  BY <1>1, <1>2, <1>3, JournalHolds, ReadBalanceHolds, RequestPayoutHolds DEF Settlement!Next

\* The payouts that count against the balance.
Live == {o \in Payouts : mPayout[o] # None /\ mPayout[o].status # "REJECTED"}

LEMMA OvercommittedIs ==
    /\ Settlement!Overcommitted <=> SumFunctionOnSet(Amount, Live) > Settlement!Balance
    /\ Settlement!Overcommitted' <=> SumFunctionOnSet(Amount', Live') > Settlement!Balance'
<1>1. Settlement!Overcommitted <=> Settlement!SumFunctionOnSet(Amount, Live) > Settlement!Balance
  BY Zenon DEF Settlement!Overcommitted, Settlement!AskedFor, Settlement!Made, Amount, Live
<1>2. Settlement!Overcommitted'
         <=> Settlement!SumFunctionOnSet(Amount', Live') > Settlement!Balance'
  BY Zenon DEF Settlement!Overcommitted, Settlement!AskedFor, Settlement!Made, Amount, Live
<1>. QED  BY <1>1, <1>2, SameSum

LEMMA AmountsAreNats ==
    ASSUME SettlementInv
    PROVE  /\ \A o \in Payouts : Amount[o] \in Nat
           /\ Live \subseteq Payouts /\ IsFiniteSet(Live)
           /\ SumFunctionOnSet(Amount, Live) \in Int
           /\ Settlement!Committed = SumFunctionOnSet(Amount, Live)
<1>1. ASSUME NEW o \in Payouts PROVE Amount[o] \in Nat
  <2>1. CASE mPayout[o] # None
    <3>1. mPayout[o] \in Settlement!PayoutRow
      BY <2>1 DEF SettlementInv, Settlement!TypeOK
    <3>2. mPayout[o].amount \in Amounts
      BY <3>1 DEF Settlement!PayoutRow
    <3>3. \A a \in Amounts : a \in Nat
      BY CashConstants
    <3>. QED  BY <2>1, <3>2, <3>3 DEF Amount
  <2>2. CASE mPayout[o] = None
    BY <2>2 DEF Amount
  <2>. QED  BY <2>1, <2>2
<1>2. Live \subseteq Payouts /\ IsFiniteSet(Live)
  BY SettlementConstants, FS_Subset DEF Live
<1>3. SumFunctionOnSet(Amount, Live) \in Int
  BY <1>2, BalanceIsInt DEF SettlementInv
<1>4. {o \in Payouts : Settlement!IsOpen(o)} = Live
  BY DEF Live, Settlement!IsOpen, Settlement!Made, SettlementInv, Settlement!TypeOK, Settlement!PayoutRow
<1>5. Settlement!Committed = SumFunctionOnSet(Amount, Live)
  BY <1>4, AskedForIsASum DEF Settlement!Committed
<1>. QED  BY <1>1, <1>2, <1>3, <1>5

\* What is paid in raises the balance.
LEMMA EarningRaises ==
    ASSUME SettlementInv, NEW p \in Parcels, Settlement!RecordCollection(p)
    PROVE  Settlement!Balance' \in Int /\ Settlement!Balance' >= Settlement!Balance
<1>1. /\ p \notin mCollected /\ mCollected' = mCollected \cup {p} /\ mCollected \subseteq Parcels
      /\ mCharges' = mCharges /\ mRefunds' = mRefunds
  BY DEF Settlement!RecordCollection, SettlementInv, Settlement!TypeOK
<1>. DEFINE Owing == [o \in Parcels |-> RefusalFee * mCharges[o] + mRefunds[o]]
<1>2. /\ Settlement!Balance = Settlement!SumFunctionOnSet(GoodsAmount, mCollected)
                              - Settlement!SumFunctionOnSet(Owing, Parcels)
      /\ Settlement!Balance' = Settlement!SumFunctionOnSet(GoodsAmount, mCollected')
                               - Settlement!SumFunctionOnSet(Owing', Parcels)
  BY Zenon DEF Settlement!Balance
<1>3. Owing' = Owing
  BY <1>1
<1>. HIDE DEF Owing
<1>4. SumFunctionOnSet(GoodsAmount, mCollected')
        = GoodsAmount[p] + SumFunctionOnSet(GoodsAmount, mCollected)
  <2>1. IsFiniteSet(mCollected') /\ \A o \in mCollected' : GoodsAmount[o] \in Int
    <3>1. mCollected' \subseteq Parcels
      BY <1>1
    <3>2. \A o \in Parcels : GoodsAmount[o] \in Int
      BY SettlementConstants
    <3>. QED  BY <3>1, <3>2, CashConstants, FS_Subset
  <2>2. p \in mCollected' /\ mCollected' \ {p} = mCollected
    BY <1>1
  <2>. QED  BY <2>1, <2>2, SumTakeOut
<1>5. GoodsAmount[p] \in Nat
  BY SettlementConstants
<1>6. Settlement!Balance \in Int /\ SumFunctionOnSet(GoodsAmount, mCollected) \in Int
  BY BalanceIsInt DEF SettlementInv
<1>. DEFINE earned == SumFunctionOnSet(GoodsAmount, mCollected)
            owed   == SumFunctionOnSet(Owing, Parcels)
<1>7. Settlement!Balance = earned - owed /\ Settlement!Balance' = (GoodsAmount[p] + earned) - owed
  BY <1>2, <1>3, <1>4, SameSum
<1>8. owed \in Int
  <2>1. ASSUME NEW o \in Parcels PROVE Owing[o] \in Int
    <3>1. mCharges[o] \in 0 .. MaxCharges /\ mRefunds[o] \in 0 .. MaxRefunds
      BY DEF SettlementInv, Settlement!TypeOK
    <3>2. mCharges[o] \in Nat /\ mRefunds[o] \in Nat /\ RefusalFee \in Nat
      BY <3>1, SettlementConstants
    <3>. QED  BY <3>2 DEF Owing
  <2>2. IsFiniteSet(Parcels)
    BY CashConstants
  <2>. QED  BY <2>1, <2>2, SumIsInt
<1>9. earned \in Int
  BY <1>6
<1>. HIDE DEF earned, owed
<1>. QED  BY <1>5, <1>7, <1>8, <1>9

\* A payout adds what its request asked.
LEMMA PayoutAdds ==
    ASSUME SettlementInv, NEW r \in Requests, NEW o \in Payouts, Settlement!RequestPayout(r, o)
    PROVE  /\ mRequest[r].amount \in Nat
           /\ SumFunctionOnSet(Amount', Live')
                = mRequest[r].amount + SumFunctionOnSet(Amount, Live)
<1>. DEFINE new == [amount |-> mRequest[r].amount, status |-> "REQUESTED", version |-> 1]
<1>1. mRequest[r] # None /\ mPayout[o] = None /\ mPayout' = [mPayout EXCEPT ![o] = new]
  BY DEF Settlement!RequestPayout, Settlement!Made
<1>2. mRequest[r].amount \in Amounts
  BY <1>1 DEF SettlementInv, Settlement!TypeOK, Settlement!Asked
<1>3. mRequest[r].amount \in Nat
  BY <1>2, CashConstants
<1>4. new # None /\ new.amount = mRequest[r].amount /\ new.status = "REQUESTED"
  BY <1>2, SettlementConstants DEF Settlement!PayoutRow
<1>. HIDE DEF new
<1>5. mPayout'[o] = new /\ \A c \in Payouts : c # o => mPayout'[c] = mPayout[c]
  BY <1>1 DEF SettlementInv, Settlement!TypeOK
<1>6. Live' = Live \cup {o} /\ o \notin Live
  BY <1>1, <1>4, <1>5 DEF Live
<1>7. Amount'[o] = mRequest[r].amount /\ \A c \in Live : Amount'[c] = Amount[c]
  BY <1>4, <1>5, <1>6 DEF Amount, Live
<1>8. /\ IsFiniteSet(Live) /\ IsFiniteSet(Live') /\ Live \subseteq Payouts
      /\ \A c \in Payouts : Amount[c] \in Nat
  BY <1>6, AmountsAreNats, FS_AddElement
<1>9. \A c \in Live' : Amount'[c] \in Int
  BY <1>3, <1>6, <1>7, <1>8
<1>10. o \in Live' /\ Live' \ {o} = Live
  BY <1>6
<1>11. SumFunctionOnSet(Amount', Live') = Amount'[o] + SumFunctionOnSet(Amount', Live)
  BY <1>8, <1>9, <1>10, SumTakeOut
<1>12. SumFunctionOnSet(Amount', Live) = SumFunctionOnSet(Amount, Live)
  BY <1>7, <1>8, SumSame
<1>. QED  BY <1>3, <1>7, <1>11, <1>12

\* A decision adds nothing.
LEMMA DecisionAddsNothing ==
    ASSUME SettlementInv, NEW o \in Payouts, NEW target, Settlement!Decide(o, target)
    PROVE  /\ SumFunctionOnSet(Amount', Live') \in Int
           /\ SumFunctionOnSet(Amount', Live') <= SumFunctionOnSet(Amount, Live)
<1>1. mPayout[o] # None /\ target \in Settlement!OnwardOf(mPayout[o].status)
  BY PayoutDecided
<1>2. PICK new \in Settlement!PayoutRow :
          /\ new # None /\ new.amount = mPayout[o].amount /\ new.status = target
          /\ mPayout' = [mPayout EXCEPT ![o] = new]
  BY PayoutDecided
<1>3. mPayout'[o] = new /\ \A c \in Payouts : c # o => mPayout'[c] = mPayout[c]
  BY <1>2 DEF SettlementInv, Settlement!TypeOK
<1>4. Amount' = Amount
  BY <1>1, <1>2, <1>3 DEF Amount
<1>5. mPayout[o].status \in {"REQUESTED", "APPROVED"}
  BY <1>1, OnwardIsTransitive
<1>6. Live' \in SUBSET Live
  BY <1>1, <1>3, <1>5 DEF Live
<1>7. IsFiniteSet(Live) /\ \A c \in Live : Amount[c] \in Nat
  BY AmountsAreNats
<1>8. SumFunctionOnSet(Amount, Live') \in Int
  <2>1. IsFiniteSet(Live') /\ \A c \in Live' : Amount[c] \in Int
    BY <1>6, <1>7, FS_Subset
  <2>. QED  BY <2>1, SumIsInt
<1>. QED  BY <1>4, <1>6, <1>7, <1>8, SumGrows

MovedUnderIt ==
    \/ UNCHANGED mPayout /\ (mCharges' # mCharges \/ mRefunds' # mRefunds)
    \/ \E r \in Requests : /\ mRequest[r] # None /\ mRequest'[r] = None
                           /\ Settlement!Available < mRequest[r].available

LEMMA OnlyMovedOvercommits ==
    ASSUME SettlementInv, [Settlement!Next]_mVars,
           <<Settlement!journal, mPayout>>' # <<Settlement!journal, mPayout>>,
           ~ Settlement!Overcommitted, Settlement!Overcommitted'
    PROVE  MovedUnderIt
<1>1. /\ Settlement!Balance \in Int /\ SumFunctionOnSet(Amount, Live) \in Int
      /\ SumFunctionOnSet(Amount, Live) <= Settlement!Balance
  BY OvercommittedIs, BalanceIsInt, AmountsAreNats DEF SettlementInv
<1>2. SumFunctionOnSet(Amount', Live') > Settlement!Balance'
  BY OvercommittedIs
<1>3. CASE UNCHANGED mVars
  BY <1>3 DEF mVars, Settlement!journal
<1>4. ASSUME NEW p \in Parcels, Settlement!RecordCollection(p) PROVE MovedUnderIt
  <2>1. Amount' = Amount /\ Live' = Live
    BY <1>4 DEF Settlement!RecordCollection, Amount, Live
  <2>2. Settlement!Balance' \in Int /\ Settlement!Balance' >= Settlement!Balance
    BY <1>4, EarningRaises
  <2>. QED  BY <1>1, <1>2, <2>1, <2>2
<1>5. ASSUME NEW p \in Parcels, Settlement!ChargeForRefusal(p) \/ Settlement!RecogniseRefund(p)
      PROVE  MovedUnderIt
  <2>1. UNCHANGED <<mPayout, mCollected>>
    BY <1>5 DEF Settlement!ChargeForRefusal, Settlement!RecogniseRefund
  <2>. QED  BY <2>1 DEF MovedUnderIt, Settlement!journal
<1>6. ASSUME NEW r \in Requests, NEW a \in Amounts, Settlement!ReadBalance(r, a)
      PROVE  MovedUnderIt
  BY <1>6 DEF Settlement!ReadBalance, Settlement!journal
<1>7. ASSUME NEW r \in Requests, NEW o \in Payouts, Settlement!RequestPayout(r, o)
      PROVE  MovedUnderIt
  <2>1. /\ mRequest[r].amount \in Nat
        /\ SumFunctionOnSet(Amount', Live') = mRequest[r].amount + SumFunctionOnSet(Amount, Live)
    BY <1>7, PayoutAdds
  <2>2. mRequest[r] # None /\ mRequest'[r] = None
    BY <1>7 DEF Settlement!RequestPayout, SettlementInv, Settlement!TypeOK
  <2>3. Settlement!Balance' = Settlement!Balance
    BY <1>7 DEF Settlement!RequestPayout, Settlement!journal, Settlement!Balance
  <2>4. Settlement!Available = Settlement!Balance - SumFunctionOnSet(Amount, Live)
    BY <1>1, AmountsAreNats DEF Settlement!Available
  <2>5. mRequest[r].amount <= mRequest[r].available /\ mRequest[r].available \in Nat
    BY <2>2 DEF SettlementInv, AskedWithinReach, Settlement!TypeOK, Settlement!Asked
  <2>6. Settlement!Available < mRequest[r].amount
    BY <1>1, <1>2, <2>1, <2>3, <2>4
  <2>7. Settlement!Available \in Int
    BY <1>1, <2>4
  <2>. QED  BY <2>1, <2>2, <2>5, <2>6, <2>7 DEF MovedUnderIt
<1>8. ASSUME NEW o \in Payouts, Settlement!ApprovePayout(o) \/ Settlement!RejectPayout(o)
      PROVE  MovedUnderIt
  <2>1. PICK target : Settlement!Decide(o, target)
    BY <1>8 DEF Settlement!ApprovePayout, Settlement!RejectPayout
  <2>2. /\ SumFunctionOnSet(Amount', Live') \in Int
        /\ SumFunctionOnSet(Amount', Live') <= SumFunctionOnSet(Amount, Live)
    BY <2>1, DecisionAddsNothing
  <2>3. Settlement!Balance' = Settlement!Balance
    BY <2>1 DEF Settlement!Decide, Settlement!journal, Settlement!Balance
  <2>. QED  BY <1>1, <1>2, <2>2, <2>3
<1>9. ASSUME NEW hold \in BOOLEAN, Settlement!BlockPayouts(hold) PROVE MovedUnderIt
  BY <1>9 DEF Settlement!BlockPayouts, Settlement!journal
<1>. QED  BY <1>3, <1>4, <1>5, <1>6, <1>7, <1>8, <1>9 DEF Settlement!Next

-----------------------------------------------------------------------------
\* For any number of parcels, deposits, counts and requests.
THEOREM CashInvariant == Spec => []IInv
<1>. QED  BY InitHolds, StepHolds, PTL DEF Spec

\* Rows and snapshots keep their shape; no expected amount is below zero.
THEOREM CashTypes == Spec => []TypeOK
<1>1. IInv => TypeOK
  BY DEF IInv
<1>. QED  BY <1>1, CashInvariant, PTL

\* Every posting has the row that explains it, once: no deposit is taken out,
\* verified or given back twice, whatever decisions race.
THEOREM LedgerIsExplained == Spec => []LedgerTellsRows
<1>1. IInv => LedgerTellsRows
  BY DEF IInv
<1>. QED  BY <1>1, CashInvariant, PTL

\* A parcel is paid through one confirmed hub deposit and announced once.
THEOREM ParcelsSettleOnce == Spec => []SettledOnce
<1>1. IInv => SettledOnce
  BY DEF IInv
<1>. QED  BY <1>1, CashInvariant, PTL

\* No two announcements of a breach carry the same version.
THEOREM BreachesInOrder == Spec => []BreachesAreOrdered
<1>1. IInv => BreachesAreOrdered
  BY DEF IInv
<1>. QED  BY <1>1, CashInvariant, PTL

\* Journal, rows and breaches agree, for any number of drivers' requests.
THEOREM CashBooksAgree == Spec => []BooksAgree
<1>1. LedgerTellsRows /\ SettledOnce /\ BreachesAreOrdered => BooksAgree
  BY DEF BooksAgree
<1>. QED  BY <1>1, LedgerIsExplained, ParcelsSettleOnce, BreachesInOrder, PTL

\* A deposit pays for no more parcels than its amount covers, from whatever
\* list it was confirmed.
THEOREM DepositsCover == Spec => []DepositCovers
<1>1. Init => DepositCovers
  BY DEF Init, DepositCovers, Made
<1>2. IInv /\ DepositCovers /\ [Next]_vars => DepositCovers'
  BY CoversHolds
<1>. QED  BY <1>1, <1>2, CashInvariant, PTL DEF Spec

\* Cash goes below zero only by a decision on what no longer held.
THEOREM StaleGoesNegative == Spec => OnlyStaleGoesNegative
<1>1. IInv /\ [Next]_vars =>
        [ledger' # ledger /\ Held' < 0 /\ Held' < Held =>
            \/ \E q \in Requests : request[q] # None /\ request'[q] = None
                                   /\ request[q].held > Held
            \/ \E r \in Counts : /\ count[r] # None /\ count'[r] # count[r]
                                 /\ count[r].expected > Held]_vars
  BY OnlyStaleLowers DEF StaleDecision
<1>. QED  BY <1>1, CashInvariant, PTL DEF Spec, OnlyStaleGoesNegative

-----------------------------------------------------------------------------
(* The service: a step of one half leaves the other alone. *)

LEMMA StepOfEither == [FinanceNext]_<<half, vars, mVars>> => [Next]_vars /\ [Settlement!Next]_mVars
  BY DEF FinanceNext

\* Both halves keep their invariants, and with them the service.
THEOREM FinanceInvariant == FinanceSpec => [](IInv /\ DepositCovers /\ SettlementInv)
<1>1. FinanceInit => IInv /\ DepositCovers /\ SettlementInv
  BY InitHolds, SettlementInit DEF FinanceInit, Init, DepositCovers, Made
<1>2. IInv /\ DepositCovers /\ SettlementInv /\ [FinanceNext]_<<half, vars, mVars>>
         => (IInv /\ DepositCovers /\ SettlementInv)'
  BY StepOfEither, StepHolds, CoversHolds, SettlementStep
<1>. QED  BY <1>1, <1>2, PTL DEF FinanceSpec

\* The tables of both halves keep their shape, for any constants.
THEOREM FinanceTypes == FinanceSpec => []TypesOK
<1>1. IInv /\ SettlementInv => TypesOK
  BY DEF IInv, SettlementInv, TypesOK
<1>. QED  BY <1>1, FinanceInvariant, PTL

\* What was announced of a payout is its history, whoever decides at once.
THEOREM PayoutsAreTold == FinanceSpec => []PayoutFactsTellTheRow
<1>1. SettlementInv => PayoutFactsTellTheRow
  BY DEF SettlementInv, PayoutFactsTellTheRow
<1>. QED  BY <1>1, FinanceInvariant, PTL

\* A merchant's payouts exceed the balance only where it moved under a request.
THEOREM MovedBalanceOvercommits == FinanceSpec => OnlyAMovedBalanceOvercommits
<1>1. SettlementInv /\ [FinanceNext]_<<half, vars, mVars>> =>
        [<<Settlement!journal, mPayout>>' # <<Settlement!journal, mPayout>>
         /\ ~Settlement!Overcommitted /\ Settlement!Overcommitted' =>
          \/ UNCHANGED mPayout /\ (mCharges' # mCharges \/ mRefunds' # mRefunds)
          \/ \E r \in Requests : /\ mRequest[r] # None /\ mRequest'[r] = None
                                 /\ Settlement!Available < mRequest[r].available]_Settlement!vars
  BY StepOfEither, OnlyMovedOvercommits DEF MovedUnderIt
<1>. QED
  BY <1>1, FinanceInvariant, PTL
     DEF FinanceSpec, OnlyAMovedBalanceOvercommits, Settlement!OnlyAMovedBalanceOvercommits
=============================================================================
