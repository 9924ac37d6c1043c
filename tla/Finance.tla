------------------------------ MODULE Finance ------------------------------
(* The two halves of the finance service, the cash drivers hold and the     *)
(* money of a merchant.  They post to different accounts and neither reads  *)
(* the other's rows: a behaviour picks one at the start.                    *)
EXTENDS CashCustody

CONSTANTS GoodsAmount, RefusalFee, Payouts, MaxCharges, MaxRefunds  \* of MerchantSettlement

VARIABLES
    half,
    mCollected, mCharges, mRefunds, mPayout, mBlocked, mFacts, mRequest

Settlement == INSTANCE MerchantSettlement WITH
    collected <- mCollected, charges <- mCharges, refunds <- mRefunds,
    payout <- mPayout, blocked <- mBlocked, facts <- mFacts, request <- mRequest

ASSUME SettlementConstants ==
    /\ GoodsAmount \in [Parcels -> Nat]
    /\ RefusalFee \in Nat /\ MaxCharges \in Nat /\ MaxRefunds \in Nat
    /\ Payouts \subseteq Nat /\ IsFiniteSet(Payouts)
    /\ None \notin Settlement!PayoutRow /\ None \notin Settlement!Asked

mVars == <<mCollected, mCharges, mRefunds, mPayout, mBlocked, mFacts, mRequest>>

FinanceInit ==
    /\ half \in {"cash", "merchant"}
    /\ Init /\ Settlement!Init

FinanceNext ==
    /\ UNCHANGED half
    /\ \/ half = "cash" /\ Next /\ UNCHANGED mVars
       \/ half = "merchant" /\ Settlement!Next /\ UNCHANGED vars

FinanceSpec == FinanceInit /\ [][FinanceNext]_<<half, vars, mVars>>

-----------------------------------------------------------------------------
(* The properties of the halves; each module says what they mean. *)

(* Every variable keeps the shape of its table. *)
TypesOK == TypeOK /\ Settlement!TypeOK

(* MerchantSettlement: what was announced of a payout is what became of it. *)
PayoutFactsTellTheRow == Settlement!PayoutFactsTellTheRow

(* MerchantSettlement: payouts exceed the balance only if it moved since.   *)
OnlyAMovedBalanceOvercommits == Settlement!OnlyAMovedBalanceOvercommits
=============================================================================
