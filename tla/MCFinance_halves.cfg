\* Two collections, two deposits, a count and two requests in flight on each side.
SPECIFICATION FinanceSpec
CONSTANTS
    Parcels = {1, 2}
    Total <- Totals
    Deposits = {d1, d2}
    Methods = {"HUB_CASHIER", "EXCHANGE_OFFICE"}
    Amounts = {1, 2}
    Counts = {r1}
    Requests = {qA, qB}
    DefaultLimit = 1
    None = None
    MaxAccountVersion = 3
    GoodsAmount <- Goods
    RefusalFee = 1
    Payouts = {1, 2}
    MaxCharges = 2
    MaxRefunds = 1
SYMMETRY Symmetry
INVARIANTS
    TypesOK
    BooksAgree
    DepositCovers
    PayoutFactsTellTheRow
PROPERTIES
    OnlyStaleGoesNegative
    OnlyAMovedBalanceOvercommits
CHECK_DEADLOCK FALSE
