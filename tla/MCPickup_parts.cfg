\* Attempts with two requests in flight; the other parts as MCPickup bounds them.
SPECIFICATION PickupSpec
CONSTANTS
    Attempts = {t1, t2}
    Requests = {qA, qB}
    Keys = {k1, k2}
    Recoveries = {"REASSIGN", "CANCEL"}
    None = None
    MaxVersion = 7
    Challenges = {1, 2}
    Manifests = {1, 2}
    Identifiers = {"i1", "i2"}
    Senders = {"s1"}
    MaxGuesses = 2
    Sessions = {1, 2}
    Streams = {"s1"}
    Operations = {"o1", "o2", "o3"}
    Sequences = {1, 2}
    Batches <- SentTogether
    MaxRevision = 2
SYMMETRY Symmetry
INVARIANTS
    TypesOK
    RecoveriesAgree
    AcceptedOnce
    OneCeremonyOneAcceptance
    OneOpenSession
    StreamsKeepTheirOrder
PROPERTIES
    NothingIsTakenBack
    LapsedVerificationIsFinal
    OutcomesAreFinal
CHECK_DEADLOCK FALSE
