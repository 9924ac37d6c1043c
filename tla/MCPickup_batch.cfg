SPECIFICATION PickupSpec
CONSTANTS
    Attempts = {t1}
    Requests = {qA}
    Keys = {k1}
    Recoveries = {"CANCEL"}
    None = None
    MaxVersion = 2
    Challenges = {1, 2}
    Manifests = {1, 2}
    Identifiers = {"i1", "i2"}
    Senders = {"s1"}
    MaxGuesses = 2
    Sessions = {1, 2}
    Streams = {"s1"}
    Operations = {"o1", "o2", "o3"}
    Sequences = {1, 2}
    Batches <- SentTogether
    MaxRevision = 2
INVARIANT BatchesAreAnswered
CHECK_DEADLOCK FALSE
