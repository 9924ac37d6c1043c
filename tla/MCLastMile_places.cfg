SPECIFICATION MCSpec
CONSTANTS
    Shipments = {"s1"}
    Drivers = {"d1", "d2"}
    Hubs = {"h1", "h2"}
    Accepts = {"a1", "a2"}
    Handovers = {"o1", "o3"}
    Scans = {"c1", "c2"}
    Keys = {"k1", "k2"}
    ShipmentOf <- OneShipment
    DriverOf <- RequestDriver
    HubOf <- ReceivingHub
    KeyOf <- KeyPerScan
    Rejects = {"c2"}
    Workers = {"wA", "wB"}
    None = None
    DropOffs = {1, 2, 3}
    Codes = {"c1", "c2"}
    Labels = {"l1", "l2"}
    Parcels = {"p1"}
    City <- ToTheSecond
    Routes <- OneRoad
    Consignments = {1, 2}
    Planned = {1}
    Stops = {1, 2}
    Terms <- CodeAsked
    MaxGuesses = 1
    MaxVersion <- CodeVersions
    MaxSwitches = 1
    MaxRegisters = 2
    MaxRestarts = 1
    Places = {"custody", "counter", "road", "door"}
INVARIANTS
    TypesOK
    RecordsTellCustody
    CounterIsInOrder
    ConsignmentsTellParcels
    HandedOverInOrder
    FactsTellTheVisit
PROPERTIES
    CustodyMovesForward
    OnlyADispatchFrees
    SettledAtTheDoor
CHECK_DEADLOCK FALSE
