CONSTANTS
    MAX_TOKENS = 2
    REFILL_MILLI_PER_SEC = 5
    Milli = 2
    SecondMs = 2
    MaxClock = 2
    Clients = {c1, c2}
    LinksPerClient = 2
    max_clients = 2
    U16Max = 3
    MaxHandshakes = 4
SPECIFICATION ServerSpec
INVARIANTS
    TableIsExact
    ForeignOnlyThroughReuse
    AdmissionBounded
