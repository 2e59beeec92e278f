CONSTANTS
    Peers = {a, b}
    Relays = {"relay1", "relay2"}
    RelayLists <- NoneOrAll
    interval = 1
    deadline = 2
    total_deadline = 3
    MinBudget = 2
    Earlier = {a}
SPECIFICATION FairSpec
CHECK_DEADLOCK FALSE
INVARIANTS
    PathIsConfirmed
PROPERTIES
    AttemptReturns
