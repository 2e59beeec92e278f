SPECIFICATION HostSpec
CONSTANTS
    HostConfs = {"h1", "h2"}
    MaxServers = 1
    Watched = {l1, l2}
    MaxQueue = 2
    MaxChanges = 3
    Names = {"eth0", "wlan0", "lo"}
    Loopbacks = {"lo"}
    MaxHotplugs = 2
    Documents <- EditedDocuments
    MaxFaults = 3
    Methods = {"psk", "pubkey", "mtls"}
    Transcripts = {"h1", "h2"}
    Holders <- AuthClients
    allowed = {"s1"}
    psk = "right"
    ca <- Authority
    Lists <- RevocationLists
    MaxTime = 4
    MaxMade = 2
    Threads = {t1, t2}
    skew_window = 1
    CodeOf <- CodeTable
    MaxLogins = 4
CHECK_DEADLOCK FALSE
INVARIANTS
    ConfigurationKept
    RulesAreSound
    InterfacesAreKnown
    DevicesKeepContract
    RootEndsUnprivileged
    AnswerIsTheServers
    DocumentIsKept
    AdmittedIsEntitled
    AnswersAreRight
PROPERTIES
    ReloadIsSound
    StopIsCarriedOut
    ConnectionEnds
