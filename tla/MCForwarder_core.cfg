CONSTANTS
    Face = {"a", "b"}
    Local = {"a"}
    LinkType <- AllP2p
    Name = {"/a"}
    Localhost = {}
    Localhop = {}
    RetxInitial = 1
    RetxMax = 1
    StrategyOf <- AllBestRoute
    Prefix <- MCPrefix
    Nonce = {1, 2}
    Lifetime = {1, 2}
    NextHopFaceId = {"none"}
    NoFace = "none"
    MustBeFresh = {FALSE}
    Freshness = {1}
    Route <- RouteEqual
    Permanent = {"a"}
    CsLimit = 1
    DnlLifetime = 3
    UnsolicitedPolicy = "drop-all"
    MaxTime = 2
SPECIFICATION Spec
INVARIANTS
    TypeOK
    EveryEntryHasTimer
    NoDanglingFaces
    PendingNotAbandoned
PROPERTIES
    FlowBalance
