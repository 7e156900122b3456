CONSTANTS
    Face = {"a", "b", "c"}
    Local = {"a"}
    LinkType <- AllP2p
    Name = {"/a"}
    Localhost = {}
    Localhop = {}
    RetxInitial = 1
    RetxMax = 2
    StrategyOf <- AllMulticast
    Prefix <- MCPrefix
    Nonce = {1, 2}
    Lifetime = {2}
    NextHopFaceId = {"none", "b"}
    NoFace = "none"
    MustBeFresh = {FALSE}
    Freshness = {1}
    Route <- RouteBC
    Permanent = {"a", "b", "c"}
    CsLimit = 0
    DnlLifetime = 3
    UnsolicitedPolicy = "drop-all"
    MaxTime = 2
SPECIFICATION FairSpec
PROPERTIES
    DownstreamsAnswered
    PitDrains
