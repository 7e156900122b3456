CONSTANTS
    Face = {"a", "b"}
    Local = {"a"}
    LinkType <- AdHocUpstream
    Name = {"/", "/l", "/h"}
    Localhost = {"/l"}
    Localhop = {"/h"}
    RetxInitial = 1
    RetxMax = 2
    StrategyOf <- V1AndMulticast
    Prefix <- MCPrefix
    Nonce = {1}
    Lifetime = {1}
    NextHopFaceId = {"none"}
    NoFace = "none"
    MustBeFresh = {TRUE}
    Freshness = {1, 2}
    Route <- RouteRootB
    Permanent = {"a", "b"}
    CsLimit = 1
    DnlLifetime = 2
    UnsolicitedPolicy = "admit-local"
    MaxTime = 1
SPECIFICATION Spec
INVARIANTS
    ScopeRespected
PROPERTIES
    NoncesRetire
