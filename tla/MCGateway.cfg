SPECIFICATION Spec
CONSTANTS
    a = a
    b = b
    anon = anon
    k1 = k1
    k2 = k2
    cn1 = cn1
    sub1 = sub1
    sec1 = sec1
    other = other
    None = None
    Unread = Unread
    Torn = Torn
    Missing = Missing
    MaxTime = 4
    Clients = {c1}
    Uris = {u1}
    Verifiers = {v1, v2}
    Codes = {x1, x2}
    Tokens = {t1, t2}
    CodeTTL = 1
    TokenTTL = 1
    MaxVersion = 2
    MaxWrites = 3
    MaxUpsets = 1
    Unusable = {1}
    Kids = {k1, k2}
    Agents = {a, b}
    Anonymous = anon
    Bindings <- MCBindings
    JwksTTL = 2
    MaxStale = 3
    MinRefresh = 2
    Identities <- MCIdentities
    MaxIdentities = 2
    MaxEvents = 1
    RefusalCodes <- MCRefusalCodes
    Settings <- MCSettings
    Traffic <- MCTraffic
    Bounds <- MCBounds
INVARIANTS
    GatewayTypeOK
    CodesMintOnce
    TokensAreConsented
    ServesWholeMaterial
    KeysAreFresh
    RefusalsAreExcused
    ReportsTheLatest
    EvaluatedAsProven
    CompleteMediation
PROPERTIES
    CertificatesSettle
CHECK_DEADLOCK FALSE
