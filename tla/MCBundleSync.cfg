SPECIFICATION FairSpec
CONSTANTS
    base = base
    extra = extra
    v1 = v1
    v2 = v2
    cut = cut
    bad = bad
    absent = absent
    CedarNames = {base, extra}
    EntitiesName = entities_json
    ChecksName = content_checks_json
    Contents <- MCContents
    Malformed = {bad}
    TornContents = {cut, bad}
    Absent = absent
    Deployments = {"memory", "persist", "gateway"}
    Bundles <- MCBundles
    LocalPolicy <- LocalV1
    FirstDisk <- Nothing
    MaxCrashes = 1
    NoBundle = no_bundle
    NoPolicy = no_policy
INVARIANTS
    TypeOK
    ServesOnePublishedBundle
    ArtifactsAgree
PROPERTIES
    NeverEmptied
    Converges
