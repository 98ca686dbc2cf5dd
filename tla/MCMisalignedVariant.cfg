SPECIFICATION Spec
CONSTANTS
    Transforms = {"redact"}
    MaxPolicies = 3
    Bundles <- MCBundles
    Serving <- MCServing
INVARIANTS
    NoMisalignedVariant
CHECK_DEADLOCK FALSE
