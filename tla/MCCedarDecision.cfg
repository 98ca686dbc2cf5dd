SPECIFICATION Spec
CONSTANTS
    Transforms = {"redact"}
    MaxPolicies = 3
    Bundles <- MCBundles
    Serving <- MCServing
INVARIANTS
    DecisionMatchesBundle
    AlterComesFromPermit
CHECK_DEADLOCK FALSE
