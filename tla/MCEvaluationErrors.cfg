SPECIFICATION Spec
CONSTANTS
    Transforms = {"redact"}
    MaxPolicies = 2
    Bundles <- MCBundles
    Serving <- MCServing
INVARIANTS
    EvaluationErrorsDeny
CHECK_DEADLOCK FALSE
