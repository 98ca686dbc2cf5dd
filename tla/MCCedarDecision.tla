---------------------------- MODULE MCCedarDecision ----------------------------
(* Every bundle of at most MaxPolicies policies of the kinds below, each    *)
(* evaluated at every stage.                                                *)
EXTENDS CedarDecision

CONSTANT MaxPolicies

Policy(effect, stage, mark, alter, outcome, probe_ok, template, cut) ==
    [effect |-> effect, stage |-> stage, mark |-> mark, alter_with |-> alter,
     outcome |-> outcome, probe_ok |-> probe_ok, template |-> template,
     cut |-> cut]

Permits == {Policy("permit", s, "none", NoAlter, o, TRUE, FALSE, FALSE) :
                s \in {"none", "pre", "post"}, o \in {"match", "miss"}}

Altering == {Policy("permit", s, "alter", "redact", "match", TRUE, FALSE, FALSE) :
                s \in {"none", "post"}}

Forbids == {Policy("forbid", s, m, NoAlter, o, TRUE, FALSE, FALSE) :
                s \in {"none", "pre", "post", "other"}, m \in {"none", "review"},
                o \in {"match", "error"}}

Uncompilable == {Policy("permit", "none", "none", NoAlter, "match", FALSE, FALSE, FALSE)}

\* Templates the splitter counts and one it does not, and policies it loses.
Templates == {Policy("forbid", "post", "none", NoAlter, "match", TRUE, TRUE, c) : c \in BOOLEAN}

Cut == {Policy("forbid", s, "none", NoAlter, "match", TRUE, FALSE, TRUE) : s \in {"none", "pre"}}
       \cup {Policy("permit", "none", "alter", "redact", "match", TRUE, FALSE, TRUE)}

Kinds == Permits \cup Altering \cup Forbids \cup Uncompilable \cup Templates \cup Cut

MCBundles == UNION {[1..n -> Kinds] : n \in 1..MaxPolicies}

MCServing == <<Policy("permit", "none", "none", NoAlter, "match", TRUE, FALSE, FALSE)>>
================================================================================
