------------------------------ MODULE CedarDecision ------------------------------
(***************************************************************************)
(* How PolicyEngine turns one Cedar answer into a Decision                 *)
(* (src/parapetai_agent/policy/engine.py), and how GovernanceHook reads it *)
(* (policy/hooks.py).                                                      *)
(*                                                                         *)
(* A bundle is the sequence of its policies in source order.  A policy is  *)
(* reduced to what the engine and Cedar tell apart: its effect, its        *)
(* annotations, whether its condition matches, misses or fails to evaluate *)
(* for the request at hand, whether it fails on the throwaway probe        *)
(* request of _probe_compile, and how the two readers of the text see it:  *)
(* cedarpy parses a template into another table than the static policies,  *)
(* and the statement splitter misses a policy whose keyword follows a //   *)
(* on its line, even when that // is inside a string (cut).                *)
(***************************************************************************)
EXTENDS Integers, Sequences, Subsequences

CONSTANTS Transforms,     \* what an @alter_with can name
          Bundles,        \* the bundles that may be offered
          Serving         \* the bundle the engine starts from

Effects  == {"permit", "forbid"}
Stages   == {"none", "pre", "post", "other"}   \* the @stage annotation
Marks    == {"none", "review", "alter"}        \* the @action annotation
Outcomes == {"match", "miss", "error"}
NoAlter  == "no_alter"

\* One static policy (or template) of a bundle.
Policies ==
    [effect: Effects, stage: Stages, mark: Marks,
     alter_with: Transforms \cup {NoAlter}, outcome: Outcomes,
     probe_ok: BOOLEAN, template: BOOLEAN, cut: BOOLEAN]

\* What evaluate() may be asked for: no stage, a stage, or a literal it
\* does not know.
CallStages == {"none", "pre", "post", "sideways"}

---------------------------------------------------------------------------
(* Loading: the split by @stage and the probe.                             *)

\* cedarpy's staticPolicies, in source order.
StaticPlaces(bundle) == {i \in DOMAIN bundle : ~bundle[i].template}
Parsed(bundle) == ElementsAt(bundle, StaticPlaces(bundle))

\* The statements the splitter keeps: _carries_policy looks for the keyword
\* in what precedes the first // of each line, and knows no template.
Statements(bundle) == ElementsAt(bundle, {i \in DOMAIN bundle : ~bundle[i].cut})

\* Fault: the count is not compared, zip stops at the shorter list.
NoCount(bundle) == Len(Statements(bundle)) <= Len(Parsed(bundle))

\* Unequal counts reject the load; equal ones do not say that the statements
\* are those of the parsed policies.
CountsMatch(bundle) == Len(Statements(bundle)) = Len(Parsed(bundle))

KeptAt(stage, p) == p.stage \in {"none", stage}

\* What survives the filter for a stage: each statement, in order, beside
\* the parsed policy at the same position, whose annotations decide for it.
Survivors(bundle, stage) ==
    LET pairs == [i \in DOMAIN Statements(bundle) |->
                    [text |-> Statements(bundle)[i], parsed |-> Parsed(bundle)[i]]]
    IN  ElementsAt(pairs, {i \in DOMAIN pairs : KeptAt(stage, pairs[i].parsed)})

\* The full text is served as it came; a variant is put together again.
VariantText(bundle, stage) ==
    IF stage = "none" THEN bundle
    ELSE [i \in DOMAIN Survivors(bundle, stage) |-> Survivors(bundle, stage)[i].text]

Notes(p) == [mark |-> p.mark, alter_with |-> p.alter_with]

\* Fault: a variant's positions looked up in the unfiltered source.
AnnotationsBySourcePosition(bundle, stage) ==
    [i \in DOMAIN VariantText(bundle, stage) |-> Notes(bundle[i])]

\* An annotation map is keyed by the positional ids cedarpy gives the policies
\* of the text it compiles: the full map by the static policies' own ids, a
\* variant's by the order of its survivors.
VariantAnnotations(bundle, stage) ==
    IF stage = "none" THEN [i \in StaticPlaces(bundle) |-> Notes(bundle[i])]
    ELSE [i \in DOMAIN Survivors(bundle, stage) |-> Notes(Survivors(bundle, stage)[i].parsed)]

ProbeCompiles(text) == \A i \in DOMAIN text : text[i].probe_ok

\* _apply accepts a bundle iff it splits and all three variants compile.
Accepted(bundle) ==
    /\ CountsMatch(bundle)
    /\ \A stage \in {"none", "pre", "post"} : ProbeCompiles(VariantText(bundle, stage))

---------------------------------------------------------------------------
(* Cedar itself (external): the authorizer skips a policy whose condition  *)
(* fails to evaluate and reports the failure beside its decision.          *)

Hits(text, effect) ==
    {i \in DOMAIN text : /\ text[i].effect = effect
                         /\ text[i].outcome = "match"
                         /\ ~text[i].template}       \* no link, never applied

CedarErrors(text) == {i \in DOMAIN text : text[i].outcome = "error" /\ ~text[i].template}

CedarAllows(text) == Hits(text, "permit") # {} /\ Hits(text, "forbid") = {}

CedarReasons(text) ==
    IF Hits(text, "forbid") # {} THEN Hits(text, "forbid") ELSE Hits(text, "permit")

---------------------------------------------------------------------------
(* The Decision.                                                           *)

\* The annotations of a determining policy; an id the map lacks has none.
AnnotationOf(annotations, i) ==
    IF i \in DOMAIN annotations THEN annotations[i]
    ELSE [mark |-> "none", alter_with |-> NoAlter]

IsReviewable(determining, annotations, errors) ==
    /\ errors = {}
    /\ determining # {}
    /\ \A i \in determining : AnnotationOf(annotations, i).mark = "review"

\* Later updates overwrite earlier ones and cedarpy lists the reasons in no
\* particular order, so any transform a determining policy names can win.
AlterChoices(determining, annotations) ==
    LET named == {AnnotationOf(annotations, i).alter_with : i \in determining} \ {NoAlter}
    IN  IF named = {} THEN {NoAlter} ELSE named

Effect(text, annotations) ==
    IF CedarAllows(text) THEN "allow"
    ELSE IF IsReviewable(CedarReasons(text), annotations, CedarErrors(text))
         THEN "review"
         ELSE "deny"

\* evaluate() followed by the hook's reading of alter_with: the decisions it
\* may return for a snapshot of one variant's text and annotation map.
Decisions(text, annotations) ==
    LET effect == Effect(text, annotations)
        alters == IF effect = "allow"
                  THEN AlterChoices(CedarReasons(text), annotations)
                  ELSE {NoAlter}
    IN  {[allowed |-> effect = "allow", effect |-> effect, alter_with |-> a,
          errors |-> CedarErrors(text) # {}] : a \in alters}

UnknownStageDecision ==
    [allowed |-> FALSE, effect |-> "deny", alter_with |-> NoAlter, errors |-> TRUE]

Evaluate(bundle, stage) ==
    IF stage = "sideways" THEN {UnknownStageDecision}
    ELSE Decisions(VariantText(bundle, stage), VariantAnnotations(bundle, stage))

---------------------------------------------------------------------------
(* A small system around the operators: an engine holding one accepted     *)
(* bundle is offered another one, then answers one call.                   *)

ASSUME BundlesAssumption == \A bundle \in Bundles \cup {Serving} : bundle \in Seq(Policies)
ASSUME ServingAccepted == Accepted(Serving)

VARIABLES served,     \* the bundle the engine serves
          offered,    \* the bundle the next load brings
          decision    \* the last decision, with the stage it was made for

vars == <<served, offered, decision>>

NoDecision == [stage |-> "unasked", answer |-> UnknownStageDecision]

Init == served = Serving /\ offered \in Bundles /\ decision = NoDecision

Load ==
    /\ decision = NoDecision
    /\ served' = IF Accepted(offered) THEN offered ELSE served
    /\ UNCHANGED <<offered, decision>>

Ask(stage) ==
    /\ decision = NoDecision
    /\ \E answer \in Evaluate(served, stage) :
          decision' = [stage |-> stage, answer |-> answer]
    /\ UNCHANGED <<served, offered>>

Next == Load \/ \E stage \in CallStages : Ask(stage)

Spec == Init /\ [][Next]_vars

---------------------------------------------------------------------------
(* Properties.                                                             *)

Asked == decision.stage \in {"none", "pre", "post"}

\* The policies in force at a call's stage, by the annotation contract: an
\* unannotated policy applies to both, a call without a stage sees them all,
\* and a template no link instantiates applies to nothing.
InForce ==
    {i \in DOMAIN served :
        /\ ~served[i].template
        /\ decision.stage = "none" \/ served[i].stage \in {"none", decision.stage}}

Matching(effect) ==
    {i \in InForce : served[i].effect = effect /\ served[i].outcome = "match"}

\* The splitter and cedarpy read the same policies in a bundle.
Aligned(bundle) == \A i \in DOMAIN bundle : bundle[i].cut <=> bundle[i].template

\* Where the count of statements is all the load needs to be exact: the call
\* has no stage, or the bundle has no template that could make up, in the
\* count, for a policy the splitter lost.
SplitExact ==
    \/ decision.stage = "none"
    \/ \A i \in DOMAIN served : ~served[i].template
    \/ Aligned(served)

\* The decision is the one the source bundle means, read without variants,
\* positional ids or annotation maps: default deny, a forbid always beats a
\* permit, and a deny is a review only when nothing failed to evaluate and
\* every forbid that matched offers review (engine.py evaluate,
\* _split_policies_by_stage, _is_reviewable).  A bundle without templates
\* owes this to the count alone: one the splitter lost a policy of does not
\* load.
DecisionMatchesBundle ==
    Asked /\ SplitExact =>
    LET allows  == Matching("permit") # {} /\ Matching("forbid") = {}
        reviews == /\ Matching("forbid") # {}
                   /\ \A i \in Matching("forbid") : served[i].mark = "review"
                   /\ \A i \in InForce : served[i].outcome # "error"
    IN  decision.answer.effect =
          IF allows THEN "allow" ELSE IF reviews THEN "review" ELSE "deny"

\* A transform is applied only because a permit that was in force and
\* matched names it: positional ids of one variant are never looked up in
\* the annotations of another (engine.py _variant, hooks.py HookResult).
AlterComesFromPermit ==
    Asked /\ SplitExact /\ decision.answer.alter_with # NoAlter =>
       \E i \in Matching("permit") : served[i].alter_with = decision.answer.alter_with

\* "a count mismatch means the source could not be split to match cedarpy's
\* own parse (e.g. a bundle using Cedar templates, which this splitter does
\* not model) and is rejected (fail closed) rather than shipping a misaligned
\* variant" (engine.py, _split_policies_by_stage): so no stage allows what a
\* forbid of the bundle in force there forbids.
NoMisalignedVariant ==
    Asked /\ decision.answer.allowed => Matching("forbid") = {}

\* "An unparsed payload, an evaluation error, or a missing policy denies"
\* (README.md): a decision whose evaluation reported errors is a deny.
EvaluationErrorsDeny ==
    decision.answer.errors => decision.answer.effect = "deny"
================================================================================
