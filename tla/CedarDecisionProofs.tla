--------------------------- MODULE CedarDecisionProofs ---------------------------
(***************************************************************************)
(* Theorems of CedarDecision for bundles of any length and kind: the       *)
(* decision is the one the source means.  When the splitter and cedarpy    *)
(* read the same policies (Aligned), the text and the annotations of a     *)
(* variant are both counted from the policies in force, so a position of   *)
(* the one is the same policy in the other (Mirrors), although neither is  *)
(* the position in the source.  For a bundle without templates the load's  *)
(* comparison of two counts is enough for that (CountedIsAligned).         *)
(***************************************************************************)
EXTENDS CedarDecision, SubsequencesProofs, SequenceTheorems

\* Without templates, a bundle that has as many statements as policies is one
\* the splitter lost nothing of.
LEMMA CountedIsAligned ==
    ASSUME NEW bundle \in Seq(Policies), CountsMatch(bundle),
           \A i \in DOMAIN bundle : ~bundle[i].template
    PROVE  Aligned(bundle)
  <1> DEFINE m == Len(bundle)
             whole == {i \in DOMAIN bundle : ~bundle[i].cut}
             statics == StaticPlaces(bundle)
             k == Cardinality(whole)
  <1>1. m \in Nat /\ DOMAIN bundle = 1 .. m
      BY LenProperties
  <1>2. statics = 1 .. m /\ Cardinality(statics) = m
    <2>1. statics = 1 .. m
        BY <1>1 DEF StaticPlaces
    <2>2. \A n \in Nat : Cardinality(1 .. n) = n
        BY FS_Interval
    <2> QED BY <1>1, <2>1, <2>2
  <1>3. whole \in SUBSET (1 .. m)
      BY <1>1
  <1>4. Statements(bundle) = ElementsAt(bundle, whole)
      BY DEF Statements
  <1>5. Parsed(bundle) = ElementsAt(bundle, statics)
      BY DEF Parsed
  <1> HIDE DEF whole, statics
  <1>6. k \in 0 .. m /\ (k = m => whole = 1 .. m)
      BY <1>1, <1>3, Enumeration
  <1>7. Len(Statements(bundle)) = k
      BY <1>4, <1>6 DEF ElementsAt
  <1>8. Len(Parsed(bundle)) = m
      BY <1>1, <1>2, <1>5 DEF ElementsAt
  <1>9. whole = 1 .. m
      BY <1>6, <1>7, <1>8 DEF CountsMatch
  <1> QED BY <1>1, <1>9 DEF Aligned, whole

\* The places of the policies that are in force at a stage.
InForceAt(bundle, stage) ==
    {i \in 1 .. Len(bundle) :
        /\ ~bundle[i].template
        /\ stage = "none" \/ bundle[i].stage \in {"none", stage}}

\* Each position of a variant is that of one policy, for its text and, unless
\* it is a template, for its annotations; those in force are all there.
Mirrors(text, annotations, bundle, places) ==
    \E place \in [DOMAIN text -> 1 .. Len(bundle)] :
       /\ \A i \in places : \E n \in DOMAIN text : place[n] = i
       /\ \A n \in DOMAIN text :
            /\ text[n] = bundle[place[n]]
            /\ ~bundle[place[n]].template =>
                 /\ place[n] \in places
                 /\ AnnotationOf(annotations, n).mark = bundle[place[n]].mark
                 /\ AnnotationOf(annotations, n).alter_with = bundle[place[n]].alter_with

\* The full text is the bundle itself.
LEMMA FullMirrors ==
    ASSUME NEW bundle \in Seq(Policies)
    PROVE  Mirrors(VariantText(bundle, "none"), VariantAnnotations(bundle, "none"),
                   bundle, InForceAt(bundle, "none"))
  <1> DEFINE place == [n \in 1 .. Len(bundle) |-> n]
             annotations == VariantAnnotations(bundle, "none")
             P == InForceAt(bundle, "none")
  <1>1. DOMAIN bundle = 1 .. Len(bundle) /\ VariantText(bundle, "none") = bundle
      BY LenProperties DEF VariantText
  <1>2. place \in [1 .. Len(bundle) -> 1 .. Len(bundle)] /\ \A n \in 1 .. Len(bundle) : place[n] = n
      OBVIOUS
  <1>3. ASSUME NEW n \in 1 .. Len(bundle), ~bundle[n].template
        PROVE  /\ n \in P
               /\ AnnotationOf(annotations, n).mark = bundle[n].mark
               /\ AnnotationOf(annotations, n).alter_with = bundle[n].alter_with
      BY <1>1, <1>3 DEF InForceAt, AnnotationOf, VariantAnnotations, StaticPlaces, Notes
  <1>4. P \subseteq 1 .. Len(bundle)
      BY DEF InForceAt
  <1> HIDE DEF place, annotations, P
  <1>5. Mirrors(bundle, annotations, bundle, P)
    <2>1. place \in [DOMAIN bundle -> 1 .. Len(bundle)]
        BY <1>1, <1>2
    <2>2. \A i \in P : \E n \in DOMAIN bundle : place[n] = i
        BY <1>1, <1>2, <1>4
    <2>3. \A n \in DOMAIN bundle :
            /\ bundle[n] = bundle[place[n]]
            /\ ~bundle[place[n]].template =>
                 /\ place[n] \in P
                 /\ AnnotationOf(annotations, n).mark = bundle[place[n]].mark
                 /\ AnnotationOf(annotations, n).alter_with = bundle[place[n]].alter_with
        BY <1>1, <1>2, <1>3
    <2> QED BY <2>1, <2>2, <2>3, Zenon DEF Mirrors
  <1> QED BY <1>1, <1>5 DEF annotations, P

\* A variant of an aligned bundle is the policies in force, in their order.
LEMMA VariantsMirror ==
    ASSUME NEW bundle \in Seq(Policies), Aligned(bundle), NEW stage \in {"pre", "post"}
    PROVE  Mirrors(VariantText(bundle, stage), VariantAnnotations(bundle, stage),
                   bundle, InForceAt(bundle, stage))
  <1> DEFINE m == Len(bundle)
             S == StaticPlaces(bundle)
             c == Cardinality(S)
             pairs == [i \in 1 .. c |-> [text |-> bundle[Nth(S, i)], parsed |-> bundle[Nth(S, i)]]]
             K == {i \in 1 .. c : KeptAt(stage, bundle[Nth(S, i)])}
             k == Cardinality(K)
             at(n) == Nth(S, Nth(K, n))
             place == [n \in 1 .. k |-> at(n)]
             P == InForceAt(bundle, stage)
             text == VariantText(bundle, stage)
             annotations == VariantAnnotations(bundle, stage)
  <1>1. m \in Nat /\ DOMAIN bundle = 1 .. m
      BY LenProperties
  <1>2. S \in SUBSET (1 .. m) /\ S = {i \in 1 .. m : ~bundle[i].template}
      BY <1>1 DEF StaticPlaces
  <1>3. {i \in DOMAIN bundle : ~bundle[i].cut} = S
      BY DEF Aligned, StaticPlaces
  <1>4. /\ Parsed(bundle) = [n \in 1 .. c |-> bundle[Nth(S, n)]]
        /\ Statements(bundle) = [n \in 1 .. c |-> bundle[Nth(S, n)]]
      BY <1>3 DEF Parsed, Statements, ElementsAt
  <1>5. P = {i \in S : KeptAt(stage, bundle[i])}
      BY <1>2 DEF InForceAt, KeptAt
  <1> HIDE DEF S, P
  <1>6. /\ c \in 0 .. m
        /\ \A n \in 1 .. c : Nth(S, n) \in S
        /\ \A i \in S : \E n \in 1 .. c : Nth(S, n) = i
    <2>1. S \in SUBSET (1 .. m)
        BY <1>2
    <2> QED BY <1>1, <2>1, Enumeration
  <1>7. K \in SUBSET (1 .. c) /\ c \in Nat
      BY <1>6
  <1>8. /\ k \in 0 .. c
        /\ \A n \in 1 .. k : Nth(K, n) \in K
        /\ \A i \in K : \E n \in 1 .. k : Nth(K, n) = i
    <2> HIDE DEF K
    <2> QED BY <1>7, Enumeration
  <1>9. Survivors(bundle, stage) = [n \in 1 .. k |-> [text |-> bundle[at(n)], parsed |-> bundle[at(n)]]]
    <2> DEFINE made == [i \in DOMAIN Statements(bundle) |->
                          [text |-> Statements(bundle)[i], parsed |-> Parsed(bundle)[i]]]
    <2>1. made = pairs
        BY <1>4
    <2>2. {i \in DOMAIN pairs : KeptAt(stage, pairs[i].parsed)} = K
        OBVIOUS
    <2>3. Survivors(bundle, stage) = ElementsAt(pairs, K)
        BY <2>1, <2>2 DEF Survivors
    <2>4. \A n \in 1 .. k : pairs[Nth(K, n)] = [text |-> bundle[at(n)], parsed |-> bundle[at(n)]]
        BY <1>7, <1>8
    <2> HIDE DEF K, pairs
    <2> QED BY <2>3, <2>4 DEF ElementsAt
  <1>10. \A n \in 1 .. k : at(n) \in P
      BY <1>5, <1>6, <1>8
  <1>11. \A i \in P : \E n \in 1 .. k : at(n) = i
    <2> SUFFICES ASSUME NEW i \in P PROVE \E n \in 1 .. k : at(n) = i
        OBVIOUS
    <2>1. PICK j \in 1 .. c : Nth(S, j) = i
        BY <1>5, <1>6
    <2>2. j \in K
        BY <1>5, <2>1
    <2> QED BY <1>8, <2>1, <2>2
  <1> HIDE DEF K
  <1>12. /\ DOMAIN text = 1 .. k /\ DOMAIN annotations = 1 .. k
         /\ \A n \in 1 .. k : text[n] = bundle[at(n)] /\ annotations[n] = Notes(bundle[at(n)])
    <2> HIDE DEF at
    <2>1. stage # "none"
        OBVIOUS
    <2> QED BY <1>9, <2>1 DEF VariantText, VariantAnnotations
  <1>13. /\ place \in [1 .. k -> 1 .. m]
         /\ \A n \in 1 .. k : place[n] = at(n)
      BY <1>2, <1>5, <1>10
  <1>14. \A n \in 1 .. k : /\ AnnotationOf(annotations, n).mark = bundle[at(n)].mark
                           /\ AnnotationOf(annotations, n).alter_with = bundle[at(n)].alter_with
    <2> HIDE DEF at, annotations, text
    <2> QED BY <1>12 DEF AnnotationOf, Notes
  <1> HIDE DEF place, text, annotations, at, k
  <1>15. Mirrors(text, annotations, bundle, P)
    <2>1. place \in [DOMAIN text -> 1 .. Len(bundle)]
        BY <1>12, <1>13
    <2>2. \A i \in P : \E n \in DOMAIN text : place[n] = i
        BY <1>11, <1>12, <1>13
    <2>3. \A n \in DOMAIN text :
            /\ text[n] = bundle[place[n]]
            /\ ~bundle[place[n]].template =>
                 /\ place[n] \in P
                 /\ AnnotationOf(annotations, n).mark = bundle[place[n]].mark
                 /\ AnnotationOf(annotations, n).alter_with = bundle[place[n]].alter_with
        BY <1>10, <1>12, <1>13, <1>14
    <2> QED BY <2>1, <2>2, <2>3, Zenon DEF Mirrors
  <1> QED BY <1>15 DEF P, text, annotations

-----------------------------------------------------------------------------
\* The policies of a bundle that are in force and match.
MatchingAt(bundle, stage, effect) ==
    {i \in InForceAt(bundle, stage) : bundle[i].effect = effect /\ bundle[i].outcome = "match"}

\* What a bundle decides at a stage, read in the source.
Meant(bundle, stage) ==
    IF MatchingAt(bundle, stage, "permit") # {} /\ MatchingAt(bundle, stage, "forbid") = {} THEN "allow"
    ELSE IF /\ MatchingAt(bundle, stage, "forbid") # {}
            /\ \A i \in MatchingAt(bundle, stage, "forbid") : bundle[i].mark = "review"
            /\ \A i \in InForceAt(bundle, stage) : bundle[i].outcome # "error"
         THEN "review" ELSE "deny"

LEMMA DecidesAsMeant ==
    ASSUME NEW bundle \in Seq(Policies), NEW stage \in {"none", "pre", "post"},
           stage = "none" \/ Aligned(bundle),
           NEW answer \in Evaluate(bundle, stage)
    PROVE  /\ answer.effect = Meant(bundle, stage)
           /\ answer.alter_with # NoAlter =>
                \E i \in MatchingAt(bundle, stage, "permit") : bundle[i].alter_with = answer.alter_with
  <1> DEFINE text == VariantText(bundle, stage)
             annotations == VariantAnnotations(bundle, stage)
             P == InForceAt(bundle, stage)
  <1>1. Mirrors(text, annotations, bundle, P)
    <2>1. CASE stage = "none"
        BY <2>1, FullMirrors
    <2>2. CASE stage # "none"
        BY <2>2, VariantsMirror
    <2> QED BY <2>1, <2>2
  <1>2. answer \in Decisions(text, annotations)
      BY DEF Evaluate
  <1>3. \A i \in P : ~bundle[i].template
      BY DEF InForceAt
  <1> HIDE DEF text, annotations, P
  <1>4. PICK place \in [DOMAIN text -> 1 .. Len(bundle)] :
          /\ \A i \in P : \E n \in DOMAIN text : place[n] = i
          /\ \A n \in DOMAIN text :
               /\ text[n] = bundle[place[n]]
               /\ ~bundle[place[n]].template =>
                    /\ place[n] \in P
                    /\ AnnotationOf(annotations, n).mark = bundle[place[n]].mark
                    /\ AnnotationOf(annotations, n).alter_with = bundle[place[n]].alter_with
      BY <1>1 DEF Mirrors
  <1>6. ASSUME NEW effect
        PROVE  /\ \A n \in Hits(text, effect) : n \in DOMAIN text /\ place[n] \in MatchingAt(bundle, stage, effect)
               /\ \A i \in MatchingAt(bundle, stage, effect) : \E n \in Hits(text, effect) : place[n] = i
    <2>1. ASSUME NEW n \in DOMAIN text
          PROVE  n \in Hits(text, effect) <=> place[n] \in MatchingAt(bundle, stage, effect)
        BY <1>3, <1>4 DEF Hits, MatchingAt, P
    <2>2. Hits(text, effect) \subseteq DOMAIN text /\ MatchingAt(bundle, stage, effect) \subseteq P
        BY DEF Hits, MatchingAt, P
    <2> QED BY <1>4, <2>1, <2>2
  <1>7. CedarErrors(text) = {} <=> \A i \in P : bundle[i].outcome # "error"
      BY <1>3, <1>4 DEF CedarErrors
  <1>8. \A effect \in {"permit", "forbid"} : Hits(text, effect) = {} <=> MatchingAt(bundle, stage, effect) = {}
      BY <1>6
  <1>9. ASSUME NEW effect, NEW n \in Hits(text, effect)
        PROVE  /\ AnnotationOf(annotations, n).mark = bundle[place[n]].mark
               /\ AnnotationOf(annotations, n).alter_with = bundle[place[n]].alter_with
      BY <1>4 DEF Hits
  <1>10. Effect(text, annotations) = Meant(bundle, stage)
    <2>1. CedarAllows(text) <=> /\ MatchingAt(bundle, stage, "permit") # {}
                                /\ MatchingAt(bundle, stage, "forbid") = {}
        BY <1>8 DEF CedarAllows
    <2>2. ASSUME ~CedarAllows(text)
          PROVE  IsReviewable(CedarReasons(text), annotations, CedarErrors(text)) <=>
                   /\ MatchingAt(bundle, stage, "forbid") # {}
                   /\ \A i \in MatchingAt(bundle, stage, "forbid") : bundle[i].mark = "review"
                   /\ \A i \in P : bundle[i].outcome # "error"
      <3>1. CASE Hits(text, "forbid") = {}
        <4>1. CedarReasons(text) = {}
            BY <2>2, <3>1 DEF CedarAllows, CedarReasons
        <4> QED BY <1>8, <3>1, <4>1 DEF IsReviewable
      <3>2. CASE Hits(text, "forbid") # {}
        <4>1. CedarReasons(text) = Hits(text, "forbid")
            BY <3>2 DEF CedarReasons
        <4>2. (\A n \in Hits(text, "forbid") : AnnotationOf(annotations, n).mark = "review") <=>
                \A i \in MatchingAt(bundle, stage, "forbid") : bundle[i].mark = "review"
            BY <1>6, <1>9
        <4> QED BY <1>7, <1>8, <3>2, <4>1, <4>2 DEF IsReviewable
      <3> QED BY <3>1, <3>2
    <2> QED BY <2>1, <2>2 DEF Effect, Meant, P
  <1>11. answer.effect = Effect(text, annotations)
      BY <1>2 DEF Decisions
  <1>12. ASSUME answer.alter_with # NoAlter
         PROVE  \E i \in MatchingAt(bundle, stage, "permit") : bundle[i].alter_with = answer.alter_with
    <2>1. Effect(text, annotations) = "allow" /\ answer.alter_with \in AlterChoices(CedarReasons(text), annotations)
        BY <1>2, <1>12 DEF Decisions
    <2>2. CedarAllows(text)
        BY <2>1 DEF Effect
    <2>3. CedarReasons(text) = Hits(text, "permit")
        BY <2>2 DEF CedarAllows, CedarReasons
    <2>4. PICK n \in Hits(text, "permit") : AnnotationOf(annotations, n).alter_with = answer.alter_with
        BY <1>12, <2>1, <2>3 DEF AlterChoices
    <2> QED BY <1>6, <1>9, <2>4
  <1> QED BY <1>10, <1>11, <1>12

-----------------------------------------------------------------------------
\* The engine serves a bundle it accepted, and answers for that bundle: after
\* an answer nothing is loaded any more.
DecisionInv ==
    /\ served \in Seq(Policies) /\ Accepted(served)
    /\ offered \in Bundles
    /\ decision # NoDecision =>
         /\ decision.stage \in CallStages
         /\ decision.answer \in Evaluate(served, decision.stage)

LEMMA AnswersForServed == Spec => []DecisionInv
  <1>1. Init => DecisionInv
      BY BundlesAssumption, ServingAccepted DEF Init, DecisionInv
  <1>2. ASSUME DecisionInv, [Next]_vars PROVE DecisionInv'
    <2>1. CASE Load
        BY <1>2, <2>1, BundlesAssumption DEF Load, DecisionInv
    <2>2. ASSUME NEW stage \in CallStages, Ask(stage) PROVE DecisionInv'
        BY <1>2, <2>2 DEF Ask, DecisionInv
    <2>3. CASE UNCHANGED vars
        BY <1>2, <2>3 DEF vars, DecisionInv
    <2> QED BY <1>2, <2>1, <2>2, <2>3 DEF Next
  <1> QED BY <1>1, <1>2, PTL DEF Spec

\* What is asked for and answered is in terms of the properties.
LEMMA AskedOfServed ==
    ASSUME DecisionInv, Asked
    PROVE  /\ served \in Seq(Policies)
           /\ decision.stage \in {"none", "pre", "post"}
           /\ decision.answer \in Evaluate(served, decision.stage)
           /\ InForce = InForceAt(served, decision.stage)
           /\ \A effect : Matching(effect) = MatchingAt(served, decision.stage, effect)
  <1>1. decision # NoDecision
      BY DEF Asked, NoDecision
  <1>2. InForce = InForceAt(served, decision.stage)
      BY LenProperties DEF InForce, InForceAt, DecisionInv
  <1> QED BY <1>1, <1>2 DEF DecisionInv, Asked, Matching, MatchingAt

\* Where the split is exact, a staged decision is made on an aligned bundle.
LEMMA ExactIsAligned ==
    ASSUME DecisionInv, SplitExact
    PROVE  decision.stage = "none" \/ Aligned(served)
  <1>1. served \in Seq(Policies) /\ CountsMatch(served)
      BY DEF DecisionInv, Accepted
  <1> QED BY <1>1, CountedIsAligned DEF SplitExact

\* A decision is the one the source bundle means, whatever its length and
\* however the filter renumbers it (_split_policies_by_stage, _is_reviewable
\* and evaluate of engine.py): for every bundle the engine accepts when the
\* call has no stage, and at a stage for every accepted bundle without
\* templates and every one the splitter reads as cedarpy does.
THEOREM DecidesByTheBundle == Spec => []DecisionMatchesBundle
  <1>1. DecisionInv => DecisionMatchesBundle
    <2> SUFFICES ASSUME DecisionInv, Asked, SplitExact PROVE DecisionMatchesBundle
        BY DEF DecisionMatchesBundle
    <2>1. decision.answer.effect = Meant(served, decision.stage)
        BY AskedOfServed, ExactIsAligned, DecidesAsMeant
    <2> QED BY <2>1, AskedOfServed DEF DecisionMatchesBundle, Meant
  <1> QED BY <1>1, AnswersForServed, PTL

\* A transform comes of a permit that was in force and matched, never of the
\* policy at the same position of another variant (_variant of engine.py),
\* for the same bundles and stages.
THEOREM AltersByAPermit == Spec => []AlterComesFromPermit
  <1>1. DecisionInv => AlterComesFromPermit
    <2> SUFFICES ASSUME DecisionInv, Asked, SplitExact PROVE AlterComesFromPermit
        BY DEF AlterComesFromPermit
    <2> QED BY AskedOfServed, ExactIsAligned, DecidesAsMeant DEF AlterComesFromPermit
  <1> QED BY <1>1, AnswersForServed, PTL
=============================================================================
