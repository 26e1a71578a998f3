-------------------------- MODULE AnnotationContract --------------------------
(***************************************************************************)
(* The annotation component the executor accepts (pkg/jevshadow/           *)
(* service.go): decodeAnnotation chooses one wire schema and validates     *)
(* what it decoded, the state file stores it with MarshalJSON, renderCard  *)
(* turns it into lines of the card.                                        *)
(*                                                                         *)
(* A JSON object and a component are functions from field names; Nil is a  *)
(* nil pointer.  Probabilities are whole percents, the two decimals of the *)
(* answers Jev sends.  A line of the card is the name of what it shows.    *)
(***************************************************************************)
EXTENDS Absence, Integers, FiniteSets, Sequences, FiniteSetsExt, Functions

CONSTANT Wires             \* the JSON objects a producer may send

VARIABLES wire, component, rendered, handling

annotationVars == <<wire, component, rendered, handling>>

Routes == {"pool", "oncall"}
PoolReasons == {"recurring", "same_incident", "non_urgent", "unclear"}

FieldsV1 == {"schema_version", "category", "route", "repeat_count", "same_kind_count",
             "detail_url", "evidence_lines"}
FieldsV2 == {"schema_version", "judgment_id", "routing", "pool_reason",
             "policy_proposal", "policy_reason_code", "pool_min_probability",
             "capability", "decision_source", "threshold_applied", "threshold_source",
             "model_status", "context_reduced", "execution_mode", "trace_url"}
RequiredV1 == {"schema_version", "category", "route", "evidence_lines"}
RequiredV2 == {"schema_version", "judgment_id", "routing", "pool_reason",
               "policy_proposal", "policy_reason_code", "execution_mode", "trace_url"}

\* The fields of annotationComponentV2 tagged omitempty.
OmitEmpty == {"pool_min_probability", "capability", "decision_source",
              "threshold_applied", "threshold_source", "model_status", "context_reduced"}
Zero(f) ==
    IF f \in {"routing", "pool_reason", "pool_min_probability", "threshold_applied",
              "context_reduced", "trace_url", "detail_url"} THEN Nil
    ELSE IF f \in {"repeat_count", "same_kind_count"} THEN 0
    ELSE IF f = "evidence_lines" THEN <<>> ELSE ""

Fields(version) == IF version = "1" THEN FieldsV1 ELSE FieldsV2
Required(version) == IF version = "1" THEN RequiredV1 ELSE RequiredV2

\* Mutant: the copy into the wire schema forgets a field.
MarshalForgets(c) == Restrict(c, DOMAIN c \ {"threshold_source"})

MarshalJSON(c) ==
    Restrict(c, {f \in DOMAIN c : ~(c["schema_version"] = "2" /\ f \in OmitEmpty
                                    /\ c[f] = Zero(f))})

\* requireJSONFields and strictDecodeJSON.
Decodable(w) ==
    /\ "schema_version" \in DOMAIN w /\ w["schema_version"] \in {"1", "2"}
    /\ Required(w["schema_version"]) \subseteq DOMAIN w
    /\ DOMAIN w \subseteq Fields(w["schema_version"])

Value(w, f) == IF f \in DOMAIN w THEN w[f] ELSE Zero(f)

Decoded(w) == [f \in Fields(w["schema_version"]) |-> Value(w, f)]

\* readCardStateFile decodes into the struct that has the fields of both
\* schemas: an unknown field is an error, no field is required.
UnionFields == FieldsV1 \cup FieldsV2
Readable(w) == DOMAIN w \subseteq UnionFields
Read(w) == [f \in UnionFields |-> Value(w, f)]
-----------------------------------------------------------------------------
(***************************************************************************)
(* Validation.  An answer gives each option a percent.                     *)
(***************************************************************************)
Total(f) == FoldFunction(LAMBDA a, b : a + b, 0, f)

\* validateChoiceAnswer, in half percents: some distribution that rounds to
\* these percents adds up to one.
validateChoiceAnswer(answer, options) ==
    /\ answer # Nil /\ DOMAIN answer.probabilities = options
    /\ answer.choice \in options
    /\ \A o \in options : answer.probabilities[answer.choice] >= answer.probabilities[o]
    /\ LET p == answer.probabilities IN
       \/ Total(p) = 100
       \/ /\ Total([o \in options |-> Max({0, 2 * p[o] - 1})]) <= 200
          /\ Total([o \in options |-> Min({200, 2 * p[o] + 1})]) >= 200

validateV1(c) ==
    /\ Len(c["evidence_lines"]) <= 20
    /\ \A i \in DOMAIN c["evidence_lines"] : c["evidence_lines"][i] # ""
    /\ c["detail_url"] \in {Nil, "https"}
    /\ c["category"] # "" =>
          /\ c["repeat_count"] >= 1 /\ c["same_kind_count"] >= 1
          /\ c["category"] \in {"urgent", "non_urgent", "repeat", "same_kind", "protected"}
          /\ c["route"] \in {"oncall", "pool", "original"}

ModelPolicy(c) ==
    /\ c["model_status"] = "available" /\ c["threshold_applied"] = TRUE
    /\ c["pool_min_probability"] # Nil /\ c["threshold_source"] # "not_applicable"
    /\ c["policy_proposal"] =
          IF c["routing"].probabilities["pool"] >= c["pool_min_probability"]
          THEN "pool" ELSE "oncall"

WithoutThreshold(c) ==
    /\ c["threshold_applied"] = FALSE /\ c["pool_min_probability"] = Nil
    /\ c["threshold_source"] = "not_applicable"

validatePolicyFactsV1(c) ==
    /\ c["threshold_applied"] # Nil /\ c["context_reduced"] # Nil
    /\ c["threshold_source"] \in {"default", "override", "not_applicable"}
    /\ c["model_status"] \in {"available", "unavailable"}
    /\ (c["model_status"] = "available") = (c["routing"] # Nil /\ c["pool_reason"] # Nil)
    /\ c["judgment_id"] # "" /\ c["trace_url"] # Nil
    /\ c["model_status"] = "available" =>
          /\ validateChoiceAnswer(c["routing"], Routes)
          /\ validateChoiceAnswer(c["pool_reason"], PoolReasons)
    /\ \/ c["decision_source"] = "operator_rule" /\ c["policy_proposal"] = "pool"
          /\ WithoutThreshold(c)
       \/ c["decision_source"] = "model_policy" /\ ModelPolicy(c)
       \/ c["decision_source"] = "model_unavailable" /\ c["policy_proposal"] = "original"
          /\ c["model_status"] = "unavailable" /\ WithoutThreshold(c)

\* A component with probabilities and without the policy-facts capability.
ValidJudgment(c) ==
    /\ c["judgment_id"] # "" /\ c["trace_url"] # Nil
    /\ c["pool_reason"] # Nil /\ c["policy_proposal"] # "original"
    /\ validateChoiceAnswer(c["routing"], Routes)
    /\ validateChoiceAnswer(c["pool_reason"], PoolReasons)
    /\ c["policy_proposal"] = "pool" => c["routing"].choice = "pool"
    /\ IF c["policy_reason_code"] = "pool_probability_below_threshold"
       THEN /\ c["pool_min_probability"] # Nil /\ c["policy_proposal"] = "oncall"
            /\ c["routing"].probabilities["pool"] < c["pool_min_probability"]
       ELSE c["pool_min_probability"] = Nil

ValidException(c) ==
    /\ c["pool_reason"] = Nil /\ c["pool_min_probability"] = Nil
    /\ c["policy_proposal"] = "original"

validateV2(c) ==
    /\ c["execution_mode"] = "shadow"
    /\ c["trace_url"] \in {Nil, "https"}
    /\ c["policy_proposal"] \in {"oncall", "pool", "original"}
    /\ c["policy_reason_code"] # ""
    /\ \/ c["capability"] = "policy-facts-v1" /\ validatePolicyFactsV1(c)
       \/ c["capability"] = "" /\ c["routing"] = Nil /\ ValidException(c)
       \/ c["capability"] = "" /\ c["routing"] # Nil /\ ValidJudgment(c)

validate(c) == IF c["schema_version"] = "1" THEN validateV1(c) ELSE validateV2(c)
-----------------------------------------------------------------------------
(***************************************************************************)
(* The card.  A nil pointer that is dereferenced panics.                   *)
(***************************************************************************)
policyLineV2(c) ==
    IF c["capability"] = "policy-facts-v1" \/
          (c["routing"] # Nil /\ c["policy_proposal"] # c["routing"].choice)
    THEN {<<"policy", c["policy_proposal"]>>} ELSE {}

markdownV1(c) == IF c["category"] # "" THEN {<<"compact">>} ELSE {<<"recommendation">>}

PoolShown(c) ==
    \/ c["routing"].choice = "pool"
    \/ c["capability"] = "policy-facts-v1" /\ c["policy_proposal"] = "pool"

markdownV2(c) ==
    CASE c["routing"] = Nil -> {<<"status">>} \cup policyLineV2(c)
      [] c["routing"] # Nil /\ PoolShown(c) ->
            (IF c["pool_reason"] = Nil THEN {<<"panic">>}
             ELSE {<<"probabilities">>, <<"pool reasons">>}) \cup policyLineV2(c)
      [] OTHER -> {<<"probabilities">>} \cup policyLineV2(c)

markdown(c) == IF c["schema_version"] = "2" THEN markdownV2(c) ELSE markdownV1(c)
-----------------------------------------------------------------------------
AnnotationInit ==
    /\ wire \in Wires
    /\ component = Nil /\ rendered = {} /\ handling = "wire"

decodeAnnotation ==
    /\ handling = "wire"
    /\ IF Decodable(wire) /\ validate(Decoded(wire))
       THEN component' = Decoded(wire) /\ handling' = "component"
       ELSE handling' = "rejected" /\ UNCHANGED component
    /\ UNCHANGED <<wire, rendered>>

\* The writer stores the component and renders it.
renderCard ==
    /\ handling = "component"
    /\ rendered' = markdown(component) /\ handling' = "card"
    /\ UNCHANGED <<wire, component>>

AnnotationNext == decodeAnnotation \/ renderCard

AnnotationSpec == AnnotationInit /\ [][AnnotationNext]_annotationVars
-----------------------------------------------------------------------------
Accepted == handling \in {"component", "card"}

\* The state file reads back the component that was accepted, whichever schema
\* it was written in: its payload hash, which a retry and the reader of a
\* pending patch compare, is the same after a restart.
StoredFormDecodes ==
    Accepted => /\ Readable(MarshalJSON(component))
                /\ Read(MarshalJSON(component)) = [f \in UnionFields |-> Value(component, f)]

\* A card that proposes the pool under a threshold shows a pool probability
\* that reaches it, whichever of the two validators accepted it.
PoolReachesThreshold ==
    Accepted /\ component["schema_version"] = "2" =>
        (component["policy_proposal"] = "pool" /\ component["pool_min_probability"] # Nil
           => component["routing"].probabilities["pool"] >= component["pool_min_probability"])

\* A card without a judgment shows a status and no route but the original one,
\* unless an operator rule chose it.
ExceptionKeepsOriginal ==
    Accepted /\ component["schema_version"] = "2" /\ component["routing"] = Nil =>
        \/ component["policy_proposal"] = "original"
        \/ component["decision_source"] = "operator_rule"

\* The percents of a distribution given in tenths of a percent, each rounded
\* by itself.
RoundedAnswer(q) ==
    [o \in Routes |-> ((IF o = "pool" THEN q ELSE 1000 - q) + 5) \div 10]

\* No annotation is refused for percents that are the rounding of a
\* distribution, although they need not add up to one hundred.
RoundedAnswersAccepted ==
    handling = "rejected" => wire["routing"].probabilities \notin {RoundedAnswer(q) : q \in 0..1000}

\* What decodeAnnotation accepts can be rendered: an operator rule is shown
\* with or without the model.
AcceptedRenders == <<"panic">> \notin rendered
=============================================================================
