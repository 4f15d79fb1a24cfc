------------------------------- MODULE Inference -------------------------------
(***************************************************************************)
(* The rules that infer a gym's attributes from its tags (domain/rules.py, *)
(* infer/decisions.py) and the diagnostics that judge them                 *)
(* (infer/quality.py).  The two keep tables of their own of what supports  *)
(* a specialty and what supports strength.  Confidences are hundredths.    *)
(***************************************************************************)
EXTENDS Integers, Sequences, FiniteSets, FiniteSetsExt

CONSTANTS
  Tagged,        \* sports and amenities that a gym may be tagged with
  NameWords,     \* keywords that its brand or name may contain
  TagsTogether,  \* bound: tags of one gym
  WordsTogether  \* bound: keywords of one gym

(* Two keywords of the rules contain others, which the model passes over.  *)
ASSUME InferenceAssumption ==
  /\ {"powerlifting", "kickboxing"} \cap NameWords = {}
  /\ TagsTogether \in Nat /\ WordsTogether \in Nat

VARIABLES
  features,   \* extract_features(): what the gym is tagged with, and keywords
  inferred,   \* the results of the rules
  diagnosis   \* contradictions and field_confidence

inferenceVars == <<features, inferred, diagnosis>>

Attributes == {"website", "opening_hours", "24_7"}

(* _SPECIALTY_RULES, in their order.                                       *)
SpecialtyRules == <<
  [specialty |-> "crossfit", needs |-> {"crossfit"}, words |-> {"crossfit"}],
  [specialty |-> "powerlifting", needs |-> {"powerlifting", "strongman"},
   words |-> {"powerlifting", "power", "barbell"}],
  [specialty |-> "olympic_weightlifting", needs |-> {"olympic_weightlifting", "weightlifting"},
   words |-> {"weightlifting", "olympic"}],
  [specialty |-> "bodybuilding", needs |-> {"bodybuilding"},
   words |-> {"bodybuilding", "physique"}],
  [specialty |-> "boxing", needs |-> {"boxing", "kickboxing"}, words |-> {"boxing", "kickboxing"}],
  [specialty |-> "martial_arts", needs |-> {"martial_arts", "jiu_jitsu", "judo", "karate", "mma"},
   words |-> {"mma", "jiu", "jitsu", "martial", "dojo"}],
  [specialty |-> "yoga", needs |-> {"yoga", "pilates"}, words |-> {"yoga", "pilates"}],
  [specialty |-> "climbing", needs |-> {"climbing", "bouldering"},
   words |-> {"climbing", "bouldering"}] >>

Specialties == {SpecialtyRules[i].specialty : i \in DOMAIN SpecialtyRules}
Support == {"tags", "name", "nothing"}

InferenceInit ==
  /\ features = [capabilities |-> {}, words |-> {}]
  /\ inferred = [premium |-> 0, reasons |-> 0, is_24_7 |-> FALSE, lifter |-> "nothing",
                 specialty |-> "general_fitness", support |-> "nothing", tier |-> "none"]
  /\ diagnosis = [specialty |-> {}, lifter |-> {}, is_24_7 |-> {}, of |-> <<>>]

----------------------------------------------------------------------------
(* Hours that say 24/7 are hours.                                          *)
Extract ==
  /\ features = [capabilities |-> {}, words |-> {}] /\ inferred.tier = "none"
  /\ \E n \in 0..TagsTogether, w \in 0..WordsTogether :
       \E tags \in kSubset(n, Tagged), words \in kSubset(w, NameWords) :
         /\ "24_7" \in tags => "opening_hours" \in tags
         /\ features' = [capabilities |-> tags, words |-> words]
  /\ UNCHANGED <<inferred, diagnosis>>

Has(set) == features.capabilities \cap set # {}

(* compute_premium_score: the weights of what is there, and how much is.   *)
PremiumSignals == {
  <<2, {"swimming_pool", "pool", "hot_tub", "spa"}>>, <<2, {"sauna", "steam_room", "massage"}>>,
  <<2, {"shower", "childcare", "cafe"}>>, <<1, {"website"}>>, <<1, {"opening_hours"}>> }
Present == {signal \in PremiumSignals : Has(signal[2])}
Weighing(weight) == Cardinality({signal \in Present : signal[1] = weight})
PremiumScore == LET weights == 2 * Weighing(2) + Weighing(1)
                IN  IF weights > 10 THEN 10 ELSE weights

(* The two strength tables; the rules' one comes first.                    *)
StrengthOfRules == {"weightlifting", "powerlifting", "strongman", "olympic_weightlifting", "fitness"}
StrengthCapabilities == {"weightlifting", "powerlifting", "strongman", "olympic_weightlifting",
                         "fitness"}

LifterSupport ==
  IF Has(StrengthOfRules) THEN "tags"
  ELSE IF features.words \cap {"barbell", "power", "strength"} # {} THEN "name" ELSE "nothing"

Applies(rule) == Has(rule.needs) \/ features.words \cap rule.words # {}
FirstRule == Min({i \in DOMAIN SpecialtyRules : Applies(SpecialtyRules[i])})
SomeRule == \E i \in DOMAIN SpecialtyRules : Applies(SpecialtyRules[i])

Tier(premium) == IF premium >= 7 THEN "premium" ELSE IF premium >= 3 THEN "mid" ELSE "basic"

Infer ==
  /\ inferred.tier = "none"
  /\ inferred' =
       [premium |-> PremiumScore, reasons |-> Cardinality(Present),
        is_24_7 |-> Has({"24_7"}), lifter |-> LifterSupport,
        specialty |-> IF SomeRule THEN SpecialtyRules[FirstRule].specialty ELSE "general_fitness",
        support |-> IF ~SomeRule THEN "nothing"
                    ELSE IF Has(SpecialtyRules[FirstRule].needs) THEN "tags" ELSE "name",
        tier |-> Tier(PremiumScore)]
  /\ UNCHANGED <<features, diagnosis>>

----------------------------------------------------------------------------
(* infer/quality.py.  _SPECIALTY_EXPECTED_CAPABILITIES:                    *)
ExpectedTable == [
  crossfit |-> {"crossfit"}, powerlifting |-> {"powerlifting", "strongman"},
  olympic_weightlifting |-> {"weightlifting", "olympic_weightlifting"},
  bodybuilding |-> {"bodybuilding"}, boxing |-> {"boxing", "kickboxing"},
  martial_arts |-> {"martial_arts", "jiu_jitsu", "judo", "karate", "mma"},
  yoga |-> {"yoga", "pilates"}, climbing |-> {"climbing", "bouldering"} ]

(* Faulty variant: a specialty was not entered in the table.               *)
ExpectedCapabilitiesNoBoxing(specialty) ==
  IF specialty \in DOMAIN ExpectedTable \ {"boxing"} THEN ExpectedTable[specialty] ELSE {}
ExpectedCapabilities(specialty) ==
  IF specialty \in DOMAIN ExpectedTable THEN ExpectedTable[specialty] ELSE {}

StrengthSpecialties == {"powerlifting", "olympic_weightlifting", "bodybuilding"}
NonStrengthCapabilities ==
  UNION {ExpectedTable[s] : s \in {"boxing", "martial_arts", "yoga", "climbing"}}

Unsupported == LET expected == ExpectedCapabilities(inferred.specialty)
               IN  expected # {} /\ ~Has(expected)

SpecialtyContradictions ==
  {kind \in {"unsupported", "conflict", "naming"} :
     CASE kind = "unsupported" -> Unsupported
       [] kind = "conflict" -> /\ inferred.specialty \in StrengthSpecialties
                               /\ Has(NonStrengthCapabilities) /\ ~Has(StrengthCapabilities)
       [] kind = "naming" -> /\ inferred.lifter # "nothing" /\ ~Has(StrengthCapabilities)
                             /\ inferred.support = "name"}
LifterContradictions ==
  IF inferred.lifter # "nothing" /\ ~Has(StrengthCapabilities) THEN {"unsupported"} ELSE {}
HoursContradictions ==
  IF ~inferred.is_24_7 /\ "24/7" \in features.words THEN {"naming"} ELSE {}

(* _apply_penalty and _bounded.                                            *)
Penalised(base, against) ==
  LET penalty == Min({14 * Cardinality(against), 35}) IN Max({5, Min({base - penalty, 99})})

PremiumCertainty == Penalised(35 + 5 * inferred.premium + 5 * Min({inferred.reasons, 4}), {})
HoursCertainty ==
  Penalised(IF inferred.is_24_7 THEN 98 ELSE IF Has({"opening_hours"}) THEN 84 ELSE 48,
            HoursContradictions)
LifterCertainty ==
  Penalised(CASE inferred.lifter # "nothing" /\ Has(StrengthCapabilities) -> 91
              [] inferred.lifter = "tags" /\ ~Has(StrengthCapabilities) -> 67
              [] inferred.lifter = "name" /\ ~Has(StrengthCapabilities) -> 67 - 4
              [] inferred.lifter = "nothing" /\ Has(NonStrengthCapabilities) -> 76
              [] inferred.lifter = "nothing" /\ ~Has(NonStrengthCapabilities)
                   -> IF Has({"fitness_centre", "fitness"}) THEN 62 ELSE 52,
            LifterContradictions)
SpecialtyCertainty ==
  Penalised(IF inferred.specialty = "general_fitness"
            THEN IF features.capabilities # {} THEN 66 ELSE 48
            ELSE IF Has(ExpectedCapabilities(inferred.specialty)) THEN 93
            ELSE IF inferred.support = "name" THEN 72 ELSE 58,
            SpecialtyContradictions)
TierCertainty ==
  Penalised((5200 + 32 * PremiumCertainty
               + (IF inferred.is_24_7 THEN 2 * 400 + 500 ELSE 400) + 50) \div 100, {})

Diagnose ==
  /\ inferred.tier # "none" /\ diagnosis.of = <<>>
  /\ diagnosis' = [specialty |-> SpecialtyContradictions, lifter |-> LifterContradictions,
                   is_24_7 |-> HoursContradictions,
                   of |-> [premium |-> PremiumCertainty, is_24_7 |-> HoursCertainty,
                           lifter |-> LifterCertainty, specialty |-> SpecialtyCertainty,
                           tier |-> TierCertainty]]
  /\ UNCHANGED <<features, inferred>>

InferenceNext == Extract \/ Infer \/ Diagnose

InferenceSpec == InferenceInit /\ [][InferenceNext]_inferenceVars

----------------------------------------------------------------------------
Certainties == [{"premium", "is_24_7", "lifter", "specialty", "tier"} -> 5..99]
Diagnosed == diagnosis.of # <<>>

(* Types of the inference; every confidence is within its bounds.          *)
InferenceTypeOK ==
  /\ features \in [capabilities : SUBSET Tagged, words : SUBSET NameWords]
  /\ inferred \in [premium : 0..10, reasons : 0..5, is_24_7 : BOOLEAN, lifter : Support,
                   specialty : Specialties \cup {"general_fitness"}, support : Support,
                   tier : {"none", "basic", "mid", "premium"}]
  /\ diagnosis.specialty \subseteq {"unsupported", "conflict", "naming"}
  /\ Diagnosed => diagnosis.of \in Certainties

(* A specialty that a rule has taken from the name is contradicted and      *)
(* doubted, more than any that it has taken from tags: also where the name  *)
(* has won over the tags of a later rule.                                   *)
NamedSpecialtyDoubted ==
  Diagnosed =>
    /\ inferred.support = "name" => /\ "unsupported" \in diagnosis.specialty
                                    /\ diagnosis.of.specialty <= 58
    /\ inferred.support = "tags" => /\ "unsupported" \notin diagnosis.specialty
                                    /\ diagnosis.of.specialty >= 79

(* So is a lifter-friendliness that comes from the name; one that comes    *)
(* from tags is not.                                                       *)
NamedStrengthDoubted ==
  Diagnosed =>
    /\ inferred.lifter = "name" => diagnosis.lifter # {} /\ diagnosis.of.lifter <= 49
    /\ inferred.lifter = "tags" => diagnosis.lifter = {} /\ diagnosis.of.lifter >= 91

(* What is taken from a name is doubted, and what is taken from tags not.  *)
NamesDoubted == NamedSpecialtyDoubted /\ NamedStrengthDoubted
=============================================================================
