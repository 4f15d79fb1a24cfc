-------------------------------- MODULE Scoring --------------------------------
(***************************************************************************)
(* compute_confidence() of domain/scoring.py with the tiers of             *)
(* domain/provenance.py, over the life of one gym: found by TomTom in a    *)
(* live search, perhaps confirmed from the cached OSM elements, perhaps    *)
(* corroborated by the brand search, scored, perhaps confirmed by the      *)
(* background task and scored again; or found by an ingest and validated   *)
(* against TomTom.  Scores are hundredths.                                 *)
(***************************************************************************)
EXTENDS Integers, FiniteSets

CONSTANT
  OsmTags   \* tags that an OSM element may bear

(* The tags of _tomtom_place_to_element and the keys that a confirmation   *)
(* copies, as far as the score looks at them.                              *)
TomTomTags == {"fitness_centre", "addr:city", "website"}
OsmEnrichKeys == {"opening_hours", "phone", "contact:phone", "website", "contact:website",
                  "operator", "brand", "addr:street", "addr:housenumber"}

AddressTags == {"addr:housenumber", "addr:street", "addr:city"}
WebsiteTags == {"website", "contact:website"}
PhoneTags == {"phone", "contact:phone"}
EmailTags == {"email", "contact:email"}
BrandTags == {"brand", "brand:wikidata", "operator", "operator:wikidata"}
MetadataTags == {"opening_hours", "sport", "internet_access", "wheelchair", "swimming_pool",
                 "sauna", "shower", "contact:instagram", "contact:facebook",
                 "contact:tiktok", "contact:youtube"}
TaxonomyTags == {"fitness_centre", "gym"}

ASSUME ScoringAssumption ==
  OsmTags \subseteq UNION {AddressTags, WebsiteTags, PhoneTags, EmailTags,
                           BrandTags, MetadataTags, TaxonomyTags}

VARIABLES
  stage,       \* how far the gym has come
  scoredGym,   \* the gym
  confidence   \* its confidence_score, 0 before the first

scoringVars == <<stage, scoredGym, confidence>>

TierStatuses == {"tomtom_only", "tomtom_corroborated", "osm_nearby", "osm_confirmed"}
IngestStatuses == {"unconfirmed", "name_mismatch", "matched"}

ScoredGym == [tags : SUBSET (TomTomTags \cup OsmEnrichKeys \cup OsmTags),
              generic : BOOLEAN,     \* is the name one of GENERIC_NAMES?
              refs : 1..3,           \* three stand for more
              status : TierStatuses \cup IngestStatuses,
              distance : 1..3,       \* to the TomTom place: to 50 m, to 150 m, farther
              url : BOOLEAN]         \* does that place have one?

----------------------------------------------------------------------------
Greater(a, b) == IF a >= b THEN a ELSE b
Lesser(a, b) == IF a <= b THEN a ELSE b
Points100(p, n) == IF p THEN n ELSE 0

AddressScore(tags) ==
  LET count == Cardinality(tags \cap AddressTags)
  IN  Points100(count = 1, 8) + Points100(count = 2, 16) + Points100(count = 3, 22)

ContactScore(tags) ==
  LET website == tags \cap WebsiteTags # {}
      phone == tags \cap PhoneTags # {}
      hours == "opening_hours" \in tags
  IN  Points100(website, 22) + Points100(phone, 10) + Points100(tags \cap EmailTags # {}, 6)
        + Points100(hours, 12) + Points100(website /\ phone, 5) + Points100(website /\ hours, 3)

BrandScore(tags) ==
  LET count == Cardinality(tags \cap BrandTags)
  IN  Points100(count = 1, 8) + Points100(count = 2, 14) + Points100(count >= 3, 18)

MetadataScore(tags) == Lesser(2 * Cardinality(tags \cap MetadataTags), 10)

RefsScore(refs) == Points100(refs = 2, 12) + Points100(refs >= 3, 18)

(* external_refs is empty unless an ingest has filled it.                  *)
ExternalScore(gym) ==
  CASE gym.status = "matched" ->
         12 + (<<6, 4, 2>>)[gym.distance] + Points100(gym.url, 2)
    [] gym.status = "name_mismatch" -> 4
    [] OTHER -> 0

EvidenceScore(gym) ==
  Points100(gym.tags \cap TaxonomyTags # {}, 10) + RefsScore(gym.refs)
    + AddressScore(gym.tags) + ContactScore(gym.tags) + BrandScore(gym.tags)
    + MetadataScore(gym.tags) + Points100(~gym.generic, 8) + ExternalScore(gym)

ConfidenceFloor(status) ==
  CASE status = "osm_nearby" -> 70
    [] status = "osm_confirmed" -> 85
    [] OTHER -> 40
ProvenanceBoost(status) == Points100(status = "tomtom_corroborated", 6)

HardCap == 68

(* Statuses of an ingest have no tier.                                     *)
(* Faulty variant: the boost is added to what was capped.                  *)
ProvenanceTierBoostLast(score, status) ==
  IF status \notin TierStatuses THEN score
  ELSE LET floored == Greater(score, ConfidenceFloor(status))
       IN  ProvenanceBoost(status) +
             (IF status = "tomtom_corroborated" THEN Lesser(floored, HardCap) ELSE floored)
ProvenanceTier(score, status) ==
  IF status \notin TierStatuses THEN score
  ELSE LET floored == Greater(score + ProvenanceBoost(status), ConfidenceFloor(status))
       IN  IF status = "tomtom_corroborated" THEN Lesser(floored, HardCap) ELSE floored

Confidence(gym) == Lesser(ProvenanceTier(EvidenceScore(gym), gym.status), 100)

----------------------------------------------------------------------------
(* A search finds the gym, once or, when the places it is found as are     *)
(* merged, several times.                                                  *)
FoundLive(tags, generic, refs) ==
  [tags |-> tags, generic |-> generic, refs |-> refs, status |-> "tomtom_only",
   distance |-> 1, url |-> FALSE]

ScoringInit ==
  /\ stage = "found"
  /\ confidence = 0
  /\ \E generic \in BOOLEAN, refs \in 1..3 :
       \/ \E tags \in SUBSET TomTomTags :
            scoredGym = FoundLive(tags \cup {"fitness_centre"}, generic, refs)
       \/ \E tags \in SUBSET OsmTags, status \in IngestStatuses, distance \in 1..3, url \in BOOLEAN :
            scoredGym = [tags |-> tags, generic |-> generic, refs |-> refs,
                         status |-> status, distance |-> distance, url |-> url]

(* apply_osm_confirmation, with the cached elements before the brand       *)
(* search or by the background task after the first score: the tags of the *)
(* element are added to those the gym has, whatever the element's name.    *)
ConfirmByOsm ==
  /\ scoredGym.status = "tomtom_only"
  /\ stage \in {"found", "scored"}
  /\ \E tags \in SUBSET (OsmTags \cap OsmEnrichKeys), status \in {"osm_nearby", "osm_confirmed"} :
       scoredGym' = [scoredGym EXCEPT !.status = status, !.tags = @ \cup tags]
  /\ stage' = IF stage = "found" THEN "probed" ELSE "enriched"
  /\ UNCHANGED confidence

Corroborate ==
  /\ scoredGym.status = "tomtom_only"
  /\ stage \in {"found", "probed"}
  /\ scoredGym' = [scoredGym EXCEPT !.status = "tomtom_corroborated"]
  /\ stage' = "branded"
  /\ UNCHANGED confidence

ComputeConfidence ==
  /\ stage \in {"found", "probed", "branded", "enriched"}
  /\ confidence' = Confidence(scoredGym)
  /\ stage' = IF stage = "enriched" THEN "rescored" ELSE "scored"
  /\ UNCHANGED scoredGym

ScoringNext == ConfirmByOsm \/ Corroborate \/ ComputeConfidence

ScoringSpec == ScoringInit /\ [][ScoringNext]_scoringVars

----------------------------------------------------------------------------
(* Types of the scoring.                                                   *)
ScoringTypeOK ==
  /\ stage \in {"found", "probed", "branded", "scored", "enriched", "rescored"}
  /\ scoredGym \in ScoredGym
  /\ confidence \in 0..100

(* "max(TOMTOM_CORROBORATED) < min(OSM_NEARBY)": the score of a gym that   *)
(* only TomTom knows, whether its brand search has found it again or not,  *)
(* stays below that of every gym that has an OSM element near it, and that *)
(* of a gym which OSM confirms is at least 85.                             *)
TiersSeparated ==
  stage \in {"scored", "rescored"} =>
    /\ scoredGym.status \in {"tomtom_only", "tomtom_corroborated"} => confidence \in 40..69
    /\ scoredGym.status = "osm_nearby" => confidence \in 70..100
    /\ scoredGym.status = "osm_confirmed" => confidence \in 85..100

(* Evidence never costs a live gym anything: were it only TomTom's, with    *)
(* the tags it was found with, its score would not be higher.  The cap of   *)
(* the corroborated ones is higher than what merged places can add up to.   *)
EvidenceNeverCosts ==
  stage \in {"scored", "rescored"} /\ scoredGym.status \in TierStatuses =>
    confidence >= Confidence([scoredGym EXCEPT !.status = "tomtom_only",
                                               !.tags = @ \cap TomTomTags])

(* More evidence is a higher tier, and never a lower score.                *)
EvidenceOrdersScores == TiersSeparated /\ EvidenceNeverCosts
=============================================================================
