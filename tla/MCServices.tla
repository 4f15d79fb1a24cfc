------------------------------ MODULE MCServices ------------------------------
(* Small instances, for TLC, of the components that share no state with any  *)
(* other: a behaviour is one of one of them, in which the others keep still. *)
EXTENDS RateLimit, JwksCache, Registry, OverpassFetch, Metrics, Migrate,
        Dedup, Coverage, Scoring, Inference, MCPaging, GymTable, NearbyGyms, TLC

(* There is a place to look from and a page to ask for.                    *)
ASSUME ServicesAssumption == Sighting # {} /\ Limits # {}

VARIABLE part  \* the component of this behaviour

servicesVars == <<part, vars, jwksVars, regVars, opVars, metricsVars, migrateVars, dedupVars,
                  coverageVars, scoringVars, inferenceVars, pagingVars, gymTableVars, nearbyVars>>

Is(name) == part = name

(* A component that may begin in several states begins in one where it keeps *)
(* still.                                                                    *)
ServicesInit ==
  /\ part \in {"rate limit", "jwks", "registry", "overpass", "metrics", "migrate", "dedup",
               "coverage", "scoring", "inference", "paging", "gym table", "nearby"}
  /\ Init /\ JwksInit /\ OpInit /\ MetricsInit /\ DedupInit /\ InferenceInit
  /\ RegistryInit /\ (Is("registry") \/ regFile.state = "missing")
  /\ MigrateInit /\ (Is("migrate") \/ volume = {})
  /\ GymTableInit /\ (Is("gym table") \/ dataset.valid = {})
  /\ IF Is("coverage") THEN CoverageInit
     ELSE /\ osmGyms = [g \in 1..GymCount |-> CHOOSE s \in Sighting : TRUE]
          /\ places = <<>> /\ seen = 0 /\ matches = <<>> /\ best = [g \in 1..GymCount |-> 0]
  /\ IF Is("scoring") THEN ScoringInit
     ELSE stage = "found" /\ confidence = 0 /\ scoredGym = FoundLive({"fitness_centre"}, TRUE, 1)
  /\ IF Is("paging") THEN PagingInit
     ELSE /\ shelf = {} /\ republished = 0
          /\ pager = [pc |-> "idle", kind |-> "near", bound |-> 0, status |-> "any",
                      limit |-> CHOOSE n \in Limits : TRUE, got |-> <<>>]
  /\ IF Is("nearby") THEN NearbyInit
     ELSE at = <<>> /\ answer = [state |-> "pending", found |-> <<>>]

ServicesNext ==
  /\ UNCHANGED part
  /\ \/ /\ Is("rate limit") /\ Next
        /\ UNCHANGED <<jwksVars, regVars, opVars, metricsVars, migrateVars, dedupVars, coverageVars,
                       scoringVars, inferenceVars, pagingVars, gymTableVars, nearbyVars>>
     \/ /\ Is("jwks") /\ JwksNext
        /\ UNCHANGED <<vars, regVars, opVars, metricsVars, migrateVars, dedupVars, coverageVars,
                       scoringVars, inferenceVars, pagingVars, gymTableVars, nearbyVars>>
     \/ /\ Is("registry") /\ RegistryNext
        /\ UNCHANGED <<vars, jwksVars, opVars, metricsVars, migrateVars, dedupVars, coverageVars,
                       scoringVars, inferenceVars, pagingVars, gymTableVars, nearbyVars>>
     \/ /\ Is("overpass") /\ OpNext
        /\ UNCHANGED <<vars, jwksVars, regVars, metricsVars, migrateVars, dedupVars, coverageVars,
                       scoringVars, inferenceVars, pagingVars, gymTableVars, nearbyVars>>
     \/ /\ Is("metrics") /\ MetricsNext
        /\ UNCHANGED <<vars, jwksVars, regVars, opVars, migrateVars, dedupVars, coverageVars,
                       scoringVars, inferenceVars, pagingVars, gymTableVars, nearbyVars>>
     \/ /\ Is("migrate") /\ MigrateNext
        /\ UNCHANGED <<vars, jwksVars, regVars, opVars, metricsVars, dedupVars, coverageVars,
                       scoringVars, inferenceVars, pagingVars, gymTableVars, nearbyVars>>
     \/ /\ Is("dedup") /\ DedupNext
        /\ UNCHANGED <<vars, jwksVars, regVars, opVars, metricsVars, migrateVars, coverageVars,
                       scoringVars, inferenceVars, pagingVars, gymTableVars, nearbyVars>>
     \/ /\ Is("coverage") /\ CoverageNext
        /\ UNCHANGED <<vars, jwksVars, regVars, opVars, metricsVars, migrateVars, dedupVars,
                       scoringVars, inferenceVars, pagingVars, gymTableVars, nearbyVars>>
     \/ /\ Is("scoring") /\ ScoringNext
        /\ UNCHANGED <<vars, jwksVars, regVars, opVars, metricsVars, migrateVars, dedupVars,
                       coverageVars, inferenceVars, pagingVars, gymTableVars, nearbyVars>>
     \/ /\ Is("inference") /\ InferenceNext
        /\ UNCHANGED <<vars, jwksVars, regVars, opVars, metricsVars, migrateVars, dedupVars,
                       coverageVars, scoringVars, pagingVars, gymTableVars, nearbyVars>>
     \/ /\ Is("paging") /\ PagingNext
        /\ UNCHANGED <<vars, jwksVars, regVars, opVars, metricsVars, migrateVars, dedupVars,
                       coverageVars, scoringVars, inferenceVars, gymTableVars, nearbyVars>>
     \/ /\ Is("gym table") /\ GymTableNext
        /\ UNCHANGED <<vars, jwksVars, regVars, opVars, metricsVars, migrateVars, dedupVars,
                       coverageVars, scoringVars, inferenceVars, pagingVars, nearbyVars>>
     \/ /\ Is("nearby") /\ NearbyNext
        /\ UNCHANGED <<vars, jwksVars, regVars, opVars, metricsVars, migrateVars, dedupVars,
                       coverageVars, scoringVars, inferenceVars, pagingVars, gymTableVars>>

ServicesSpec == ServicesInit /\ [][ServicesNext]_servicesVars

CovNames == {<<>>, <<1>>, <<1, 2>>, <<2>>}

(* Types of all of them.                                                     *)
ServicesTypeOK ==
  /\ TypeOK /\ JwksTypeOK /\ RegistryTypeOK /\ OpTypeOK /\ MetricsTypeOK /\ MigrateTypeOK
  /\ DedupTypeOK /\ CoverageTypeOK /\ ScoringTypeOK /\ InferenceTypeOK /\ PagingTypeOK
  /\ GymTableTypeOK /\ NearbyTypeOK
=============================================================================
