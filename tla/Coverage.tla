-------------------------------- MODULE Coverage --------------------------------
(***************************************************************************)
(* apply_tomtom_coverage() of application/coverage.py, as an ingest calls  *)
(* it: every TomTom place chooses one gym near it, and every gym keeps the *)
(* best of the places that have chosen it.                                 *)
(***************************************************************************)
EXTENDS Integers, Sequences, SequencesExt

CONSTANTS
  PlaceNames,  \* normalised names, as sequences of words; <<>> is a name of
               \* which the normalisation leaves nothing
  Spots,       \* where gyms and places are, along a line
  MatchWithin, \* MATCH_DISTANCE_METERS
  GymCount,    \* bound: gyms of the ingest
  PlaceCount   \* bound: places of TomTom's answer

ASSUME CoverageAssumption ==
  /\ PlaceNames \subseteq Seq(Nat)
  /\ Spots \subseteq Int
  /\ MatchWithin \in Nat /\ GymCount \in Nat /\ PlaceCount \in Nat

VARIABLES
  osmGyms,  \* the deduplicated gyms
  places,   \* the places, of which those up to seen have been matched
  seen,
  matches,  \* the match of each place that was seen
  best      \* best_by_gym: the place whose match a gym keeps, or 0

coverageVars == <<osmGyms, places, seen, matches, best>>

Sighting == [name : PlaceNames, spot : Spots]
Statuses == {"matched", "name_mismatch", "missing_from_osm"}
Match == [status : Statuses, gym : 0..GymCount, distance : Nat]

CoverageInit ==
  /\ osmGyms \in [1..GymCount -> Sighting]
  /\ places = <<>>
  /\ seen = 0
  /\ matches = <<>>
  /\ best = [g \in 1..GymCount |-> 0]

----------------------------------------------------------------------------
Distance(p, g) ==
  LET d == p.spot - osmGyms[g].spot IN IF d < 0 THEN -d ELSE d

InReach(p) == {g \in DOMAIN osmGyms : Distance(p, g) <= MatchWithin}
SameName(p, g) == osmGyms[g].name = p.name
OneBegins(p, g) == IsPrefix(p.name, osmGyms[g].name) \/ IsPrefix(osmGyms[g].name, p.name)

(* The nearest of a set of gyms, and the first of those.                   *)
Nearest(p, candidates) ==
  CHOOSE g \in candidates :
    \A h \in candidates : Distance(p, g) < Distance(p, h)
                            \/ (Distance(p, g) = Distance(p, h) /\ g <= h)

(* best_osm_match(): 0 is None.                                            *)
BestOsmMatch(p) ==
  LET named == {g \in InReach(p) : SameName(p, g)}
      likely == {g \in InReach(p) : OneBegins(p, g)}
  IN  IF named # {} THEN Nearest(p, named)
      ELSE IF likely # {} THEN Nearest(p, likely) ELSE 0

Classify(p, g) ==
  IF g = 0 THEN [status |-> "missing_from_osm", gym |-> 0, distance |-> 0]
  ELSE [status |-> IF SameName(p, g) THEN "matched" ELSE "name_mismatch",
        gym |-> g, distance |-> Distance(p, g)]

Rank(m) == IF m.status = "matched" THEN 2 ELSE 1

(* _choose_better_match(): does the candidate replace what the gym has?    *)
(* Faulty variant: the nearer one wins, whatever its name.                 *)
BetterNearer(m, current) == m.distance < current.distance
Better(m, current) ==
  Rank(m) > Rank(current) \/ (Rank(m) = Rank(current) /\ m.distance < current.distance)

FindPlace(p) ==
  /\ Len(places) < PlaceCount
  /\ seen = 0
  /\ places' = Append(places, p)
  /\ UNCHANGED <<osmGyms, seen, matches, best>>

MatchPlace ==
  /\ seen < Len(places)
  /\ seen' = seen + 1
  /\ LET p == places[seen + 1]
         m == Classify(p, BestOsmMatch(p))
     IN  /\ matches' = Append(matches, m)
         /\ best' = IF m.gym = 0 THEN best
                    ELSE [best EXCEPT ![m.gym] =
                            IF @ = 0 \/ Better(m, matches[@]) THEN seen + 1 ELSE @]
  /\ UNCHANGED <<osmGyms, places>>

CoverageNext == (\E p \in Sighting : FindPlace(p)) \/ MatchPlace

CoverageSpec == CoverageInit /\ [][CoverageNext]_coverageVars

----------------------------------------------------------------------------
(* The match_status that the gym is given in the end.                      *)
MatchStatus(g) == IF best[g] = 0 THEN "unconfirmed" ELSE matches[best[g]].status

(* Types of the coverage.                                                  *)
CoverageTypeOK ==
  /\ osmGyms \in [1..GymCount -> Sighting]
  /\ places \in Seq(Sighting) /\ Len(places) <= PlaceCount
  /\ seen \in 0..Len(places)
  /\ matches \in Seq(Match) /\ Len(matches) = seen
  /\ best \in [1..GymCount -> 0..seen]

(* A gym is matched if and only if some place of its name lies within      *)
(* reach and no gym of that name is nearer to the place, and it then       *)
(* refers to the nearest of those places: neither the order of the places, *)
(* nor a nearer place of another name, takes the confirmation from it.     *)
ConfirmedByName ==
  \A g \in DOMAIN osmGyms :
    LET confirming == {i \in 1..seen :
          /\ SameName(places[i], g) /\ Distance(places[i], g) <= MatchWithin
          /\ \A h \in DOMAIN osmGyms :
               SameName(places[i], h) => \/ Distance(places[i], h) > Distance(places[i], g)
                                         \/ Distance(places[i], h) = Distance(places[i], g) /\ h >= g}
    IN  IF confirming = {} THEN MatchStatus(g) # "matched"
        ELSE /\ MatchStatus(g) = "matched"
             /\ best[g] \in confirming
             /\ \A i \in confirming : Distance(places[best[g]], g) <= Distance(places[i], g)

(* A gym that keeps a match of another name was chosen by no place of its  *)
(* own name, and no place that could have been that of a gym of its own    *)
(* name within reach has been given to it.                                 *)
MismatchIsLastResort ==
  \A g \in DOMAIN osmGyms :
    MatchStatus(g) = "name_mismatch" =>
      /\ \A i \in 1..seen : matches[i].gym = g => matches[i].status = "name_mismatch"
      /\ ~\E h \in InReach(places[best[g]]) : SameName(places[best[g]], h)

(* A status says what the places say of the gym.                           *)
CoverageTrue == ConfirmedByName /\ MismatchIsLastResort
=============================================================================
