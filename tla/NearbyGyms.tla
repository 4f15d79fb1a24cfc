------------------------------- MODULE NearbyGyms -------------------------------
(***************************************************************************)
(* GET /v2/gyms/geo/nearby: a box and the planar order choose candidates   *)
(* among the rows of the gyms table, the exact distance chooses among      *)
(* these.                                                                  *)
(***************************************************************************)
EXTENDS Integers, Sequences, SequencesExt, FiniteSets

CONSTANTS
  GymRows,    \* ids that rows may have
  Distances,  \* distances from where the client looks
  GeoRadius,  \* radius_m
  GeoLimit,   \* limit
  Candidates  \* GREATEST(limit * 50, 500)

ASSUME NearbyAssumption ==
  /\ IsFiniteSet(GymRows)
  /\ Distances \subseteq Nat /\ GeoRadius \in Nat
  /\ GeoLimit \in Nat \ {0} /\ Candidates \in Nat /\ Candidates >= GeoLimit

VARIABLES
  at,      \* where the rows are from where the client looks
  answer   \* pending, unavailable, or the ids that are answered

nearbyVars == <<at, answer>>

(* A row may be anywhere: at an exact distance on the spheroid, at another  *)
(* one in the plane of longitude and latitude, and in the box or not.       *)
(* Nothing relates the three: the box is cut from a sphere, it does not go  *)
(* on beyond 180 degrees, and a circle about a pole does not fit in it.     *)
Where == [distance : Distances, planar : Distances, boxed : BOOLEAN]

NearbyInit ==
  /\ at \in UNION {[rows -> Where] : rows \in SUBSET GymRows}
  /\ answer = [state |-> "pending", found |-> <<>>]

----------------------------------------------------------------------------
Farther(g, h) == at[g].distance > at[h].distance
First(seq, n) == SubSeq(seq, 1, IF Len(seq) < n THEN Len(seq) ELSE n)

(* Equal distances are in an order that the database chooses.              *)
OrderedBy(rows, Measure(_)) ==
  {seq \in [1..Cardinality(rows) -> rows] :
     /\ ToSet(seq) = rows
     /\ \A i, j \in DOMAIN seq : i < j => Measure(seq[i]) <= Measure(seq[j])}

(* Faulty variant: as many candidates as the answer has room for.          *)
CandidateSetsFew(rows) ==
  {ToSet(First(seq, GeoLimit)) :
     seq \in OrderedBy({g \in rows : at[g].boxed}, LAMBDA g : at[g].planar)}
CandidateSets(rows) ==
  {ToSet(First(seq, Candidates)) :
     seq \in OrderedBy({g \in rows : at[g].boxed}, LAMBDA g : at[g].planar)}

QueryNearby ==
  /\ answer.state = "pending"
  /\ \E candidates \in CandidateSets(DOMAIN at) :
       \E seq \in OrderedBy({g \in candidates : at[g].distance <= GeoRadius},
                             LAMBDA g : at[g].distance) :
         answer' = [state |-> "answered", found |-> First(seq, GeoLimit)]
  /\ UNCHANGED at

(* DatabaseUnavailable or QueryFailed.                                     *)
QueryNearbyFails ==
  /\ answer.state = "pending"
  /\ answer' = [state |-> "failed", found |-> <<>>]
  /\ UNCHANGED at

NearbyNext == QueryNearby \/ QueryNearbyFails

NearbySpec == NearbyInit /\ [][NearbyNext]_nearbyVars

----------------------------------------------------------------------------
(* Types of the nearby query.                                              *)
NearbyTypeOK ==
  /\ DOMAIN at \subseteq GymRows /\ \A g \in DOMAIN at : at[g] \in Where
  /\ answer.state \in {"pending", "answered", "failed"}
  /\ answer.found \in Seq(DOMAIN at) /\ Len(answer.found) <= GeoLimit

(* "ordered by exact geographic distance": the answer is ordered, and a     *)
(* row of the box within the radius that it misses is missed because the    *)
(* answer is full of rows that are no farther, or because as many others in *)
(* the box as there may be candidates are as near as that row in the plane. *)
NearestAnswered ==
  answer.state = "answered" =>
  LET within == {g \in DOMAIN at : at[g].boxed /\ at[g].distance <= GeoRadius}
  IN  /\ \A i, j \in DOMAIN answer.found : i < j => ~Farther(answer.found[i], answer.found[j])
      /\ ToSet(answer.found) \subseteq within
      /\ \A g \in within \ ToSet(answer.found) :
           \/ /\ Len(answer.found) = GeoLimit
              /\ \A i \in DOMAIN answer.found : ~Farther(answer.found[i], g)
           \/ Cardinality({h \in DOMAIN at \ {g} :
                              at[h].boxed /\ at[h].planar <= at[g].planar}) >= Candidates
=============================================================================
