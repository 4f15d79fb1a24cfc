--------------------------------- MODULE Dedup ---------------------------------
(***************************************************************************)
(* deduplicate() of domain/processing.py: the OSM elements of an ingest    *)
(* are merged into gyms, one after the other, by name and distance.  Only  *)
(* gyms in the buckets next to the element's own are compared with it, and *)
(* the buckets are those of a projection that shears: metres to the east   *)
(* are counted from the prime meridian on the element's own latitude.      *)
(***************************************************************************)
EXTENDS Integers, Sequences, FiniteSets

CONSTANTS
  Names,        \* normalised names
  NoName,       \* an element without a name
  Eastings,     \* true distances to the east, in units of a third of Within
  Northings,    \* and to the north
  NoPlace,      \* an element without coordinates
  Within,       \* DEDUP_DISTANCE_METERS, and the size of a bucket
  Shear,        \* by how much the projection moves a point east per unit north
  MaxElements   \* bound: elements of an answer

ASSUME DedupAssumption ==
  /\ NoName \notin Names
  /\ Eastings \subseteq Int /\ Northings \subseteq Int
  /\ Within \in Nat \ {0} /\ Shear \in Int
  /\ MaxElements \in Nat

VARIABLES
  elements,  \* history: the elements that have been read, in their order
  gyms       \* the gyms they were merged into, in the order of their first one

dedupVars == <<elements, gyms>>

Points == [east : Eastings, north : Northings]
Elements == [name : Names \cup {NoName}, at : Points \cup {NoPlace}]

DedupInit == elements = <<>> /\ gyms = <<>>

----------------------------------------------------------------------------
(* haversine_meters, squared.                                              *)
Distance2(p, q) ==
  LET east == p.east - q.east
      north == p.north - q.north
  IN  east * east + north * north

Near(p, q) == Distance2(p, q) <= Within * Within

ProjectedEast(p) == p.east + Shear * p.north
BucketKey(p) == <<ProjectedEast(p) \div Within, p.north \div Within>>

(* The bucket itself and those around it, in the order of the search.      *)
NeighborKeys(bucket) ==
  [i \in 1..9 |-> <<bucket[1] + ((i - 1) \div 3) - 1, bucket[2] + ((i - 1) % 3) - 1>>]

(* <<i, g>>: the gym at g would be met in the i-th bucket of the search.   *)
Matches(el) ==
  LET keys == NeighborKeys(BucketKey(el.at))
  IN  {m \in (DOMAIN keys) \X (DOMAIN gyms) :
         /\ gyms[m[2]].name = el.name
         /\ BucketKey(gyms[m[2]].at) = keys[m[1]]
         /\ Near(el.at, gyms[m[2]].at)}

Precedes(m, n) == m[1] < n[1] \/ (m[1] = n[1] /\ m[2] <= n[2])
FirstMatch(el) == CHOOSE m \in Matches(el) : \A n \in Matches(el) : Precedes(m, n)

Located(el) == el.name # NoName /\ el.at # NoPlace
ReadElement(el) == Len(elements) < MaxElements /\ elements' = Append(elements, el)

PassOver(el) == ReadElement(el) /\ ~Located(el) /\ UNCHANGED gyms

(* Faulty variant: the gym moves to the element that was merged last.      *)
MergeElementMoving(el) ==
  /\ Located(el) /\ Matches(el) # {}
  /\ ReadElement(el)
  /\ gyms' = [gyms EXCEPT ![FirstMatch(el)[2]].refs = Append(@, Len(elements')),
                          ![FirstMatch(el)[2]].at = el.at]
MergeElement(el) ==
  /\ Located(el) /\ Matches(el) # {}
  /\ ReadElement(el)
  /\ gyms' = [gyms EXCEPT ![FirstMatch(el)[2]].refs = Append(@, Len(elements'))]

NewGym(el) ==
  /\ Located(el) /\ Matches(el) = {}
  /\ ReadElement(el)
  /\ gyms' = Append(gyms, [name |-> el.name, at |-> el.at, refs |-> <<Len(elements')>>])

DedupNext == \E el \in Elements : PassOver(el) \/ MergeElement(el) \/ NewGym(el)

DedupSpec == DedupInit /\ [][DedupNext]_dedupVars

----------------------------------------------------------------------------
(* Types of the deduplication.                                             *)
DedupTypeOK ==
  /\ elements \in Seq(Elements)
  /\ gyms \in Seq([name : Names, at : Points, refs : Seq(1..MaxElements)])

RefersTo(g, i) == \E j \in DOMAIN gyms[g].refs : gyms[g].refs[j] = i

(* Every element with a name and a place is a reference of exactly one gym: *)
(* one of its name, and within the distance of the gym's own place, however *)
(* many elements were merged into it in between.  No other element is one.  *)
EachPlacedOnce ==
  \A i \in DOMAIN elements :
    LET el == elements[i]
        gymsOf == {g \in DOMAIN gyms : RefersTo(g, i)}
    IN  IF Located(el)
        THEN \E g \in DOMAIN gyms :
               /\ gymsOf = {g} /\ gyms[g].name = el.name
               /\ Distance2(el.at, gyms[g].at) <= Within * Within
        ELSE gymsOf = {}

(* Two gyms of one name are farther apart than the distance, or farther    *)
(* apart than a bucket in the sheared projection: only that keeps          *)
(* duplicates ("Distance to consider gyms duplicates", config.py).         *)
KeptApart ==
  \A g, h \in DOMAIN gyms :
    g # h /\ gyms[g].name = gyms[h].name =>
      LET east == ProjectedEast(gyms[g].at) - ProjectedEast(gyms[h].at)
      IN  Distance2(gyms[g].at, gyms[h].at) > Within * Within \/ east > Within \/ east < -Within

(* The gyms part the elements, and are as far apart as the buckets see.    *)
DedupSound == EachPlacedOnce /\ KeptApart
=============================================================================
