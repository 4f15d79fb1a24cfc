---------------------------- MODULE GymDataProofs ----------------------------
(***************************************************************************)
(* What is done with gyms, for every value of the constants: they are      *)
(* deduplicated, compared with the places of OSM, looked for nearby,       *)
(* tagged, scored and listed in pages.  Each section has an inductive      *)
(* invariant and ends with its theorem.                                    *)
(***************************************************************************)
EXTENDS Dedup, Coverage, NearbyGyms, Inference, Scoring, Paging,
        FiniteSetTheorems, SequenceTheorems, WellFoundedInduction, TLAPS

(* A set of numbers that is not empty has a least one.                     *)
LEMMA LeastNumber ==
  ASSUME NEW T \in SUBSET Nat, T # {}
  PROVE  \E t \in T : \A u \in T : t <= u
<1>1. PICK t \in T : \A u \in T : ~ (<<u, t>> \in OpToRel(<, Nat))
  BY WFMin, NatLessThanWellFounded
<1>2. \A u \in T : ~ (u < t)  BY <1>1 DEF OpToRel
<1>3. QED  BY <1>2

(* The minimum and the maximum of two numbers.                             *)
LEMMA MinMaxOfTwo ==
  ASSUME NEW a \in Int, NEW b \in Int
  PROVE  /\ Min({a, b}) = IF a <= b THEN a ELSE b
         /\ Max({a, b}) = IF a >= b THEN a ELSE b
<1>1. Min({a, b}) = IF a <= b THEN a ELSE b
  <2>1. \E x \in {a, b} : \A y \in {a, b} : x <= y
    OBVIOUS
  <2>2. Min({a, b}) \in {a, b} /\ \A y \in {a, b} : Min({a, b}) <= y
    BY <2>1 DEF Min
  <2>3. QED
    BY <2>2
<1>2. Max({a, b}) = IF a >= b THEN a ELSE b
  <2>1. \E x \in {a, b} : \A y \in {a, b} : x >= y
    OBVIOUS
  <2>2. Max({a, b}) \in {a, b} /\ \A y \in {a, b} : Max({a, b}) >= y
    BY <2>1 DEF Max
  <2>3. QED
    BY <2>2
<1>3. QED
  BY <1>1, <1>2

----------------------------------------------------------------------------
(* Dedup: elements that are merged are one gym, and none is lost.          *)

(* Projections no farther apart than a bucket lie in it or a next one.     *)
LEMMA BucketsMeet ==
  ASSUME NEW a \in Int, NEW b \in Int, a - b <= Within, b - a <= Within
  PROVE  (a \div Within) - (b \div Within) \in {-1, 0, 1}
<1>1. PICK w \in Nat \ {0} : w = Within  BY DedupAssumption
<1>2. PICK x \in Int, y \in Int : x = a \div w /\ y = b \div w  BY <1>1
<1>3. PICK r \in 0..(w - 1), s \in 0..(w - 1) : a = w * x + r /\ b = w * y + s
  <2>1. a = w * (a \div w) + (a % w) /\ a % w \in 0..(w - 1)  BY <1>1
  <2>2. b = w * (b \div w) + (b % w) /\ b % w \in 0..(w - 1)  BY <1>1
  <2>3. QED  BY <1>2, <2>1, <2>2
<1>4. a - b <= w /\ b - a <= w  BY <1>1
<1>5. ~(x >= y + 2)
  <2> SUFFICES ASSUME x >= y + 2 PROVE FALSE  OBVIOUS
  <2>0. x - (y + 2) \in Nat  BY <1>2
  <2>1. PICK k \in Nat : k = x - (y + 2)  BY <2>0
  <2>2. w * x = w * y + 2 * w + w * k /\ w * k \in Nat /\ w * y \in Int
    <3>1. x = y + 2 + k  BY <1>2, <2>1
    <3>2. QED  BY <1>1, <1>2, <3>1
  <2>3. QED  BY <1>1, <1>3, <1>4, <2>2
<1>6. ~(y >= x + 2)
  <2> SUFFICES ASSUME y >= x + 2 PROVE FALSE  OBVIOUS
  <2>0. y - (x + 2) \in Nat  BY <1>2
  <2>1. PICK k \in Nat : k = y - (x + 2)  BY <2>0
  <2>2. w * y = w * x + 2 * w + w * k /\ w * k \in Nat /\ w * x \in Int
    <3>1. y = x + 2 + k  BY <1>2, <2>1
    <3>2. QED  BY <1>1, <1>2, <3>1
  <2>3. QED  BY <1>1, <1>3, <1>4, <2>2
<1>7. QED  BY <1>1, <1>2, <1>5, <1>6

(* A point farther to the north or south than the distance is not near.    *)
LEMMA FarNorth ==
  ASSUME NEW east \in Int, NEW north \in Int, north > Within \/ -north > Within
  PROVE  east * east + north * north > Within * Within
<1>1. PICK w \in Nat, n \in Nat : w = Within /\ n > w /\ (n = north \/ n = -north)
  BY DedupAssumption
<1>2. n * n = north * north /\ east * east >= 0
  BY <1>1
<1>3. n * n > w * w
  BY <1>1
<1>4. PICK e \in Int, x \in Int, y \in Int :
        e = east * east /\ x = north * north /\ y = w * w
  BY <1>1
<1>5. e >= 0 /\ x > y  BY <1>2, <1>3, <1>4
<1>6. QED  BY <1>1, <1>4, <1>5

(* Places and their projections are numbers.                               *)
LEMMA PointFacts ==
  ASSUME NEW p \in Points
  PROVE  p.east \in Int /\ p.north \in Int /\ ProjectedEast(p) \in Int
<1>1. PICK east \in Int, north \in Int, s \in Int :
        east = p.east /\ north = p.north /\ s = Shear
  BY DedupAssumption DEF Points
<1>2. east + s * north \in Int  OBVIOUS
<1>3. QED  BY <1>1, <1>2 DEF ProjectedEast

(* The search sees every place that is no farther than a bucket in both    *)
(* projected directions.                                                   *)
LEMMA SearchSees ==
  ASSUME NEW p \in Points, NEW q \in Points,
         ProjectedEast(p) - ProjectedEast(q) <= Within,
         ProjectedEast(q) - ProjectedEast(p) <= Within,
         p.north - q.north <= Within, q.north - p.north <= Within
  PROVE  \E i \in DOMAIN NeighborKeys(BucketKey(p)) : BucketKey(q) = NeighborKeys(BucketKey(p))[i]
<1>1. PICK a \in Int, b \in Int, c \in Int, d \in Int :
        /\ a = ProjectedEast(p) \div Within /\ b = p.north \div Within
        /\ c = ProjectedEast(q) \div Within /\ d = q.north \div Within
  BY PointFacts, DedupAssumption
<1>2. c - a \in {-1, 0, 1} /\ d - b \in {-1, 0, 1}
  BY <1>1, PointFacts, BucketsMeet
<1>3. PICK e \in {0, 1, 2}, f \in {0, 1, 2} : c = a + e - 1 /\ d = b + f - 1
  <2>1. PICK e \in {0, 1, 2} : e = (c - a) + 1  BY <1>2
  <2>2. PICK f \in {0, 1, 2} : f = (d - b) + 1  BY <1>2
  <2>3. c = a + e - 1 /\ d = b + f - 1  BY <2>1, <2>2
  <2>4. QED  BY <2>3
<1>4. PICK i \in 1..9 : (i - 1) \div 3 = e /\ (i - 1) % 3 = f
  <2>1. 3 * e + f + 1 \in 1..9  OBVIOUS
  <2>2. ((3 * e + f + 1) - 1) \div 3 = e /\ ((3 * e + f + 1) - 1) % 3 = f  OBVIOUS
  <2>3. QED  BY <2>1, <2>2
<1>5. a + ((i - 1) \div 3) - 1 = c /\ b + ((i - 1) % 3) - 1 = d
  BY <1>1, <1>3, <1>4
<1>6. NeighborKeys(BucketKey(p))[i] = <<c, d>> /\ i \in DOMAIN NeighborKeys(BucketKey(p))
  BY <1>1, <1>5 DEF NeighborKeys, BucketKey
<1>7. QED  BY <1>1, <1>6 DEF BucketKey

DedupInv ==
  /\ elements \in Seq(Elements)
  /\ gyms \in Seq([name : Names, at : Points, refs : Seq(1..MaxElements)])
  /\ Len(elements) <= MaxElements
  /\ \A g \in DOMAIN gyms : \A j \in DOMAIN gyms[g].refs : gyms[g].refs[j] \in DOMAIN elements
  /\ EachPlacedOnce /\ KeptApart

(* The types of the elements and of the gyms so far.                       *)
LEMMA DedupFacts ==
  ASSUME DedupInv
  PROVE  /\ Len(gyms) \in Nat /\ DOMAIN gyms = 1..Len(gyms)
         /\ Len(elements) \in Nat /\ DOMAIN elements = 1..Len(elements)
         /\ \A g \in DOMAIN gyms :
              /\ gyms[g] \in [name : Names, at : Points, refs : Seq(1..MaxElements)]
              /\ gyms[g].name \in Names /\ gyms[g].at \in Points
              /\ gyms[g].refs \in Seq(1..MaxElements)
<1>1. DOMAIN gyms = 1..Len(gyms) /\ \A g \in 1..Len(gyms) :
         gyms[g] \in [name : Names, at : Points, refs : Seq(1..MaxElements)]
  BY LenProperties, ElementOfSeq DEF DedupInv
<1>2. QED
  BY <1>1, LenProperties DEF DedupInv

(* RefersTo, of given gyms.                                                *)
RefersIn(rows, g, i) == \E j \in DOMAIN rows[g].refs : rows[g].refs[j] = i

(* A gym refers only to elements that have been read.                      *)
LEMMA RefsRead ==
  ASSUME DedupInv, NEW g \in DOMAIN gyms, NEW i, RefersIn(gyms, g, i)
  PROVE  i \in 1..Len(elements)
BY DedupFacts DEF DedupInv, RefersIn

(* The element i belongs to one of the gyms, if it has a name and a place. *)
PlacedOnce(rows, el, i) ==
  LET gymsOf == {g \in DOMAIN rows : RefersIn(rows, g, i)}
  IN  IF Located(el)
      THEN \E g \in DOMAIN rows :
             /\ gymsOf = {g} /\ rows[g].name = el.name
             /\ Distance2(el.at, rows[g].at) <= Within * Within
      ELSE gymsOf = {}

(* The property, element by element, before and after a step.              *)
LEMMA PlacedOnceFacts ==
  EachPlacedOnce <=> \A i \in DOMAIN elements : PlacedOnce(gyms, elements[i], i)
BY DEF EachPlacedOnce, PlacedOnce, RefersTo, RefersIn

LEMMA PlacedOncePrimed ==
  EachPlacedOnce' <=> \A i \in DOMAIN elements' : PlacedOnce(gyms', elements'[i], i)
BY DEF EachPlacedOnce, PlacedOnce, RefersTo, RefersIn

(* An element stays where it is when the gyms keep their names and places  *)
(* and no reference to it comes or goes.                                   *)
LEMMA PlacedOnceStays ==
  ASSUME NEW rows, NEW news, NEW el, NEW i, PlacedOnce(rows, el, i),
         DOMAIN rows \subseteq DOMAIN news,
         \A g \in DOMAIN rows : /\ news[g].name = rows[g].name /\ news[g].at = rows[g].at
                                /\ RefersIn(news, g, i) <=> RefersIn(rows, g, i),
         \A g \in DOMAIN news \ DOMAIN rows : ~RefersIn(news, g, i)
  PROVE  PlacedOnce(news, el, i)
<1>1. {g \in DOMAIN news : RefersIn(news, g, i)} = {g \in DOMAIN rows : RefersIn(rows, g, i)}
  OBVIOUS
<1>2. QED  BY <1>1 DEF PlacedOnce

(* The first match is one.                                                 *)
LEMMA FirstMatchFacts ==
  ASSUME DedupInv, NEW el, Matches(el) # {}
  PROVE  /\ FirstMatch(el) \in Matches(el)
         /\ FirstMatch(el)[2] \in DOMAIN gyms
         /\ gyms[FirstMatch(el)[2]].name = el.name
         /\ Near(el.at, gyms[FirstMatch(el)[2]].at)
<1>1. Matches(el) \subseteq (1..9) \X (DOMAIN gyms)
  BY DEF Matches, NeighborKeys
<1>2. DOMAIN gyms \subseteq Nat  BY DedupFacts
<1> DEFINE first == {m[1] : m \in Matches(el)}
<1>3. first \in SUBSET Nat /\ first # {}  BY <1>1
<1>4. PICK i \in first : \A j \in first : i <= j
  <2> HIDE DEF first
  <2>1. QED  BY <1>3, LeastNumber
<1> DEFINE second == {m[2] : m \in {n \in Matches(el) : n[1] = i}}
<1>5. second \in SUBSET Nat /\ second # {}  BY <1>1, <1>2
<1>6. PICK g \in second : \A h \in second : g <= h
  <2> HIDE DEF second
  <2>1. QED  BY <1>5, LeastNumber
<1>7. PICK m \in Matches(el) : m[1] = i /\ m[2] = g  BY <1>6
<1>8. \A n \in Matches(el) : Precedes(m, n)
  <2> SUFFICES ASSUME NEW n \in Matches(el) PROVE Precedes(m, n)  OBVIOUS
  <2>1. n[1] \in Nat /\ m[1] \in Nat /\ m[1] <= n[1]  BY <1>1, <1>4, <1>7
  <2>2. n[1] = m[1] => m[2] <= n[2]  BY <1>6, <1>7
  <2>3. QED  BY <2>1, <2>2 DEF Precedes
<1>9. FirstMatch(el) \in Matches(el)
  BY <1>8 DEF FirstMatch
<1>10. QED  BY <1>9 DEF Matches

(* An element that was read: what is known of those before it.             *)
LEMMA ReadFacts ==
  ASSUME DedupInv, NEW el \in Elements, ReadElement(el)
  PROVE  /\ elements' \in Seq(Elements) /\ Len(elements') = Len(elements) + 1
         /\ Len(elements') <= MaxElements
         /\ DOMAIN elements' = 1..(Len(elements) + 1)
         /\ \A i \in DOMAIN elements : elements'[i] = elements[i]
         /\ elements'[Len(elements) + 1] = el
<1>1. elements \in Seq(Elements) /\ elements' = Append(elements, el)
      /\ Len(elements) < MaxElements /\ MaxElements \in Nat
  BY DedupAssumption DEF DedupInv, ReadElement
<1>2. PICK n \in Nat : n = Len(elements) /\ DOMAIN elements = 1..n
  BY <1>1, LenProperties
<1>3. /\ elements' \in Seq(Elements) /\ Len(elements') = n + 1
      /\ \A i \in 1..n : elements'[i] = elements[i]
      /\ elements'[n + 1] = el
  BY <1>1, <1>2, AppendProperties
<1>4. DOMAIN elements' = 1..(n + 1)  BY <1>3, LenProperties
<1>5. QED  BY <1>1, <1>2, <1>3, <1>4

LEMMA PassOverKeeps ==
  ASSUME DedupInv, NEW el \in Elements, PassOver(el)
  PROVE  DedupInv'
<1>1. ReadElement(el) /\ ~Located(el) /\ gyms' = gyms  BY DEF PassOver
<1>2. PICK n \in Nat : n = Len(elements)  BY DedupFacts
<1>3. /\ elements' \in Seq(Elements) /\ Len(elements') = n + 1 /\ Len(elements') <= MaxElements
      /\ DOMAIN elements' = 1..(n + 1) /\ DOMAIN elements = 1..n
      /\ \A i \in 1..n : elements'[i] = elements[i]
      /\ elements'[n + 1] = el
  BY <1>1, <1>2, ReadFacts, DedupFacts
<1>5. \A g \in DOMAIN gyms : ~RefersIn(gyms, g, n + 1)
  BY <1>2, RefsRead
<1>6. EachPlacedOnce'
  <2>1. PlacedOnce(gyms, el, n + 1)
    BY <1>1, <1>5 DEF PlacedOnce
  <2>2. \A i \in 1..n : PlacedOnce(gyms, elements[i], i)
    BY <1>3, PlacedOnceFacts DEF DedupInv
  <2>3. QED  BY <1>1, <1>3, <2>1, <2>2, PlacedOncePrimed
<1>7. KeptApart'
  BY <1>1 DEF DedupInv, KeptApart
<1>8. QED  BY <1>1, <1>3, <1>6, <1>7 DEF DedupInv

(* Places that neither the distance nor a bucket keeps apart would match.  *)
LEMMA NoMatchIsApart ==
  ASSUME DedupInv, NEW el \in Elements, Located(el), Matches(el) = {},
         NEW g \in DOMAIN gyms, gyms[g].name = el.name
  PROVE  \/ Distance2(el.at, gyms[g].at) > Within * Within
         \/ ProjectedEast(el.at) - ProjectedEast(gyms[g].at) > Within
         \/ ProjectedEast(gyms[g].at) - ProjectedEast(el.at) > Within
<1>1. el.at \in Points /\ gyms[g].at \in Points
  BY DedupFacts DEF Located, Elements
<1>2. PICK p \in Points, q \in Points : p = el.at /\ q = gyms[g].at
  BY <1>1
<1>3. PICK e1 \in Int, e2 \in Int, n1 \in Int, n2 \in Int, w \in Nat :
        /\ e1 = ProjectedEast(p) /\ e2 = ProjectedEast(q)
        /\ n1 = p.north /\ n2 = q.north /\ w = Within
  BY PointFacts, DedupAssumption
<1>4. Distance2(p, q) \in Int
  <2>1. PICK x \in Int, y \in Int : x = p.east - q.east /\ y = p.north - q.north
    BY PointFacts
  <2>2. x * x + y * y \in Int  OBVIOUS
  <2>3. QED  BY <2>1, <2>2 DEF Distance2
<1>5. CASE e1 - e2 > w \/ e2 - e1 > w
  BY <1>2, <1>3, <1>5
<1>6. CASE n1 - n2 > w \/ n2 - n1 > w
  <2>1. PICK x \in Int, y \in Int : x = p.east - q.east /\ y = p.north - q.north
    BY PointFacts
  <2>2. y > Within \/ -y > Within  BY <1>3, <1>6, <2>1
  <2>3. x * x + y * y > Within * Within  BY <2>2, FarNorth
  <2>4. QED  BY <1>2, <2>1, <2>3 DEF Distance2
<1>7. CASE e1 - e2 <= w /\ e2 - e1 <= w /\ n1 - n2 <= w /\ n2 - n1 <= w
  <2>1. PICK i \in DOMAIN NeighborKeys(BucketKey(p)) :
          BucketKey(q) = NeighborKeys(BucketKey(p))[i]
    BY <1>3, <1>7, SearchSees
  <2>2. ~Near(p, q)
    <3> SUFFICES ASSUME Near(p, q) PROVE FALSE  OBVIOUS
    <3>1. <<i, g>> \in (DOMAIN NeighborKeys(BucketKey(p))) \X (DOMAIN gyms)  OBVIOUS
    <3>2. <<i, g>>[1] = i /\ <<i, g>>[2] = g  OBVIOUS
    <3>3. <<i, g>> \in Matches(el)
      BY <1>2, <2>1, <3>1, <3>2 DEF Matches
    <3>4. QED  BY <3>3
  <2>3. QED  BY <1>2, <1>4, <2>2, DedupAssumption DEF Near
<1>8. QED  BY <1>3, <1>5, <1>6, <1>7

LEMMA NewGymKeeps ==
  ASSUME DedupInv, NEW el \in Elements, NewGym(el)
  PROVE  DedupInv'
<1>1. Located(el) /\ Matches(el) = {} /\ ReadElement(el)  BY DEF NewGym
<1>2. PICK n \in Nat, k \in Nat : n = Len(elements) /\ k = Len(gyms)  BY DedupFacts
<1>3. /\ elements' \in Seq(Elements) /\ Len(elements') = n + 1 /\ Len(elements') <= MaxElements
      /\ DOMAIN elements' = 1..(n + 1) /\ DOMAIN elements = 1..n
      /\ \A i \in 1..n : elements'[i] = elements[i]
      /\ elements'[n + 1] = el
  BY <1>1, <1>2, ReadFacts, DedupFacts
<1> DEFINE gym == [name |-> el.name, at |-> el.at, refs |-> <<n + 1>>]
<1>4. gyms' = Append(gyms, gym)  BY <1>3 DEF NewGym
<1>5. gym \in [name : Names, at : Points, refs : Seq(1..MaxElements)]
      /\ el.name \in Names /\ el.at \in Points
  <2>1. n + 1 \in 1..MaxElements  BY <1>3, DedupAssumption
  <2>2. <<n + 1>> \in Seq(1..MaxElements)  BY <2>1
  <2>3. el.name \in Names /\ el.at \in Points  BY <1>1 DEF Located, Elements
  <2>4. QED  BY <2>2, <2>3
<1>6. gym.name = el.name /\ gym.at = el.at /\ gym.refs = <<n + 1>>
      /\ DOMAIN gym.refs = 1..1 /\ gym.refs[1] = n + 1
  OBVIOUS
<1> HIDE DEF gym
<1>7. /\ gyms' \in Seq([name : Names, at : Points, refs : Seq(1..MaxElements)])
      /\ DOMAIN gyms' = 1..(k + 1) /\ DOMAIN gyms = 1..k
      /\ \A g \in 1..k : gyms'[g] = gyms[g]
      /\ gyms'[k + 1] = gym
  <2>1. gyms \in Seq([name : Names, at : Points, refs : Seq(1..MaxElements)])
    BY DEF DedupInv
  <2>2. /\ gyms' \in Seq([name : Names, at : Points, refs : Seq(1..MaxElements)])
        /\ Len(gyms') = k + 1
        /\ \A g \in 1..k : gyms'[g] = gyms[g]
        /\ gyms'[k + 1] = gym
    BY <1>2, <1>4, <1>5, <2>1, AppendProperties
  <2>3. QED  BY <1>2, <2>1, <2>2, LenProperties
<1>8. /\ \A g \in 1..k : \A i : RefersIn(gyms', g, i) <=> RefersIn(gyms, g, i)
      /\ \A i : RefersIn(gyms', k + 1, i) <=> i = n + 1
  <2>1. ASSUME NEW g \in 1..k, NEW i PROVE RefersIn(gyms', g, i) <=> RefersIn(gyms, g, i)
    <3>1. gyms'[g] = gyms[g]  BY <1>7
    <3>2. QED  BY <3>1 DEF RefersIn
  <2>2. ASSUME NEW i PROVE RefersIn(gyms', k + 1, i) <=> i = n + 1
    <3>1. DOMAIN gyms'[k + 1].refs = {1} /\ gyms'[k + 1].refs[1] = n + 1
      BY <1>6, <1>7
    <3>2. QED  BY <3>1 DEF RefersIn
  <2>3. QED  BY <2>1, <2>2
<1>9. \A g \in 1..k : ~RefersIn(gyms, g, n + 1)
  <2>1. n + 1 \notin 1..Len(elements)  BY <1>2
  <2>2. QED  BY <1>7, <2>1, RefsRead
<1>10. \A g \in DOMAIN gyms' : \A j \in DOMAIN gyms'[g].refs : gyms'[g].refs[j] \in DOMAIN elements'
  <2> SUFFICES ASSUME NEW g \in 1..(k + 1), NEW j \in DOMAIN gyms'[g].refs
               PROVE  gyms'[g].refs[j] \in 1..(n + 1)
    BY <1>3, <1>7
  <2>1. CASE g = k + 1  BY <1>6, <1>7, <2>1
  <2>2. CASE g \in 1..k
    <3>1. gyms'[g].refs[j] \in DOMAIN elements  BY <1>7, <2>2 DEF DedupInv
    <3>2. QED  BY <1>3, <3>1
  <2>3. QED  BY <2>1, <2>2
<1>11. Distance2(el.at, el.at) <= Within * Within
  <2>1. PICK p \in Points : p = el.at  BY <1>5
  <2>2. p.east - p.east = 0 /\ p.north - p.north = 0  BY PointFacts
  <2>3. 0 * 0 + 0 * 0 = 0 /\ 0 <= Within * Within  BY DedupAssumption
  <2>4. QED  BY <2>1, <2>2, <2>3 DEF Distance2
<1>12. EachPlacedOnce'
  <2>1. PlacedOnce(gyms', el, n + 1)
    <3>1. {g \in 1..(k + 1) : RefersIn(gyms', g, n + 1)} = {k + 1}
      BY <1>8, <1>9
    <3>2. /\ gyms'[k + 1].name = el.name /\ k + 1 \in 1..(k + 1)
          /\ Distance2(el.at, gyms'[k + 1].at) <= Within * Within
      BY <1>6, <1>7, <1>11
    <3>3. QED  BY <1>1, <1>7, <3>1, <3>2 DEF PlacedOnce
  <2>2. ASSUME NEW i \in 1..n PROVE PlacedOnce(gyms', elements[i], i)
    <3>1. PlacedOnce(gyms, elements[i], i)
      BY <1>3, PlacedOnceFacts DEF DedupInv
    <3>2. DOMAIN gyms \subseteq DOMAIN gyms' /\ DOMAIN gyms' \ DOMAIN gyms = {k + 1}
      BY <1>7
    <3>3. \A g \in DOMAIN gyms : /\ gyms'[g].name = gyms[g].name /\ gyms'[g].at = gyms[g].at
                                 /\ RefersIn(gyms', g, i) <=> RefersIn(gyms, g, i)
      BY <1>7, <1>8
    <3>4. \A g \in DOMAIN gyms' \ DOMAIN gyms : ~RefersIn(gyms', g, i)
      BY <1>8, <3>2
    <3>5. QED  BY <3>1, <3>2, <3>3, <3>4, PlacedOnceStays
  <2>3. \A i \in 1..(n + 1) : PlacedOnce(gyms', elements'[i], i)
    BY <1>3, <2>1, <2>2
  <2>4. QED  BY <1>3, <2>3, PlacedOncePrimed
<1>13. KeptApart'
  <2>1. ASSUME NEW g \in 1..k, gyms[g].name = el.name
        PROVE  /\ \/ Distance2(el.at, gyms[g].at) > Within * Within
                  \/ ProjectedEast(el.at) - ProjectedEast(gyms[g].at) > Within
                  \/ ProjectedEast(el.at) - ProjectedEast(gyms[g].at) < -Within
               /\ \/ Distance2(gyms[g].at, el.at) > Within * Within
                  \/ ProjectedEast(gyms[g].at) - ProjectedEast(el.at) > Within
                  \/ ProjectedEast(gyms[g].at) - ProjectedEast(el.at) < -Within
    <3>1. PICK p \in Points, q \in Points : p = el.at /\ q = gyms[g].at
      BY <1>5, <1>7, DedupFacts
    <3>2. Distance2(q, p) = Distance2(p, q)
      <4>1. PICK a \in Int, b \in Int : a = p.east - q.east /\ b = p.north - q.north
        BY PointFacts
      <4>2. q.east - p.east = -a /\ q.north - p.north = -b  BY <4>1, PointFacts
      <4>3. (-a) * (-a) + (-b) * (-b) = a * a + b * b  OBVIOUS
      <4>4. QED  BY <4>1, <4>2, <4>3 DEF Distance2
    <3>3. PICK e1 \in Int, e2 \in Int, w \in Nat :
            e1 = ProjectedEast(p) /\ e2 = ProjectedEast(q) /\ w = Within
      BY PointFacts, DedupAssumption
    <3>4. Distance2(p, q) > Within * Within \/ e1 - e2 > w \/ e2 - e1 > w
      BY <1>1, <1>7, <2>1, <3>1, <3>3, NoMatchIsApart
    <3>5. e2 - e1 > w => e1 - e2 < -w  OBVIOUS
    <3>6. e1 - e2 > w => e2 - e1 < -w  OBVIOUS
    <3>7. QED  BY <3>1, <3>2, <3>3, <3>4, <3>5, <3>6
  <2>2. ASSUME NEW g \in 1..(k + 1), NEW h \in 1..(k + 1), g # h, gyms'[g].name = gyms'[h].name
        PROVE  \/ Distance2(gyms'[g].at, gyms'[h].at) > Within * Within
               \/ ProjectedEast(gyms'[g].at) - ProjectedEast(gyms'[h].at) > Within
               \/ ProjectedEast(gyms'[g].at) - ProjectedEast(gyms'[h].at) < -Within
    <3>1. CASE g \in 1..k /\ h \in 1..k
      BY <1>7, <2>2, <3>1 DEF DedupInv, KeptApart
    <3>2. CASE g = k + 1 /\ h \in 1..k
      BY <1>6, <1>7, <2>1, <2>2, <3>2
    <3>3. CASE g \in 1..k /\ h = k + 1
      BY <1>6, <1>7, <2>1, <2>2, <3>3
    <3>4. QED  BY <2>2, <3>1, <3>2, <3>3
  <2>3. QED  BY <1>7, <2>2 DEF KeptApart
<1>14. QED  BY <1>3, <1>7, <1>10, <1>12, <1>13 DEF DedupInv

LEMMA MergeKeeps ==
  ASSUME DedupInv, NEW el \in Elements, MergeElement(el)
  PROVE  DedupInv'
<1>1. Located(el) /\ Matches(el) # {} /\ ReadElement(el)  BY DEF MergeElement
<1>2. PICK n \in Nat, k \in Nat : n = Len(elements) /\ k = Len(gyms)  BY DedupFacts
<1>3. /\ elements' \in Seq(Elements) /\ Len(elements') = n + 1 /\ Len(elements') <= MaxElements
      /\ DOMAIN elements' = 1..(n + 1) /\ DOMAIN elements = 1..n
      /\ \A i \in 1..n : elements'[i] = elements[i]
      /\ elements'[n + 1] = el
  BY <1>1, <1>2, ReadFacts, DedupFacts
<1>4. PICK m \in 1..k : /\ m = FirstMatch(el)[2]
                        /\ gyms[m].name = el.name /\ Near(el.at, gyms[m].at)
  BY <1>1, <1>2, FirstMatchFacts, DedupFacts
<1>5. PICK refs \in Seq(1..MaxElements), r \in Nat :
        /\ refs = gyms[m].refs /\ r = Len(refs) /\ DOMAIN refs = 1..r
        /\ \A j \in 1..r : refs[j] \in 1..n
  <2>1. gyms[m].refs \in Seq(1..MaxElements)  BY <1>2, <1>4, DedupFacts
  <2>2. DOMAIN gyms[m].refs = 1..Len(gyms[m].refs) /\ Len(gyms[m].refs) \in Nat
    BY <2>1, LenProperties
  <2>3. \A j \in DOMAIN gyms[m].refs : gyms[m].refs[j] \in 1..n
    BY <1>2, <1>3, <1>4, DedupFacts DEF DedupInv
  <2>4. QED  BY <2>1, <2>2, <2>3
<1>5a. 1..(r + 1) = 1..r \cup {r + 1}
  OBVIOUS
<1>6. PICK more \in Seq(1..MaxElements) :
        /\ more = Append(refs, n + 1) /\ DOMAIN more = 1..(r + 1)
        /\ \A j \in 1..r : more[j] = refs[j]
        /\ more[r + 1] = n + 1
  <2>1. n + 1 \in 1..MaxElements  BY <1>3, DedupAssumption
  <2>2. PICK more \in Seq(1..MaxElements) :
          /\ more = Append(refs, n + 1) /\ Len(more) = r + 1
          /\ \A j \in 1..r : more[j] = refs[j]
          /\ more[r + 1] = n + 1
    <3>1. /\ Append(refs, n + 1) \in Seq(1..MaxElements) /\ Len(Append(refs, n + 1)) = Len(refs) + 1
          /\ \A j \in 1..Len(refs) : Append(refs, n + 1)[j] = refs[j]
          /\ Append(refs, n + 1)[Len(refs) + 1] = n + 1
      BY <2>1, AppendProperties
    <3>2. QED  BY <1>5, <3>1
  <2>3. DOMAIN more = 1..(r + 1)  BY <2>2, LenProperties
  <2>4. QED  BY <2>2, <2>3
<1>7. /\ DOMAIN gyms' = 1..k /\ DOMAIN gyms = 1..k
      /\ \A g \in 1..k \ {m} : gyms'[g] = gyms[g]
      /\ gyms'[m] = [gyms[m] EXCEPT !.refs = more]
  <2>1. gyms' = [gyms EXCEPT ![m].refs = Append(@, n + 1)]
    BY <1>3, <1>4 DEF MergeElement
  <2>2. gyms' = [gyms EXCEPT ![m] = [gyms[m] EXCEPT !.refs = more]]
    BY <1>5, <1>6, <2>1
  <2>3. DOMAIN gyms = 1..k  BY <1>2, DedupFacts
  <2>4. QED  BY <2>2, <2>3
<1>8. /\ gyms'[m] \in [name : Names, at : Points, refs : Seq(1..MaxElements)]
      /\ gyms'[m].refs = more
      /\ \A g \in 1..k : gyms'[g].name = gyms[g].name /\ gyms'[g].at = gyms[g].at
  <2>1. gyms[m] \in [name : Names, at : Points, refs : Seq(1..MaxElements)]
    BY <1>2, <1>4, DedupFacts
  <2>2. /\ [gyms[m] EXCEPT !.refs = more] \in [name : Names, at : Points, refs : Seq(1..MaxElements)]
        /\ [gyms[m] EXCEPT !.refs = more].refs = more
        /\ [gyms[m] EXCEPT !.refs = more].name = gyms[m].name
        /\ [gyms[m] EXCEPT !.refs = more].at = gyms[m].at
    BY <2>1
  <2>3. QED  BY <1>7, <2>2
<1>9. gyms' \in Seq([name : Names, at : Points, refs : Seq(1..MaxElements)])
  <2>1. \A g \in 1..k : gyms'[g] \in [name : Names, at : Points, refs : Seq(1..MaxElements)]
    BY <1>2, <1>7, <1>8, DedupFacts
  <2>2. gyms' \in [1..k -> [name : Names, at : Points, refs : Seq(1..MaxElements)]]
    <3>1. gyms' = [gyms EXCEPT ![m].refs = Append(@, n + 1)]
      BY <1>3, <1>4 DEF MergeElement
    <3>2. gyms' = [g \in 1..k |-> gyms'[g]]
      BY <1>7, <3>1
    <3>3. QED  BY <2>1, <3>2
  <2>3. \A S : \A x \in [1..k -> S] : x \in Seq(S)  OBVIOUS
  <2>4. QED  BY <2>2, <2>3
<1>10. ASSUME NEW g \in 1..k, NEW i
       PROVE  RefersIn(gyms', g, i) <=> (RefersIn(gyms, g, i) \/ (g = m /\ i = n + 1))
  <2>1. CASE g # m
    <3>1. gyms'[g] = gyms[g]  BY <1>7, <2>1
    <3>2. QED  BY <2>1, <3>1 DEF RefersIn
  <2>2. CASE g = m
    <3>1. RefersIn(gyms', m, i) <=> \E j \in 1..(r + 1) : more[j] = i
      BY <1>6, <1>8 DEF RefersIn
    <3>2. RefersIn(gyms, m, i) <=> \E j \in 1..r : refs[j] = i
      BY <1>5 DEF RefersIn
    <3>3. QED  BY <1>5a, <1>6, <2>2, <3>1, <3>2
  <2>3. QED  BY <2>1, <2>2
<1>11. \A g \in 1..k : ~RefersIn(gyms, g, n + 1)
  BY <1>2, <1>7, RefsRead
<1>12. \A g \in DOMAIN gyms' : \A j \in DOMAIN gyms'[g].refs : gyms'[g].refs[j] \in DOMAIN elements'
  <2> SUFFICES ASSUME NEW g \in 1..k, NEW j \in DOMAIN gyms'[g].refs
               PROVE  gyms'[g].refs[j] \in 1..(n + 1)
    BY <1>3, <1>7
  <2>1. CASE g = m
    <3>1. \A i \in 1..(r + 1) : more[i] \in 1..(n + 1)
      <4>1. QED  BY <1>5, <1>5a, <1>6
    <3>2. QED  BY <1>6, <1>8, <2>1, <3>1
  <2>2. CASE g # m
    <3>1. gyms'[g].refs[j] \in DOMAIN elements  BY <1>7, <2>2 DEF DedupInv
    <3>2. QED  BY <1>3, <3>1
  <2>3. QED  BY <2>1, <2>2
<1>13. EachPlacedOnce'
  <2>1. PlacedOnce(gyms', el, n + 1)
    <3>1. {g \in 1..k : RefersIn(gyms', g, n + 1)} = {m}
      BY <1>10, <1>11
    <3>2. /\ gyms'[m].name = el.name
          /\ Distance2(el.at, gyms'[m].at) <= Within * Within
      BY <1>4, <1>8 DEF Near
    <3>3. QED  BY <1>1, <1>7, <3>1, <3>2 DEF PlacedOnce
  <2>2. ASSUME NEW i \in 1..n PROVE PlacedOnce(gyms', elements[i], i)
    <3>1. PlacedOnce(gyms, elements[i], i)
      BY <1>3, PlacedOnceFacts DEF DedupInv
    <3>2. \A g \in DOMAIN gyms : /\ gyms'[g].name = gyms[g].name /\ gyms'[g].at = gyms[g].at
                                 /\ RefersIn(gyms', g, i) <=> RefersIn(gyms, g, i)
      <4>1. i # n + 1  OBVIOUS
      <4>2. QED  BY <1>7, <1>8, <1>10, <4>1
    <3>3. DOMAIN gyms \subseteq DOMAIN gyms' /\ DOMAIN gyms' \ DOMAIN gyms = {}
      BY <1>7
    <3>4. QED  BY <3>1, <3>2, <3>3, PlacedOnceStays
  <2>3. \A i \in 1..(n + 1) : PlacedOnce(gyms', elements'[i], i)
    BY <1>3, <2>1, <2>2
  <2>4. QED  BY <1>3, <2>3, PlacedOncePrimed
<1>14. KeptApart'
  BY <1>7, <1>8 DEF DedupInv, KeptApart
<1>15. QED  BY <1>3, <1>9, <1>12, <1>13, <1>14 DEF DedupInv

LEMMA DedupInvariant == DedupSpec => []DedupInv
<1>1. DedupInit => DedupInv
  <2> SUFFICES ASSUME DedupInit PROVE DedupInv
    OBVIOUS
  <2>1. elements = << >> /\ gyms = << >> /\ 1..0 = {}  BY DEF DedupInit
  <2>2. QED  BY <2>1, DedupAssumption DEF DedupInv, EachPlacedOnce, KeptApart
<1>2. DedupInv /\ [DedupNext]_dedupVars => DedupInv'
  <2> SUFFICES ASSUME DedupInv, [DedupNext]_dedupVars PROVE DedupInv'
    OBVIOUS
  <2>1. CASE DedupNext
    BY <2>1, PassOverKeeps, MergeKeeps, NewGymKeeps DEF DedupNext
  <2>2. CASE UNCHANGED dedupVars
    <3>1. EachPlacedOnce' <=> EachPlacedOnce
      BY <2>2, PlacedOnceFacts, PlacedOncePrimed DEF dedupVars
    <3>2. QED  BY <2>2, <3>1 DEF dedupVars, DedupInv, KeptApart
  <2>3. QED  BY <2>1, <2>2
<1>3. QED  BY <1>1, <1>2, PTL DEF DedupSpec

(* Every element with a name and a place belongs to exactly one gym, of    *)
(* its name and near it, and no two gyms of a name are so near that the    *)
(* search would have merged them (the deduplication of an ingest).         *)
THEOREM DedupIsSound == DedupSpec => []DedupSound
<1>1. DedupInv => DedupSound  BY DEF DedupInv, DedupSound
<1>2. QED  BY <1>1, DedupInvariant, PTL

LEMMA DedupTyped == DedupSpec => []DedupTypeOK
<1>1. DedupInv => DedupTypeOK  BY DEF DedupInv, DedupTypeOK
<1>2. QED  BY <1>1, DedupInvariant, PTL

----------------------------------------------------------------------------
(* Coverage: the report on the gyms that OSM has.                          *)

GymsRead == osmGyms \in [1..GymCount -> Sighting]

(* Distances are numbers.                                                  *)
LEMMA CoverageDistance ==
  ASSUME GymsRead, NEW p \in Sighting, NEW g \in 1..GymCount
  PROVE  Distance(p, g) \in Nat
<1>1. p.spot \in Int /\ osmGyms[g].spot \in Int
  BY CoverageAssumption DEF GymsRead, Sighting
<1>2. QED  BY <1>1 DEF Distance

(* The nearest gym is one of the candidates, and no other is as near with  *)
(* a smaller number.                                                       *)
LEMMA NearestFacts ==
  ASSUME GymsRead, NEW p \in Sighting, NEW candidates \in SUBSET (1..GymCount), candidates # {}
  PROVE  /\ Nearest(p, candidates) \in candidates
         /\ \A h \in candidates :
              \/ Distance(p, Nearest(p, candidates)) < Distance(p, h)
              \/ Distance(p, Nearest(p, candidates)) = Distance(p, h) /\ Nearest(p, candidates) <= h
<1> DEFINE far == {Distance(p, g) : g \in candidates}
<1>1. far \in SUBSET Nat /\ far # {}  BY CoverageDistance
<1>2. PICK d \in far : \A e \in far : d <= e
  <2> HIDE DEF far
  <2>1. QED  BY <1>1, LeastNumber
<1> DEFINE nearest == {g \in candidates : Distance(p, g) = d}
<1>3. nearest \in SUBSET Nat /\ nearest # {}  BY CoverageAssumption
<1>4. PICK g \in nearest : \A h \in nearest : g <= h
  <2> HIDE DEF nearest
  <2>1. QED  BY <1>3, LeastNumber
<1>5. \A h \in candidates : Distance(p, g) < Distance(p, h)
                              \/ (Distance(p, g) = Distance(p, h) /\ g <= h)
  <2> SUFFICES ASSUME NEW h \in candidates
               PROVE  Distance(p, g) < Distance(p, h)
                        \/ (Distance(p, g) = Distance(p, h) /\ g <= h)
    OBVIOUS
  <2>1. Distance(p, g) = d /\ d <= Distance(p, h) /\ d \in Nat /\ Distance(p, h) \in Nat
    BY <1>1, <1>2, CoverageDistance
  <2>2. Distance(p, h) = d => g <= h  BY <1>4
  <2>3. QED  BY <2>1, <2>2
<1>6. QED  BY <1>5 DEF Nearest

(* The best match is in reach, and the nearest of its name if there is one.*)
LEMMA BestMatchFacts ==
  ASSUME GymsRead, NEW p \in Sighting
  PROVE  /\ BestOsmMatch(p) \in 0..GymCount
         /\ BestOsmMatch(p) # 0 => BestOsmMatch(p) \in InReach(p)
         /\ (\E h \in InReach(p) : SameName(p, h)) =>
              /\ BestOsmMatch(p) # 0 /\ SameName(p, BestOsmMatch(p))
              /\ \A h \in InReach(p) : SameName(p, h) =>
                   \/ Distance(p, BestOsmMatch(p)) < Distance(p, h)
                   \/ Distance(p, BestOsmMatch(p)) = Distance(p, h) /\ BestOsmMatch(p) <= h
<1> DEFINE named == {g \in InReach(p) : SameName(p, g)}
           likely == {g \in InReach(p) : OneBegins(p, g)}
<1>1. InReach(p) \subseteq 1..GymCount /\ named \subseteq 1..GymCount /\ likely \subseteq 1..GymCount
  BY DEF InReach, GymsRead
<1>2. BestOsmMatch(p) = IF named # {} THEN Nearest(p, named)
                        ELSE IF likely # {} THEN Nearest(p, likely) ELSE 0
  BY DEF BestOsmMatch
<1>3. CASE named # {}
  <2>1. /\ Nearest(p, named) \in named
        /\ \A h \in named :
             \/ Distance(p, Nearest(p, named)) < Distance(p, h)
             \/ Distance(p, Nearest(p, named)) = Distance(p, h) /\ Nearest(p, named) <= h
    <3> HIDE DEF named
    <3>1. QED  BY <1>1, <1>3, NearestFacts
  <2>2. BestOsmMatch(p) = Nearest(p, named)  BY <1>2, <1>3
  <2>3. BestOsmMatch(p) \in 1..GymCount  BY <1>1, <2>1, <2>2
  <2>4. QED  BY <2>1, <2>2, <2>3, CoverageAssumption
<1>4. CASE named = {} /\ likely # {}
  <2>1. Nearest(p, likely) \in likely
    <3> HIDE DEF likely
    <3>1. QED  BY <1>1, <1>4, NearestFacts
  <2>2. BestOsmMatch(p) = Nearest(p, likely)  BY <1>2, <1>4
  <2>3. BestOsmMatch(p) \in 1..GymCount  BY <1>1, <2>1, <2>2
  <2>4. QED  BY <1>4, <2>1, <2>2, <2>3, CoverageAssumption
<1>5. CASE named = {} /\ likely = {}
  <2>1. BestOsmMatch(p) = 0  BY <1>2, <1>5
  <2>2. QED  BY <1>5, <2>1, CoverageAssumption
<1>6. QED  BY <1>3, <1>4, <1>5

(* What a match says of its place and its gym.                             *)
LEMMA ClassifyFacts ==
  ASSUME GymsRead, NEW p \in Sighting
  PROVE  LET m == Classify(p, BestOsmMatch(p))
         IN  /\ m \in Match /\ m.gym = BestOsmMatch(p)
             /\ m.gym # 0 => /\ m.distance = Distance(p, m.gym)
                             /\ m.status = IF SameName(p, m.gym) THEN "matched" ELSE "name_mismatch"
             /\ m.gym = 0 => m.status = "missing_from_osm"
<1>1. PICK g \in 0..GymCount : g = BestOsmMatch(p)
  BY BestMatchFacts
<1>2. CASE g = 0
  BY <1>1, <1>2 DEF Classify, Match, Statuses
<1>3. CASE g # 0
  <2>1. g \in 1..GymCount  BY <1>3, CoverageAssumption
  <2>2. Distance(p, g) \in Nat  BY <2>1, CoverageDistance
  <2>3. QED  BY <1>1, <1>3, <2>2 DEF Classify, Match, Statuses
<1>4. QED  BY <1>2, <1>3

(* The match that a gym keeps, of the given ones.                          *)
BestOf(b, rows, g) ==
  IF b = 0 THEN \A i \in DOMAIN rows : rows[i].gym # g
  ELSE /\ b \in DOMAIN rows /\ rows[b].gym = g
       /\ \A i \in DOMAIN rows : rows[i].gym = g => ~Better(rows[i], rows[b])

CoverageInv ==
  /\ CoverageTypeOK
  /\ \A i \in 1..seen : \A p \in Sighting :
       p = places[i] => matches[i] = Classify(p, BestOsmMatch(p))
  /\ \A g \in 1..GymCount : BestOf(best[g], matches, g)

(* The types of the matches so far.                                        *)
LEMMA CoverageFacts ==
  ASSUME CoverageInv
  PROVE  /\ GymsRead /\ seen \in Nat /\ DOMAIN matches = 1..seen /\ DOMAIN osmGyms = 1..GymCount
         /\ \A i \in 1..seen : matches[i] \in Match /\ places[i] \in Sighting
         /\ DOMAIN best = 1..GymCount
         /\ \A g \in 1..GymCount : best[g] \in 0..seen
<1>1. /\ places \in Seq(Sighting) /\ Len(places) \in Nat /\ seen \in 0..Len(places)
      /\ matches \in Seq(Match) /\ Len(matches) = seen
  BY LenProperties DEF CoverageInv, CoverageTypeOK
<1>2. /\ \A i \in 1..Len(places) : places[i] \in Sighting
      /\ \A i \in 1..Len(matches) : matches[i] \in Match
      /\ DOMAIN matches = 1..Len(matches)
  BY <1>1, ElementOfSeq, LenProperties
<1>3. QED  BY <1>1, <1>2 DEF CoverageInv, CoverageTypeOK, GymsRead

(* A match depends on nothing that a step changes.                         *)
LEMMA ClassifyStays ==
  ASSUME osmGyms' = osmGyms, NEW q \in Sighting
  PROVE  (Classify(q, BestOsmMatch(q)))' = Classify(q, BestOsmMatch(q))
BY DEF Classify, BestOsmMatch, Nearest, InReach, SameName, OneBegins, Distance

LEMMA FindPlaceKeeps ==
  ASSUME CoverageInv, NEW p \in Sighting, FindPlace(p)
  PROVE  CoverageInv'
<1>1. /\ seen = 0 /\ places' = Append(places, p) /\ Len(places) < PlaceCount
      /\ UNCHANGED <<osmGyms, seen, matches, best>>
  BY DEF FindPlace
<1>2. places' \in Seq(Sighting) /\ Len(places') = Len(places) + 1
  BY <1>1, AppendProperties DEF CoverageInv, CoverageTypeOK
<1>3. Len(places) \in Nat  BY LenProperties DEF CoverageInv, CoverageTypeOK
<1>4. CoverageTypeOK'
  BY <1>1, <1>2, <1>3, CoverageAssumption DEF CoverageInv, CoverageTypeOK
<1>5. 1..0 = {}  OBVIOUS
<1>6. QED  BY <1>1, <1>4, <1>5 DEF CoverageInv

LEMMA MatchPlaceKeeps ==
  ASSUME CoverageInv, MatchPlace
  PROVE  CoverageInv'
<1>1. PICK n \in Nat : n = seen  BY CoverageFacts
<1>2. /\ n < Len(places) /\ seen' = n + 1 /\ osmGyms' = osmGyms /\ places' = places
      /\ GymsRead /\ DOMAIN matches = 1..n
  BY <1>1, CoverageFacts DEF MatchPlace
<1>3. PICK p \in Sighting : p = places[n + 1]
  <2>1. places \in Seq(Sighting) /\ Len(places) \in Nat
    BY LenProperties DEF CoverageInv, CoverageTypeOK
  <2>2. n + 1 \in 1..Len(places)  BY <1>2, <2>1
  <2>3. QED  BY <2>1, <2>2, ElementOfSeq
<1>4. PICK m \in Match : m = Classify(p, BestOsmMatch(p))
  BY <1>2, ClassifyFacts
<1>5. /\ matches' = Append(matches, m)
      /\ best' = IF m.gym = 0 THEN best
                 ELSE [best EXCEPT ![m.gym] =
                         IF @ = 0 \/ Better(m, matches[@]) THEN n + 1 ELSE @]
  BY <1>1, <1>3, <1>4 DEF MatchPlace
<1>6. /\ matches' \in Seq(Match) /\ Len(matches') = n + 1 /\ DOMAIN matches' = 1..(n + 1)
      /\ \A i \in 1..n : matches'[i] = matches[i]
      /\ matches'[n + 1] = m
  <2>1. matches \in Seq(Match) /\ Len(matches) = n
    BY <1>1 DEF CoverageInv, CoverageTypeOK
  <2>2. /\ Append(matches, m) \in Seq(Match) /\ Len(Append(matches, m)) = Len(matches) + 1
        /\ \A i \in 1..Len(matches) : Append(matches, m)[i] = matches[i]
        /\ Append(matches, m)[Len(matches) + 1] = m
    BY <2>1, AppendProperties
  <2>3. /\ matches' \in Seq(Match) /\ Len(matches') = n + 1
        /\ \A i \in 1..n : matches'[i] = matches[i]
        /\ matches'[n + 1] = m
    BY <1>5, <2>1, <2>2
  <2>4. QED  BY <2>3, LenProperties
<1>7. m.gym \in 0..GymCount /\ m.distance \in Nat /\ Rank(m) \in {1, 2}
  BY DEF Match, Rank
<1>8. ASSUME NEW g \in 1..GymCount
      PROVE  /\ best'[g] \in 0..(n + 1)
             /\ BestOf(best'[g], matches', g)
  <2>1. PICK b \in 0..n : b = best[g]  BY <1>1, CoverageFacts
  <2>2. BestOf(b, matches, g)  BY <2>1 DEF CoverageInv
  <2>3. DOMAIN best = 1..GymCount  BY CoverageFacts
  <2>4. CASE g # m.gym
    <3>1. best'[g] = b  BY <1>5, <2>1, <2>3, <2>4
    <3>2. \A i \in 1..(n + 1) : matches'[i].gym = g => i \in 1..n
      BY <1>6, <2>4
    <3>3. BestOf(b, matches', g)
      <4>1. CASE b = 0  BY <1>2, <1>6, <2>2, <3>2, <4>1 DEF BestOf
      <4>2. CASE b # 0
        <5>1. b \in 1..n /\ b \in 1..(n + 1)  BY <4>2
        <5>2. QED  BY <1>2, <1>6, <2>2, <3>2, <4>2, <5>1 DEF BestOf
      <4>3. QED  BY <4>1, <4>2
    <3>4. QED  BY <3>1, <3>3
  <2>5. CASE g = m.gym
    <3>1. best'[g] = IF b = 0 \/ Better(m, matches[b]) THEN n + 1 ELSE b
      BY <1>5, <2>1, <2>3, <2>5, CoverageAssumption
    <3>2. ~Better(m, m)
      BY <1>7 DEF Better
    <3>3. CASE b = 0
      <4>1. best'[g] = n + 1  BY <3>1, <3>3
      <4>2. \A i \in 1..n : matches'[i].gym # g
        BY <1>2, <1>6, <2>2, <3>3 DEF BestOf
      <4>3. QED  BY <1>6, <2>5, <3>2, <4>1, <4>2 DEF BestOf
    <3>4. CASE b # 0 /\ Better(m, matches[b])
      <4>1. best'[g] = n + 1  BY <3>1, <3>4
      <4>2. b \in 1..n  BY <3>4
      <4>3. ASSUME NEW i \in 1..n, matches[i].gym = g PROVE ~Better(matches[i], m)
        <5>1. ~Better(matches[i], matches[b])
          BY <1>2, <2>2, <3>4, <4>3 DEF BestOf
        <5>2. matches[i] \in Match /\ matches[b] \in Match
          BY <1>1, <4>2, CoverageFacts
        <5>3. /\ Rank(matches[i]) \in {1, 2} /\ Rank(matches[b]) \in {1, 2}
              /\ matches[i].distance \in Nat /\ matches[b].distance \in Nat
          BY <5>2 DEF Match, Rank
        <5>4. QED  BY <1>7, <3>4, <5>1, <5>3 DEF Better
      <4>4. QED  BY <1>6, <2>5, <3>2, <4>1, <4>3 DEF BestOf
    <3>5. CASE b # 0 /\ ~Better(m, matches[b])
      <4>1. best'[g] = b /\ b \in 1..n /\ b \in 1..(n + 1)  BY <3>1, <3>5
      <4>2. \A i \in 1..n : matches[i].gym = g => ~Better(matches[i], matches[b])
        BY <1>2, <2>2, <3>5 DEF BestOf
      <4>3. matches'[b] = matches[b] /\ matches[b].gym = g
        BY <1>2, <1>6, <2>2, <3>5, <4>1 DEF BestOf
      <4>4. \A i \in 1..(n + 1) : matches'[i].gym = g => ~Better(matches'[i], matches'[b])
        <5>1. \A i \in 1..(n + 1) : i \in 1..n \/ i = n + 1  OBVIOUS
        <5>2. QED  BY <1>6, <3>5, <4>2, <4>3, <5>1
      <4>5. QED  BY <1>6, <3>5, <4>1, <4>3, <4>4 DEF BestOf
    <3>6. QED  BY <3>3, <3>4, <3>5
  <2>6. QED  BY <2>4, <2>5
<1>9. CoverageTypeOK'
  <2>1. /\ osmGyms' \in [1..GymCount -> Sighting] /\ places' \in Seq(Sighting)
        /\ Len(places') <= PlaceCount /\ Len(places) \in Nat
    BY <1>2, LenProperties DEF CoverageInv, CoverageTypeOK
  <2>2. n + 1 \in 0..Len(places)  BY <1>2, <2>1
  <2>3. best' \in [1..GymCount -> 0..(n + 1)]
    <3>1. DOMAIN best' = 1..GymCount /\ best' = [g \in 1..GymCount |-> best'[g]]
      BY <1>5 DEF CoverageInv, CoverageTypeOK
    <3>2. QED  BY <1>8, <3>1
  <2>4. QED  BY <1>2, <1>6, <2>1, <2>2, <2>3 DEF CoverageTypeOK
<1>10. ASSUME NEW q \in Sighting
       PROVE  (Classify(q, BestOsmMatch(q)))' = Classify(q, BestOsmMatch(q))
  BY <1>2, ClassifyStays
<1>11. \A i \in 1..(n + 1) : \A q \in Sighting :
         q = places[i] => matches'[i] = Classify(q, BestOsmMatch(q))
  <2>1. \A i \in 1..(n + 1) : i \in 1..n \/ i = n + 1  OBVIOUS
  <2>2. QED  BY <1>1, <1>3, <1>4, <1>6, <2>1 DEF CoverageInv
<1>12. (\A g \in 1..GymCount : BestOf(best[g], matches, g))'
  BY <1>8 DEF BestOf, Better, Rank
<1>13. QED  BY <1>2, <1>9, <1>10, <1>11, <1>12 DEF CoverageInv

(* A place confirms a gym if and only if it is matched with it.            *)
LEMMA ConfirmingFacts ==
  ASSUME CoverageInv, NEW g \in 1..GymCount, NEW i \in 1..seen
  PROVE  (/\ SameName(places[i], g) /\ Distance(places[i], g) <= MatchWithin
          /\ \A h \in DOMAIN osmGyms :
               SameName(places[i], h) => \/ Distance(places[i], h) > Distance(places[i], g)
                                         \/ Distance(places[i], h) = Distance(places[i], g) /\ h >= g)
         <=> matches[i].status = "matched" /\ matches[i].gym = g
<1>1. PICK p \in Sighting : p = places[i]  BY CoverageFacts
<1>2. PICK b \in 0..GymCount : b = BestOsmMatch(p)
  BY CoverageFacts, BestMatchFacts
<1>3. GymsRead /\ DOMAIN osmGyms = 1..GymCount  BY CoverageFacts
<1>4. /\ matches[i].gym = b
      /\ b # 0 => (matches[i].status = "matched" <=> SameName(p, b))
      /\ b = 0 => matches[i].status # "matched"
  BY <1>1, <1>2, <1>3, ClassifyFacts DEF CoverageInv
<1>5. InReach(p) = {h \in 1..GymCount : Distance(p, h) <= MatchWithin}
  BY <1>3 DEF InReach
<1>6. g # 0 /\ g \in Nat  OBVIOUS
<1>7. ASSUME SameName(p, g), Distance(p, g) <= MatchWithin,
             \A h \in 1..GymCount : SameName(p, h) => \/ Distance(p, h) > Distance(p, g)
                                                      \/ Distance(p, h) = Distance(p, g) /\ h >= g
      PROVE  matches[i].status = "matched" /\ matches[i].gym = g
  <2>1. g \in InReach(p)  BY <1>5, <1>7
  <2>2. /\ b # 0 /\ SameName(p, b) /\ b \in InReach(p)
        /\ Distance(p, b) < Distance(p, g) \/ (Distance(p, b) = Distance(p, g) /\ b <= g)
    BY <1>2, <1>3, <1>7, <2>1, BestMatchFacts
  <2>3. b \in 1..GymCount  BY <1>5, <2>2
  <2>4. Distance(p, b) \in Nat /\ Distance(p, g) \in Nat
    BY <1>3, <2>3, CoverageDistance
  <2>5. Distance(p, b) > Distance(p, g) \/ (Distance(p, b) = Distance(p, g) /\ b >= g)
    BY <1>7, <2>2, <2>3
  <2>6. b = g  BY <2>2, <2>3, <2>4, <2>5
  <2>7. QED  BY <1>4, <2>2, <2>6
<1>8. ASSUME matches[i].status = "matched", matches[i].gym = g
      PROVE  /\ SameName(p, g) /\ Distance(p, g) <= MatchWithin
             /\ \A h \in 1..GymCount : SameName(p, h) => \/ Distance(p, h) > Distance(p, g)
                                                         \/ Distance(p, h) = Distance(p, g) /\ h >= g
  <2>1. b = g /\ SameName(p, g) /\ g \in InReach(p)
    BY <1>2, <1>3, <1>4, <1>6, <1>8, BestMatchFacts
  <2>2. Distance(p, g) <= MatchWithin  BY <1>5, <2>1
  <2>3. ASSUME NEW h \in 1..GymCount, SameName(p, h)
        PROVE  \/ Distance(p, h) > Distance(p, g)
               \/ Distance(p, h) = Distance(p, g) /\ h >= g
    <3>1. Distance(p, h) \in Nat /\ Distance(p, g) \in Nat /\ MatchWithin \in Nat
      BY <1>3, CoverageDistance, CoverageAssumption
    <3>2. CASE h \in InReach(p)
      <4>1. Distance(p, g) < Distance(p, h) \/ (Distance(p, g) = Distance(p, h) /\ g <= h)
        BY <1>2, <1>3, <2>1, <2>3, <3>2, BestMatchFacts
      <4>2. QED  BY <3>1, <4>1
    <3>3. CASE h \notin InReach(p)
      BY <1>5, <2>2, <3>1, <3>3
    <3>4. QED  BY <3>2, <3>3
  <2>4. QED  BY <2>1, <2>2, <2>3
<1>9. QED  BY <1>1, <1>3, <1>7, <1>8

LEMMA CoverageInvTrue ==
  ASSUME CoverageInv
  PROVE  CoverageTrue
<1>1. /\ GymsRead /\ seen \in Nat /\ DOMAIN matches = 1..seen /\ DOMAIN osmGyms = 1..GymCount
      /\ \A i \in 1..seen : matches[i] \in Match /\ places[i] \in Sighting
  BY CoverageFacts
<1>2. \A i \in 1..seen : /\ Rank(matches[i]) \in {1, 2} /\ matches[i].distance \in Nat
                         /\ (Rank(matches[i]) = 2 <=> matches[i].status = "matched")
  BY <1>1 DEF Match, Rank
<1>3. ASSUME NEW g \in 1..GymCount, best[g] # 0
      PROVE  /\ best[g] \in 1..seen /\ matches[best[g]].gym = g
             /\ \A i \in 1..seen : matches[i].gym = g => ~Better(matches[i], matches[best[g]])
             /\ MatchStatus(g) = matches[best[g]].status
  BY <1>1, <1>3 DEF CoverageInv, BestOf, MatchStatus
<1>4. ASSUME NEW g \in 1..GymCount, best[g] = 0
      PROVE  MatchStatus(g) = "unconfirmed" /\ \A i \in 1..seen : matches[i].gym # g
  BY <1>1, <1>4 DEF CoverageInv, BestOf, MatchStatus
<1>5. ASSUME NEW i \in 1..seen, matches[i].gym # 0
      PROVE  /\ matches[i].distance = Distance(places[i], matches[i].gym)
             /\ matches[i].status \in {"matched", "name_mismatch"}
             /\ matches[i].status = "name_mismatch" => ~\E h \in InReach(places[i]) : SameName(places[i], h)
  <2>1. PICK p \in Sighting : p = places[i]  BY <1>1
  <2>2. matches[i] = Classify(p, BestOsmMatch(p))  BY <2>1 DEF CoverageInv
  <2>3. QED  BY <1>1, <1>5, <2>1, <2>2, ClassifyFacts, BestMatchFacts
<1>6. ConfirmedByName
  <2> SUFFICES ASSUME NEW g \in 1..GymCount
               PROVE LET confirming == {i \in 1..seen :
                           /\ SameName(places[i], g) /\ Distance(places[i], g) <= MatchWithin
                           /\ \A h \in DOMAIN osmGyms :
                                SameName(places[i], h) =>
                                  \/ Distance(places[i], h) > Distance(places[i], g)
                                  \/ Distance(places[i], h) = Distance(places[i], g) /\ h >= g}
                     IN  IF confirming = {} THEN MatchStatus(g) # "matched"
                         ELSE /\ MatchStatus(g) = "matched"
                              /\ best[g] \in confirming
                              /\ \A i \in confirming : Distance(places[best[g]], g) <= Distance(places[i], g)
    BY <1>1 DEF ConfirmedByName
  <2> DEFINE confirming == {i \in 1..seen : matches[i].status = "matched" /\ matches[i].gym = g}
  <2>1. {i \in 1..seen :
           /\ SameName(places[i], g) /\ Distance(places[i], g) <= MatchWithin
           /\ \A h \in DOMAIN osmGyms :
                SameName(places[i], h) =>
                  \/ Distance(places[i], h) > Distance(places[i], g)
                  \/ Distance(places[i], h) = Distance(places[i], g) /\ h >= g} = confirming
    BY ConfirmingFacts
  <2>2. CASE confirming = {}
    <3>1. MatchStatus(g) # "matched"  BY <1>3, <1>4, <2>2
    <3>2. QED  BY <2>1, <2>2, <3>1
  <2>3. CASE confirming # {}
    <3>1. PICK j \in confirming : TRUE  BY <2>3
    <3>2. best[g] # 0  BY <1>4, <3>1
    <3>3. PICK b \in 1..seen : b = best[g]  BY <1>3, <3>2
    <3>4. ~Better(matches[j], matches[b]) /\ matches[b].gym = g /\ MatchStatus(g) = matches[b].status
      BY <1>3, <3>1, <3>2, <3>3
    <3>5. Rank(matches[b]) = 2  BY <1>2, <3>1, <3>4 DEF Better
    <3>6. matches[b].status = "matched" /\ b \in confirming  BY <1>2, <3>4, <3>5
    <3>7. ASSUME NEW i \in confirming PROVE Distance(places[b], g) <= Distance(places[i], g)
      <4>1. ~Better(matches[i], matches[b])  BY <1>3, <3>2, <3>3
      <4>2. matches[b].distance <= matches[i].distance
        BY <1>2, <3>5, <4>1 DEF Better
      <4>3. g # 0  OBVIOUS
      <4>4. matches[i].distance = Distance(places[i], g) /\ matches[b].distance = Distance(places[b], g)
        BY <1>5, <3>4, <4>3
      <4>5. QED  BY <4>2, <4>4
    <3>8. QED  BY <2>1, <2>3, <3>3, <3>4, <3>6, <3>7
  <2>4. QED  BY <2>2, <2>3
<1>7. MismatchIsLastResort
  <2> SUFFICES ASSUME NEW g \in 1..GymCount, MatchStatus(g) = "name_mismatch"
               PROVE  /\ \A i \in 1..seen : matches[i].gym = g => matches[i].status = "name_mismatch"
                      /\ ~\E h \in InReach(places[best[g]]) : SameName(places[best[g]], h)
    BY <1>1 DEF MismatchIsLastResort
  <2>1. best[g] # 0 /\ g # 0  BY <1>4
  <2>2. PICK b \in 1..seen : b = best[g]  BY <1>3, <2>1
  <2>3. matches[b].status = "name_mismatch" /\ matches[b].gym = g
    BY <1>3, <2>1, <2>2
  <2>4. ASSUME NEW i \in 1..seen, matches[i].gym = g PROVE matches[i].status = "name_mismatch"
    <3>1. ~Better(matches[i], matches[b])  BY <1>3, <2>1, <2>2, <2>4
    <3>2. Rank(matches[i]) = 1  BY <1>2, <2>3, <3>1 DEF Better
    <3>3. QED  BY <1>2, <1>5, <2>1, <2>4, <3>2
  <2>5. ~\E h \in InReach(places[b]) : SameName(places[b], h)
    BY <1>5, <2>1, <2>3
  <2>6. QED  BY <2>2, <2>4, <2>5
<1>8. QED  BY <1>6, <1>7 DEF CoverageTrue

LEMMA CoverageInvariant == CoverageSpec => []CoverageInv
<1>1. CoverageInit => CoverageInv
  <2> SUFFICES ASSUME CoverageInit PROVE CoverageInv
    OBVIOUS
  <2>1. /\ osmGyms \in [1..GymCount -> Sighting] /\ places = << >> /\ seen = 0
        /\ matches = << >> /\ 1..0 = {} /\ DOMAIN matches = {}
        /\ best \in [1..GymCount -> {0}]
    BY DEF CoverageInit
  <2>2. CoverageTypeOK  BY <2>1, CoverageAssumption DEF CoverageTypeOK
  <2>3. \A g \in 1..GymCount : BestOf(best[g], matches, g)
    BY <2>1 DEF BestOf
  <2>4. QED  BY <2>1, <2>2, <2>3 DEF CoverageInv
<1>2. CoverageInv /\ [CoverageNext]_coverageVars => CoverageInv'
  <2> SUFFICES ASSUME CoverageInv, [CoverageNext]_coverageVars PROVE CoverageInv'
    OBVIOUS
  <2>1. CASE CoverageNext
    BY <2>1, FindPlaceKeeps, MatchPlaceKeeps DEF CoverageNext
  <2>2. CASE UNCHANGED coverageVars
    <3>1. UNCHANGED <<osmGyms, places, seen, matches, best>>  BY <2>2 DEF coverageVars
    <3>2. CoverageTypeOK'  BY <3>1 DEF CoverageInv, CoverageTypeOK
    <3>3. ASSUME NEW i \in 1..seen, NEW p \in Sighting, p = places[i]
          PROVE  matches[i] = (Classify(p, BestOsmMatch(p)))'
      <4>1. matches[i] = Classify(p, BestOsmMatch(p))  BY <3>3 DEF CoverageInv
      <4>2. QED  BY <3>1, <4>1, ClassifyStays
    <3>4. (\A g \in 1..GymCount : BestOf(best[g], matches, g))'
      BY <3>1 DEF CoverageInv, BestOf, Better, Rank
    <3>5. QED  BY <3>1, <3>2, <3>3, <3>4 DEF CoverageInv
  <2>3. QED  BY <2>1, <2>2
<1>3. QED  BY <1>1, <1>2, PTL DEF CoverageSpec

(* A gym is confirmed by exactly the places of its name that lie nearest   *)
(* to it, and keeps the nearest of them, in whichever order they come; a   *)
(* match of another name is only the last resort (application/coverage.py).*)
THEOREM CoverageIsTrue == CoverageSpec => []CoverageTrue
  BY CoverageInvariant, CoverageInvTrue, PTL

LEMMA CoverageTyped == CoverageSpec => []CoverageTypeOK
<1>1. CoverageInv => CoverageTypeOK  BY DEF CoverageInv
<1>2. QED  BY <1>1, CoverageInvariant, PTL

----------------------------------------------------------------------------
(* NearbyGyms: the nearest gyms are answered, the nearest first.           *)

(* The first entries of a sequence.                                        *)
LEMMA FirstEntries ==
  ASSUME NEW rows, NEW seq \in Seq(rows), NEW n \in Nat, NEW m \in Nat,
         m = IF Len(seq) < n THEN Len(seq) ELSE n
  PROVE  /\ DOMAIN First(seq, n) = 1..m /\ Len(First(seq, n)) = m
         /\ \A i \in 1..m : First(seq, n)[i] = seq[i]
<1>1. First(seq, n) = SubSeq(seq, 1, m) /\ m \in 0..Len(seq)
  BY LenProperties DEF First
<1>2. /\ SubSeq(seq, 1, m) \in Seq(rows) /\ Len(SubSeq(seq, 1, m)) = m
      /\ \A i \in 1..m : SubSeq(seq, 1, m)[i] = seq[i]
  BY <1>1, SubSeqProperties
<1>3. QED
  BY <1>1, <1>2, LenProperties

LEMMA FirstIsPart ==
  ASSUME NEW rows, NEW seq \in Seq(rows), NEW n \in Nat
  PROVE  First(seq, n) \in Seq(rows)
<1> DEFINE m == IF Len(seq) < n THEN Len(seq) ELSE n
<1>1. m \in 0..Len(seq)
  BY LenProperties
<1>2. SubSeq(seq, 1, m) \in Seq(rows)
  BY <1>1, SubSeqProperties
<1>3. QED
  BY <1>2 DEF First

LEMMA FirstHas ==
  ASSUME NEW S, NEW seq \in Seq(S), NEW n \in Nat, NEW i \in 1..Len(seq), i <= n
  PROVE  seq[i] \in ToSet(First(seq, n))
<1> DEFINE m == IF Len(seq) < n THEN Len(seq) ELSE n
<1>1. Len(seq) \in Nat
  OBVIOUS
<1>2. m \in Nat /\ i \in 1..m
  BY <1>1
<1>3. DOMAIN First(seq, n) = 1..m /\ \A k \in 1..m : First(seq, n)[k] = seq[k]
  BY <1>2, FirstEntries
<1> HIDE DEF m
<1>4. QED
  BY <1>2, <1>3 DEF ToSet

(* An element that is cut off a list, which has each element once and is   *)
(* ordered by a measure, has as many elements before it as the list keeps. *)
LEMMA CutOffAfterOthers ==
  ASSUME NEW S, IsFiniteSet(S), NEW seq \in [1..Cardinality(S) -> S], ToSet(seq) = S,
         NEW kept \in Nat, NEW measure \in [S -> Nat],
         \A i, j \in DOMAIN seq : i < j => measure[seq[i]] <= measure[seq[j]],
         NEW g \in S, g \notin ToSet(First(seq, kept)),
         NEW before \in SUBSET S, \A h \in S : h # g /\ measure[h] <= measure[g] => h \in before
  PROVE  Cardinality(before) >= kept
<1>1. PICK k \in Nat : k = Cardinality(S)
  BY FS_CardinalityType
<1>2. seq \in Seq(S) /\ Len(seq) = k /\ DOMAIN seq = 1..k
  BY <1>1
<1>3. PICK j \in 1..k : seq[j] = g
  BY <1>2 DEF ToSet
<1>4. kept < j
  <2> SUFFICES ASSUME ~(kept < j)
               PROVE  FALSE
    OBVIOUS
  <2>1. j \in 1..Len(seq) /\ j <= kept
    BY <1>1, <1>2
  <2>2. seq[j] \in ToSet(First(seq, kept))
    BY <1>2, <2>1, FirstHas
  <2>3. QED
    BY <1>3, <2>2
<1>5. seq \in Injection(1..k, S)
  <2>1. IsFiniteSet(1..k) /\ Cardinality(1..k) = k
    <3>1. Cardinality(1..k) = IF 1 > k THEN 0 ELSE k - 1 + 1
      BY <1>1, FS_Interval
    <3>2. IsFiniteSet(1..k)
      BY <1>1, FS_Interval
    <3>3. QED
      BY <1>1, <3>1, <3>2
  <2>2. seq \in Surjection(1..k, S)
    BY <1>1, <1>2 DEF Surjection, ToSet
  <2>3. QED
    BY <1>1, <2>1, <2>2, FS_Surjection
<1>13. \A a, b \in 1..k : seq[a] = seq[b] => a = b
  BY <1>2, <1>5 DEF Injection, IsInjective
<1> DEFINE front == [i \in 1..kept |-> seq[i]]
<1>6. ASSUME NEW i \in 1..kept
      PROVE  i \in 1..k /\ seq[i] \in before
  <2>1. i \in 1..k /\ i < j
    BY <1>1, <1>3, <1>4
  <2>2. seq[i] # g
    BY <1>3, <1>13, <2>1
  <2>3. measure[seq[i]] <= measure[g]
    BY <1>2, <1>3, <2>1
  <2>4. seq[i] \in S
    BY <1>1, <2>1
  <2>5. QED
    BY <2>1, <2>2, <2>3, <2>4
<1>7. front \in Injection(1..kept, before)
  <2>1. front \in [1..kept -> before]
    BY <1>6
  <2>2. ASSUME NEW a \in 1..kept, NEW b \in 1..kept, front[a] = front[b]
        PROVE  a = b
    BY <1>6, <1>13, <2>2
  <2>3. QED
    BY <2>1, <2>2 DEF Injection, IsInjective
<1>8. IsFiniteSet(before)
  BY FS_Subset
<1> HIDE DEF front
<1>9. Cardinality(1..kept) <= Cardinality(before)
  BY <1>7, <1>8, FS_Injection
<1>10. Cardinality(1..kept) = kept
  <2>1. Cardinality(1..kept) = IF 1 > kept THEN 0 ELSE kept - 1 + 1
    BY FS_Interval
  <2>2. QED
    BY <2>1
<1>11. Cardinality(before) \in Nat
  BY <1>8, FS_CardinalityType
<1>12. QED
  BY <1>9, <1>10, <1>11

NearbyInv == NearbyTypeOK /\ NearestAnswered

LEMMA QueryAnswers ==
  ASSUME NearbyInv, QueryNearby
  PROVE  NearbyInv'
<1> DEFINE boxed == {g \in DOMAIN at : at[g].boxed}
           within == {g \in DOMAIN at : at[g].boxed /\ at[g].distance <= GeoRadius}
<1>1. PICK candidates \in CandidateSets(DOMAIN at) :
        \E seq \in OrderedBy({g \in candidates : at[g].distance <= GeoRadius},
                              LAMBDA g : at[g].distance) :
          answer' = [state |-> "answered", found |-> First(seq, GeoLimit)]
  BY DEF QueryNearby
<1>2. at' = at  BY DEF QueryNearby
<1>3. PICK all \in [1..Cardinality(boxed) -> boxed] :
        /\ ToSet(all) = boxed /\ candidates = ToSet(First(all, Candidates))
        /\ \A i, j \in DOMAIN all : i < j => at[all[i]].planar <= at[all[j]].planar
  BY <1>1 DEF CandidateSets, OrderedBy
<1>4. /\ IsFiniteSet(boxed) /\ Cardinality(boxed) \in Nat
  <2>1. IsFiniteSet(boxed)
    BY NearbyAssumption, FS_Subset DEF NearbyInv, NearbyTypeOK
  <2>2. QED  BY <2>1, FS_CardinalityType
<1>5. \A g \in DOMAIN at : at[g].distance \in Nat /\ at[g].planar \in Nat
  BY NearbyAssumption DEF NearbyInv, NearbyTypeOK, Where
<1> DEFINE nearer(g) == {h \in DOMAIN at \ {g} : at[h].boxed /\ at[h].planar <= at[g].planar}
<1>20. ASSUME NEW g \in boxed \ candidates
       PROVE  Cardinality(nearer(g)) >= Candidates
  <2> DEFINE planar == [x \in boxed |-> at[x].planar]
  <2>1. planar \in [boxed -> Nat]
    BY <1>5
  <2>2. \A i, j \in DOMAIN all : i < j => planar[all[i]] <= planar[all[j]]
    BY <1>3
  <2>3. /\ nearer(g) \subseteq boxed
        /\ \A h \in boxed : h # g /\ planar[h] <= planar[g] => h \in nearer(g)
    BY <1>20
  <2> HIDE DEF planar, boxed, nearer
  <2>4. Cardinality(nearer(g)) >= Candidates
    <3>1. g \in boxed /\ g \notin ToSet(First(all, Candidates)) /\ ToSet(all) = boxed
      BY <1>3, <1>20
    <3>2. Candidates \in Nat /\ IsFiniteSet(boxed) /\ all \in [1..Cardinality(boxed) -> boxed]
      BY <1>3, <1>4, NearbyAssumption
    <3>3. QED
      BY <2>1, <2>2, <2>3, <3>1, <3>2, CutOffAfterOthers
  <2>5. QED
    BY <2>4
<1> HIDE DEF boxed
<1>6. candidates \subseteq boxed
  <2>1. PICK k \in Nat : k = Cardinality(boxed)  BY <1>4
  <2>2. PICK m \in 0..k : m = IF k < Candidates THEN k ELSE Candidates
    BY NearbyAssumption
  <2>3. /\ DOMAIN First(all, Candidates) = 1..m
        /\ \A i \in 1..m : First(all, Candidates)[i] = all[i]
    <3>1. all \in Seq(boxed) /\ Len(all) = k /\ Candidates \in Nat /\ m \in Nat
      BY <1>3, <2>1, NearbyAssumption
    <3>2. m = IF Len(all) < Candidates THEN Len(all) ELSE Candidates  BY <2>2, <3>1
    <3>3. QED  BY <3>1, <3>2, FirstEntries
  <2>4. ToSet(First(all, Candidates)) \subseteq ToSet(all)
    <3>1. DOMAIN all = 1..k  BY <1>3, <2>1
    <3>2. QED  BY <2>2, <2>3, <3>1 DEF ToSet
  <2>5. QED  BY <1>3, <2>1, <2>4
<1> DEFINE rows == {g \in candidates : at[g].distance <= GeoRadius}
<1>7. PICK seq \in [1..Cardinality(rows) -> rows] :
        /\ ToSet(seq) = rows
        /\ \A i, j \in DOMAIN seq : i < j => at[seq[i]].distance <= at[seq[j]].distance
        /\ answer' = [state |-> "answered", found |-> First(seq, GeoLimit)]
  BY <1>1 DEF OrderedBy
<1>8. rows \subseteq within /\ within \ rows \subseteq boxed \ candidates
  BY <1>6 DEF boxed
<1>9. PICK k \in Nat : k = Cardinality(rows)
  <2>1. IsFiniteSet(rows)
    BY <1>4, <1>6, FS_Subset
  <2>2. QED  BY <2>1, FS_CardinalityType
<1> HIDE DEF rows, within
<1> DEFINE found == First(seq, GeoLimit)
<1>10. PICK l \in 0..k : l = IF k < GeoLimit THEN k ELSE GeoLimit
  BY NearbyAssumption
<1>11. /\ DOMAIN found = 1..l /\ Len(found) = l
       /\ \A i \in 1..l : found[i] = seq[i]
  <2>1. seq \in Seq(rows) /\ Len(seq) = k /\ GeoLimit \in Nat /\ l \in Nat
    BY <1>7, <1>9, NearbyAssumption
  <2>2. l = IF Len(seq) < GeoLimit THEN Len(seq) ELSE GeoLimit  BY <1>10, <2>1
  <2>3. QED  BY <2>1, <2>2, FirstEntries
<1> HIDE DEF found
<1>12. DOMAIN seq = 1..k /\ \A i \in 1..k : seq[i] \in rows
  BY <1>7, <1>9
<1>13. \A i, j \in 1..l : i < j => ~Farther(found[i], found[j])
  <2> SUFFICES ASSUME NEW i \in 1..l, NEW j \in 1..l, i < j
               PROVE  ~Farther(found[i], found[j])
    OBVIOUS
  <2>1. /\ i \in 1..k /\ j \in 1..k /\ found[i] = seq[i] /\ found[j] = seq[j]
        /\ at[seq[i]].distance <= at[seq[j]].distance
    BY <1>7, <1>10, <1>11, <1>12
  <2>2. at[seq[i]].distance \in Nat /\ at[seq[j]].distance \in Nat
    BY <1>5, <1>8, <1>12, <2>1 DEF within
  <2>3. QED  BY <2>1, <2>2 DEF Farther
<1>14. ToSet(found) \subseteq rows /\ ToSet(found) = {seq[i] : i \in 1..l}
  BY <1>10, <1>11, <1>12 DEF ToSet
<1>15. ASSUME NEW g \in rows \ ToSet(found)
       PROVE  l = GeoLimit /\ \A i \in 1..l : ~Farther(found[i], g)
  <2>1. PICK j \in 1..k : g = seq[j]  BY <1>7, <1>12, <1>15 DEF ToSet
  <2>2. j \notin 1..l  BY <1>14, <1>15, <2>1
  <2>3. l = GeoLimit  BY <1>10, <2>1, <2>2
  <2>4. ASSUME NEW i \in 1..l PROVE ~Farther(found[i], g)
    <3>1. i \in 1..k /\ i < j /\ found[i] = seq[i]  BY <1>10, <1>11, <2>1, <2>2
    <3>2. at[seq[i]].distance <= at[seq[j]].distance  BY <1>7, <1>12, <2>1, <3>1
    <3>3. at[seq[i]].distance \in Nat /\ at[seq[j]].distance \in Nat
      BY <1>5, <1>8, <1>12, <2>1, <3>1 DEF within
    <3>4. QED  BY <2>1, <3>1, <3>2, <3>3 DEF Farther
  <2>5. QED  BY <2>3, <2>4
<1>16. answer'.found = found /\ answer'.state = "answered"
  BY <1>7 DEF found
<1>17. NearestAnswered'
  <2>1. \A i, j \in DOMAIN found : i < j => ~(at'[found[i]].distance > at'[found[j]].distance)
    BY <1>2, <1>11, <1>13 DEF Farther
  <2>2. ToSet(found) \subseteq within
    BY <1>8, <1>14
  <2>3. ASSUME NEW g \in within \ ToSet(found)
        PROVE  \/ /\ Len(found) = GeoLimit
                  /\ \A i \in DOMAIN found : ~(at'[found[i]].distance > at'[g].distance)
               \/ Cardinality({h \in DOMAIN at' \ {g} :
                                  at'[h].boxed /\ at'[h].planar <= at'[g].planar}) >= Candidates
    <3>1. CASE g \in rows
      BY <1>2, <1>11, <1>15, <2>3, <3>1 DEF Farther
    <3>2. CASE g \notin rows
      <4>1. Cardinality(nearer(g)) >= Candidates
        BY <1>8, <1>20, <2>3, <3>2
      <4>2. QED
        BY <1>2, <4>1
    <3>3. QED
      BY <3>1, <3>2
  <2>4. within = {g \in DOMAIN at' : at'[g].boxed /\ at'[g].distance <= GeoRadius}
    BY <1>2 DEF within
  <2> HIDE DEF within
  <2>5. QED  BY <1>16, <2>1, <2>2, <2>3, <2>4 DEF NearestAnswered, Farther
<1>18. found \in Seq(DOMAIN at) /\ Len(found) <= GeoLimit
  <2>1. rows \subseteq DOMAIN at  BY <1>8 DEF within
  <2>2. seq \in Seq(rows) /\ GeoLimit \in Nat  BY <1>7, <1>9, NearbyAssumption
  <2>3. found \in Seq(rows)  BY <2>2, FirstIsPart DEF found
  <2>4. found \in Seq(DOMAIN at)  BY <2>1, <2>3
  <2>5. QED  BY <1>10, <1>11, <2>4, NearbyAssumption
<1>19. QED  BY <1>2, <1>16, <1>17, <1>18 DEF NearbyInv, NearbyTypeOK

LEMMA NearbyInvariant == NearbySpec => []NearbyInv
<1>1. NearbyInit => NearbyInv
  <2> SUFFICES ASSUME NearbyInit PROVE NearbyInv
    OBVIOUS
  <2>1. PICK rows \in SUBSET GymRows : at \in [rows -> Where]  BY DEF NearbyInit
  <2>2. << >> \in Seq(DOMAIN at) /\ Len(<< >>) <= GeoLimit  BY NearbyAssumption
  <2>3. QED  BY <2>1, <2>2 DEF NearbyInit, NearbyInv, NearbyTypeOK, NearestAnswered
<1>2. NearbyInv /\ [NearbyNext]_nearbyVars => NearbyInv'
  <2> SUFFICES ASSUME NearbyInv, [NearbyNext]_nearbyVars PROVE NearbyInv'
    OBVIOUS
  <2>1. CASE QueryNearby  BY <2>1, QueryAnswers
  <2>2. CASE QueryNearbyFails
    <3>1. << >> \in Seq(DOMAIN at) /\ Len(<< >>) <= GeoLimit  BY NearbyAssumption
    <3>2. QED  BY <2>2, <3>1 DEF QueryNearbyFails, NearbyInv, NearbyTypeOK, NearestAnswered
  <2>3. CASE UNCHANGED nearbyVars
    BY <2>3 DEF nearbyVars, NearbyInv, NearbyTypeOK, NearestAnswered, Farther
  <2>4. QED  BY <2>1, <2>2, <2>3 DEF NearbyNext
<1>3. QED  BY <1>1, <1>2, PTL DEF NearbySpec

(* The answer to a nearby query is ordered by the exact distance, and a    *)
(* row of the box within the radius is missed only for rows of the answer  *)
(* that are no farther, or for as many others as there may be candidates   *)
(* that the planar order puts before it (the nearby query of the database).*)
THEOREM NearestAreAnswered == NearbySpec => []NearestAnswered
<1>1. NearbyInv => NearestAnswered  BY DEF NearbyInv
<1>2. QED  BY <1>1, NearbyInvariant, PTL

LEMMA NearbyTyped == NearbySpec => []NearbyTypeOK
<1>1. NearbyInv => NearbyTypeOK  BY DEF NearbyInv
<1>2. QED  BY <1>1, NearbyInvariant, PTL

----------------------------------------------------------------------------
(* Inference: names and specialties are doubted where the rules say so.    *)

(* What a number of contradictions takes from a certainty.                 *)
LEMMA PenaltyFacts ==
  ASSUME NEW base \in 5..98, NEW against, IsFiniteSet(against)
  PROVE  /\ against # {} /\ base >= 19 => Penalised(base, against) <= base - 14
         /\ Cardinality(against) <= 1 /\ base >= 19 => Penalised(base, against) >= base - 14
         /\ against = {} => Penalised(base, against) = base
<1> DEFINE n == Cardinality(against)
           p == Min({14 * n, 35})
<1>1. n \in Nat /\ (n = 0 <=> against = {})
  BY FS_CardinalityType, FS_EmptySet
<1>2. p = IF 14 * n <= 35 THEN 14 * n ELSE 35
  <2>1. 14 * n \in Int
    BY <1>1
  <2>2. QED
    BY <2>1, MinMaxOfTwo
<1>3. p \in 0..35
  BY <1>1, <1>2
<1>4. Penalised(base, against) = Max({5, Min({base - p, 99})})
  BY DEF Penalised
<1> HIDE DEF n, p
<1>5. Min({base - p, 99}) = base - p
  <2>1. base - p \in Int /\ base - p <= 99
    BY <1>3
  <2>2. QED
    BY <2>1, MinMaxOfTwo
<1>6. Penalised(base, against) = IF 5 >= base - p THEN 5 ELSE base - p
  <2>1. base - p \in Int
    BY <1>3
  <2>2. QED
    BY <1>4, <1>5, <2>1, MinMaxOfTwo
<1>7. against # {} => p >= 14
  BY <1>1, <1>2
<1>8. n <= 1 => p <= 14
  BY <1>1, <1>2
<1>9. against = {} => p = 0
  BY <1>1, <1>2
<1>10. QED
  BY <1>3, <1>6, <1>7, <1>8, <1>9 DEF n

(* The table of the diagnostics has an entry for every rule, which asks    *)
(* for the tags that the rule asks for.                                    *)
LEMMA TablesAgree ==
  ASSUME NEW i \in DOMAIN SpecialtyRules
  PROVE  /\ SpecialtyRules[i].specialty # "general_fitness"
         /\ ExpectedCapabilities(SpecialtyRules[i].specialty) = SpecialtyRules[i].needs
         /\ SpecialtyRules[i].needs # {}
<1>1. i \in 1..8
  BY DEF SpecialtyRules
<1>2. i = 1 \/ i = 2 \/ i = 3 \/ i = 4 \/ i = 5 \/ i = 6 \/ i = 7 \/ i = 8
  BY <1>1
<1>3. CASE i = 1
  BY <1>3 DEF SpecialtyRules, ExpectedCapabilities, ExpectedTable
<1>4. CASE i = 2
  BY <1>4 DEF SpecialtyRules, ExpectedCapabilities, ExpectedTable
<1>5. CASE i = 3
  BY <1>5 DEF SpecialtyRules, ExpectedCapabilities, ExpectedTable
<1>6. CASE i = 4
  BY <1>6 DEF SpecialtyRules, ExpectedCapabilities, ExpectedTable
<1>7. CASE i = 5
  BY <1>7 DEF SpecialtyRules, ExpectedCapabilities, ExpectedTable
<1>8. CASE i = 6
  BY <1>8 DEF SpecialtyRules, ExpectedCapabilities, ExpectedTable
<1>9. CASE i = 7
  BY <1>9 DEF SpecialtyRules, ExpectedCapabilities, ExpectedTable
<1>10. CASE i = 8
  BY <1>10 DEF SpecialtyRules, ExpectedCapabilities, ExpectedTable
<1>11. QED
  BY <1>2, <1>3, <1>4, <1>5, <1>6, <1>7, <1>8, <1>9, <1>10

(* Where a specialty and the friendliness to lifters come from.            *)
InferredInv ==
  inferred.tier # "none" =>
    /\ inferred.support = "name" =>
         \E i \in DOMAIN SpecialtyRules : /\ inferred.specialty = SpecialtyRules[i].specialty
                                          /\ ~Has(SpecialtyRules[i].needs)
    /\ inferred.support = "tags" =>
         \E i \in DOMAIN SpecialtyRules : /\ inferred.specialty = SpecialtyRules[i].specialty
                                          /\ Has(SpecialtyRules[i].needs)
    /\ inferred.lifter = "name" => ~Has(StrengthOfRules)
    /\ inferred.lifter = "tags" => Has(StrengthOfRules)

InferenceInv ==
  /\ InferredInv
  /\ Diagnosed => inferred.tier # "none"
  /\ NamesDoubted

(* If some rule applies there is a first one.                              *)
LEMMA FirstRuleApplies == SomeRule => FirstRule \in DOMAIN SpecialtyRules
<1> SUFFICES ASSUME SomeRule
             PROVE  FirstRule \in DOMAIN SpecialtyRules
  OBVIOUS
<1> DEFINE applying == {i \in DOMAIN SpecialtyRules : Applies(SpecialtyRules[i])}
<1>1. applying # {} /\ applying \in SUBSET Nat
  <2>1. DOMAIN SpecialtyRules \subseteq Nat
    BY DEF SpecialtyRules
  <2>2. QED
    BY <2>1 DEF SomeRule
<1>2. FirstRule = Min(applying)
  BY DEF FirstRule
<1>3. Min(applying) \in applying
  <2> HIDE DEF applying
  <2>1. QED
    BY <1>1, LeastNumber DEF Min
<1>4. QED
  BY <1>2, <1>3

LEMMA InferKeeps == InferenceInv /\ Infer => InferenceInv'
<1> SUFFICES ASSUME InferenceInv, Infer
             PROVE  InferenceInv'
  OBVIOUS
<1>1. /\ inferred'.lifter = LifterSupport
      /\ inferred'.specialty = IF SomeRule THEN SpecialtyRules[FirstRule].specialty
                               ELSE "general_fitness"
      /\ inferred'.support = IF ~SomeRule THEN "nothing"
                             ELSE IF Has(SpecialtyRules[FirstRule].needs) THEN "tags" ELSE "name"
      /\ inferred.tier = "none" /\ features' = features /\ diagnosis' = diagnosis
  BY DEF Infer
<1>2. \A set : Has(set)' <=> Has(set)
  BY <1>1 DEF Has
<1>3. InferredInv'
  <2>1. inferred'.support \in {"name", "tags"} => FirstRule \in DOMAIN SpecialtyRules
    BY <1>1, FirstRuleApplies
  <2>2. inferred'.support = "name" =>
          \E i \in DOMAIN SpecialtyRules : /\ inferred'.specialty = SpecialtyRules[i].specialty
                                           /\ ~Has(SpecialtyRules[i].needs)'
    BY <1>1, <1>2, <2>1
  <2>3. inferred'.support = "tags" =>
          \E i \in DOMAIN SpecialtyRules : /\ inferred'.specialty = SpecialtyRules[i].specialty
                                           /\ Has(SpecialtyRules[i].needs)'
    BY <1>1, <1>2, <2>1
  <2>4. /\ inferred'.lifter = "name" => ~Has(StrengthOfRules)'
        /\ inferred'.lifter = "tags" => Has(StrengthOfRules)'
    BY <1>1, <1>2 DEF LifterSupport
  <2>5. QED
    BY <2>2, <2>3, <2>4 DEF InferredInv
<1>4. ~Diagnosed'
  BY <1>1 DEF InferenceInv, Diagnosed
<1>5. QED
  BY <1>3, <1>4 DEF InferenceInv, NamesDoubted, NamedSpecialtyDoubted, NamedStrengthDoubted

(* What is inferred from a name is doubted; what is inferred from tags is  *)
(* not.                                                                    *)
LEMMA SpecialtyJudged ==
  ASSUME InferenceInv, inferred.tier # "none"
  PROVE  /\ inferred.support = "name" => /\ "unsupported" \in SpecialtyContradictions
                                         /\ SpecialtyCertainty <= 58
         /\ inferred.support = "tags" => /\ "unsupported" \notin SpecialtyContradictions
                                         /\ SpecialtyCertainty >= 79
<1>1. IsFiniteSet(SpecialtyContradictions)
  <2>1. IsFiniteSet({"unsupported", "conflict", "naming"})
    <3>1. IsFiniteSet({"unsupported"})
      BY FS_Singleton
    <3>2. IsFiniteSet({"unsupported"} \cup {"conflict"})
      BY <3>1, FS_AddElement
    <3>3. IsFiniteSet(({"unsupported"} \cup {"conflict"}) \cup {"naming"})
      BY <3>2, FS_AddElement
    <3>4. ({"unsupported"} \cup {"conflict"}) \cup {"naming"}
            = {"unsupported", "conflict", "naming"}
      OBVIOUS
    <3>5. QED
      BY <3>3, <3>4
  <2>2. SpecialtyContradictions \subseteq {"unsupported", "conflict", "naming"}
    BY DEF SpecialtyContradictions
  <2>3. QED
    BY <2>1, <2>2, FS_Subset
<1>2. "unsupported" \in SpecialtyContradictions <=> Unsupported
  BY DEF SpecialtyContradictions
<1>3. "naming" \in SpecialtyContradictions => inferred.support = "name"
  BY DEF SpecialtyContradictions
<1> DEFINE base == IF inferred.specialty = "general_fitness"
                   THEN IF features.capabilities # {} THEN 66 ELSE 48
                   ELSE IF Has(ExpectedCapabilities(inferred.specialty)) THEN 93
                   ELSE IF inferred.support = "name" THEN 72 ELSE 58
<1>4. SpecialtyCertainty = Penalised(base, SpecialtyContradictions)
  BY DEF SpecialtyCertainty
<1>5. ASSUME inferred.support = "name"
      PROVE  Unsupported /\ base = 72
  <2>1. PICK i \in DOMAIN SpecialtyRules : /\ inferred.specialty = SpecialtyRules[i].specialty
                                           /\ ~Has(SpecialtyRules[i].needs)
    BY <1>5 DEF InferenceInv, InferredInv
  <2>2. QED
    BY <1>5, <2>1, TablesAgree DEF Unsupported
<1>6. ASSUME inferred.support = "tags"
      PROVE  ~Unsupported /\ base = 93
  <2>1. PICK i \in DOMAIN SpecialtyRules : /\ inferred.specialty = SpecialtyRules[i].specialty
                                           /\ Has(SpecialtyRules[i].needs)
    BY <1>6 DEF InferenceInv, InferredInv
  <2>2. QED
    BY <2>1, TablesAgree DEF Unsupported
<1> HIDE DEF base
<1>7. ASSUME inferred.support = "tags"
      PROVE  Cardinality(SpecialtyContradictions) <= 1
  <2>1. SpecialtyContradictions \subseteq {"conflict"}
    BY <1>2, <1>3, <1>6, <1>7 DEF SpecialtyContradictions
  <2>2. IsFiniteSet({"conflict"}) /\ Cardinality({"conflict"}) = 1
    BY FS_Singleton
  <2>3. QED
    BY <2>1, <2>2, FS_Subset
<1>8. ASSUME inferred.support = "name"
      PROVE  SpecialtyCertainty <= 58
  <2>1. base \in 5..98 /\ base >= 19 /\ base - 14 = 58 /\ SpecialtyContradictions # {}
    BY <1>2, <1>5, <1>8
  <2>2. QED
    BY <1>1, <1>4, <2>1, PenaltyFacts
<1>9. ASSUME inferred.support = "tags"
      PROVE  SpecialtyCertainty >= 79
  <2>1. base \in 5..98 /\ base >= 19 /\ base - 14 = 79
    BY <1>6, <1>9
  <2>2. QED
    BY <1>1, <1>4, <1>7, <1>9, <2>1, PenaltyFacts
<1>10. QED
  BY <1>2, <1>5, <1>6, <1>8, <1>9

LEMMA LifterJudged ==
  ASSUME InferenceInv, inferred.tier # "none"
  PROVE  /\ inferred.lifter = "name" => LifterContradictions # {} /\ LifterCertainty <= 49
         /\ inferred.lifter = "tags" => LifterContradictions = {} /\ LifterCertainty >= 91
<1>1. Has(StrengthOfRules) <=> Has(StrengthCapabilities)
  BY DEF StrengthOfRules, StrengthCapabilities
<1>2. CASE inferred.lifter = "name"
  <2>1. ~Has(StrengthCapabilities)
    BY <1>1, <1>2 DEF InferenceInv, InferredInv
  <2>2. LifterContradictions = {"unsupported"}
    BY <1>2, <2>1 DEF LifterContradictions
  <2>3. LifterCertainty = Penalised(67 - 4, LifterContradictions)
    BY <1>2, <2>1 DEF LifterCertainty
  <2>4. IsFiniteSet(LifterContradictions) /\ LifterContradictions # {}
    BY <2>2, FS_Singleton
  <2>5. Penalised(63, LifterContradictions) <= 63 - 14
    BY <2>4, PenaltyFacts
  <2>6. QED
    BY <1>2, <2>3, <2>4, <2>5
<1>3. CASE inferred.lifter = "tags"
  <2>1. Has(StrengthCapabilities)
    BY <1>1, <1>3 DEF InferenceInv, InferredInv
  <2>2. LifterContradictions = {}
    BY <2>1 DEF LifterContradictions
  <2>3. LifterCertainty = Penalised(91, LifterContradictions)
    BY <1>3, <2>1 DEF LifterCertainty
  <2>4. Penalised(91, LifterContradictions) = 91
    BY <2>2, PenaltyFacts, FS_EmptySet
  <2>5. QED
    BY <1>3, <2>2, <2>3, <2>4
<1>4. QED
  BY <1>2, <1>3

LEMMA DiagnoseKeeps == InferenceInv /\ Diagnose => InferenceInv'
<1> SUFFICES ASSUME InferenceInv, Diagnose
             PROVE  InferenceInv'
  OBVIOUS
<1>1. inferred.tier # "none" /\ inferred' = inferred /\ features' = features
  BY DEF Diagnose
<1>2. /\ diagnosis'.specialty = SpecialtyContradictions
      /\ diagnosis'.lifter = LifterContradictions
      /\ diagnosis'.of.specialty = SpecialtyCertainty
      /\ diagnosis'.of.lifter = LifterCertainty
  BY DEF Diagnose
<1>3. NamedSpecialtyDoubted'
  BY <1>1, <1>2, SpecialtyJudged DEF NamedSpecialtyDoubted
<1>4. NamedStrengthDoubted'
  BY <1>1, <1>2, LifterJudged DEF NamedStrengthDoubted
<1>5. InferredInv'
  BY <1>1 DEF InferenceInv, InferredInv, Has
<1>6. QED
  BY <1>1, <1>3, <1>4, <1>5 DEF InferenceInv, NamesDoubted

(* What is inferred from a name is contradicted and doubted, and what is   *)
(* inferred from tags is not: the table of the rules and that of the       *)
(* diagnostics agree.                                                      *)
THEOREM NamesAreDoubted == InferenceSpec => []NamesDoubted
<1> USE DEF NamesDoubted, NamedSpecialtyDoubted, NamedStrengthDoubted, Diagnosed
<1>1. InferenceInit => InferenceInv
  BY DEF InferenceInit, InferenceInv, InferredInv
<1>2. InferenceInv /\ [InferenceNext]_inferenceVars => InferenceInv'
  <2> SUFFICES ASSUME InferenceInv, [InferenceNext]_inferenceVars
               PROVE  InferenceInv'
    OBVIOUS
  <2>1. CASE Extract
    BY <2>1 DEF Extract, InferenceInv, InferredInv
  <2>2. CASE UNCHANGED inferenceVars
    BY <2>2 DEF inferenceVars, InferenceInv, InferredInv, Has
  <2>3. QED
    BY <2>1, <2>2, InferKeeps, DiagnoseKeeps DEF InferenceNext
<1>3. InferenceInv => NamesDoubted
  BY DEF InferenceInv
<1>4. QED
  BY <1>1, <1>2, <1>3, PTL DEF InferenceSpec

(* A certainty is bounded whatever it begins with.                         *)
LEMMA PenaltyBounded ==
  ASSUME NEW base \in Int, NEW against, IsFiniteSet(against)
  PROVE  Penalised(base, against) \in 5..99
<1> DEFINE p == Min({14 * Cardinality(against), 35})
           q == Min({base - p, 99})
<1>1. p \in Int
  <2>1. 14 * Cardinality(against) \in Int /\ 35 \in Int
    BY FS_CardinalityType
  <2>2. QED
    BY <2>1, MinMaxOfTwo
<1>2. Penalised(base, against) = Max({5, q})
  BY DEF Penalised
<1> HIDE DEF p
<1>3. q \in Int /\ q <= 99
  <2>1. base - p \in Int
    BY <1>1
  <2>2. QED
    BY <2>1, MinMaxOfTwo
<1> HIDE DEF q
<1>4. Max({5, q}) = IF 5 >= q THEN 5 ELSE q
  <2>1. 5 \in Int
    OBVIOUS
  <2>2. QED
    BY <1>3, <2>1, MinMaxOfTwo
<1>5. QED
  BY <1>2, <1>3, <1>4

(* Five signals and three kinds of contradiction are finitely many.        *)
LEMMA FewSignals ==
  ASSUME NEW signals \in SUBSET PremiumSignals
  PROVE  Cardinality(signals) \in Nat /\ Cardinality(signals) <= 5
<1>1. ASSUME NEW S, IsFiniteSet(S), NEW x
      PROVE  /\ IsFiniteSet(S \cup {x}) /\ Cardinality(S) \in Nat
             /\ Cardinality(S \cup {x}) <= Cardinality(S) + 1
             /\ Cardinality(S \cup {x}) \in Nat
  <2>1. IsFiniteSet(S \cup {x})
    BY <1>1, FS_AddElement
  <2>2. Cardinality(S) \in Nat /\ Cardinality(S \cup {x}) \in Nat
    BY <1>1, <2>1, FS_CardinalityType
  <2>3. QED
    BY <1>1, <2>1, <2>2, FS_AddElement
<1>2. PICK a, b, c, d, e : PremiumSignals = {a, b, c, d, e}
  BY DEF PremiumSignals
<1> DEFINE two == {a} \cup {b}
           three == two \cup {c}
           four == three \cup {d}
           five == four \cup {e}
<1>3. PremiumSignals = five
  BY <1>2
<1>4. IsFiniteSet({a}) /\ Cardinality({a}) = 1
  BY FS_Singleton
<1>5. IsFiniteSet(two) /\ Cardinality(two) \in Nat /\ Cardinality(two) <= 2
  <2>1. /\ IsFiniteSet(two) /\ Cardinality({a}) \in Nat
        /\ Cardinality(two) <= Cardinality({a}) + 1 /\ Cardinality(two) \in Nat
    BY <1>1, <1>4
  <2> HIDE DEF two
  <2>2. QED
    BY <1>4, <2>1
<1> HIDE DEF two
<1>6. IsFiniteSet(three) /\ Cardinality(three) \in Nat /\ Cardinality(three) <= 3
  <2>1. /\ IsFiniteSet(three) /\ Cardinality(two) \in Nat
        /\ Cardinality(three) <= Cardinality(two) + 1 /\ Cardinality(three) \in Nat
    BY <1>1, <1>5
  <2> HIDE DEF three
  <2>2. QED
    BY <1>5, <2>1
<1> HIDE DEF three
<1>7. IsFiniteSet(four) /\ Cardinality(four) \in Nat /\ Cardinality(four) <= 4
  <2>1. /\ IsFiniteSet(four) /\ Cardinality(three) \in Nat
        /\ Cardinality(four) <= Cardinality(three) + 1 /\ Cardinality(four) \in Nat
    BY <1>1, <1>6
  <2> HIDE DEF four
  <2>2. QED
    BY <1>6, <2>1
<1> HIDE DEF four
<1>8. IsFiniteSet(five) /\ Cardinality(five) \in Nat /\ Cardinality(five) <= 5
  <2>1. /\ IsFiniteSet(five) /\ Cardinality(four) \in Nat
        /\ Cardinality(five) <= Cardinality(four) + 1 /\ Cardinality(five) \in Nat
    BY <1>1, <1>7
  <2> HIDE DEF five
  <2>2. QED
    BY <1>7, <2>1
<1> HIDE DEF five
<1>9. IsFiniteSet(signals) /\ Cardinality(signals) <= Cardinality(five)
  BY <1>3, <1>8, FS_Subset
<1>10. Cardinality(signals) \in Nat /\ Cardinality(five) \in Nat
  BY <1>8, <1>9, FS_CardinalityType
<1>11. QED
  BY <1>8, <1>9, <1>10

Kinds == {"unsupported", "conflict", "naming"}

LEMMA ContradictionsFinite ==
  ASSUME NEW kinds \in SUBSET Kinds
  PROVE  IsFiniteSet(kinds)
<1>1. IsFiniteSet({"unsupported"})
  BY FS_Singleton
<1>2. IsFiniteSet({"unsupported"} \cup {"conflict"})
  BY <1>1, FS_AddElement
<1>3. IsFiniteSet(({"unsupported"} \cup {"conflict"}) \cup {"naming"})
  BY <1>2, FS_AddElement
<1>4. Kinds = ({"unsupported"} \cup {"conflict"}) \cup {"naming"}
  BY DEF Kinds
<1>5. QED
  BY <1>3, <1>4, FS_Subset

(* What is inferred has its types.                                         *)
LEMMA InferTyped == InferenceTypeOK /\ Infer => InferenceTypeOK'
<1> SUFFICES ASSUME InferenceTypeOK, Infer
             PROVE  InferenceTypeOK'
  OBVIOUS
<1>1. PremiumScore \in 0..10 /\ Cardinality(Present) \in 0..5
  <2>1. Present \in SUBSET PremiumSignals
    BY DEF Present
  <2>2. \A weight : {signal \in Present : signal[1] = weight} \in SUBSET PremiumSignals
    BY <2>1
  <2>3. Weighing(1) \in Nat /\ Weighing(2) \in Nat
    BY <2>2, FewSignals DEF Weighing
  <2>4. QED
    BY <2>1, <2>3, FewSignals DEF PremiumScore
<1>2. LifterSupport \in Support
  BY DEF LifterSupport, Support
<1>3. SomeRule => SpecialtyRules[FirstRule].specialty \in Specialties
  BY FirstRuleApplies DEF Specialties
<1>4. Tier(PremiumScore) \in {"none", "basic", "mid", "premium"}
  BY DEF Tier
<1>5. PICK specialty \in Specialties \cup {"general_fitness"}, support \in Support :
        inferred' = [premium |-> PremiumScore, reasons |-> Cardinality(Present),
                     is_24_7 |-> Has({"24_7"}), lifter |-> LifterSupport,
                     specialty |-> specialty, support |-> support, tier |-> Tier(PremiumScore)]
  <2>1. (IF SomeRule THEN SpecialtyRules[FirstRule].specialty ELSE "general_fitness")
          \in Specialties \cup {"general_fitness"}
    BY <1>3
  <2>2. (IF ~SomeRule THEN "nothing"
         ELSE IF Has(SpecialtyRules[FirstRule].needs) THEN "tags" ELSE "name") \in Support
    BY DEF Support
  <2>3. QED
    BY <2>1, <2>2 DEF Infer
<1>6. Has({"24_7"}) \in BOOLEAN
  BY DEF Has
<1>7. features' = features /\ diagnosis' = diagnosis
  BY DEF Infer
<1>8. QED
  BY <1>1, <1>2, <1>4, <1>5, <1>6, <1>7 DEF InferenceTypeOK, Diagnosed

(* Every certainty is in its bounds, whatever the penalties.               *)
LEMMA DiagnoseTyped == InferenceTypeOK /\ Diagnose => InferenceTypeOK'
<1> SUFFICES ASSUME InferenceTypeOK, Diagnose
             PROVE  InferenceTypeOK'
  OBVIOUS
<1>1. /\ inferred.premium \in 0..10 /\ inferred.reasons \in 0..5
      /\ inferred.lifter \in Support
  BY DEF InferenceTypeOK
<1>2. /\ SpecialtyContradictions \in SUBSET Kinds /\ LifterContradictions \in SUBSET Kinds
      /\ HoursContradictions \in SUBSET Kinds /\ {} \in SUBSET Kinds
  BY DEF SpecialtyContradictions, LifterContradictions, HoursContradictions, Kinds
<1>3. ASSUME NEW base \in Int, NEW against \in SUBSET Kinds
      PROVE  Penalised(base, against) \in 5..99
  BY PenaltyBounded, ContradictionsFinite
<1>4. PremiumCertainty \in 5..99
  <2>1. Min({inferred.reasons, 4}) \in Int
    <3>1. inferred.reasons \in Int
      BY <1>1
    <3>2. QED
      BY <3>1, MinMaxOfTwo
  <2>2. 35 + 5 * inferred.premium + 5 * Min({inferred.reasons, 4}) \in Int
    BY <1>1, <2>1
  <2>3. QED
    BY <1>2, <1>3, <2>2 DEF PremiumCertainty
<1>5. HoursCertainty \in 5..99
  <2>1. (IF inferred.is_24_7 THEN 98 ELSE IF Has({"opening_hours"}) THEN 84 ELSE 48) \in Int
    OBVIOUS
  <2>2. QED
    BY <1>2, <1>3, <2>1 DEF HoursCertainty
<1>6. LifterCertainty \in 5..99
  <2> DEFINE base == CASE inferred.lifter # "nothing" /\ Has(StrengthCapabilities) -> 91
              [] inferred.lifter = "tags" /\ ~Has(StrengthCapabilities) -> 67
              [] inferred.lifter = "name" /\ ~Has(StrengthCapabilities) -> 67 - 4
              [] inferred.lifter = "nothing" /\ Has(NonStrengthCapabilities) -> 76
              [] inferred.lifter = "nothing" /\ ~Has(NonStrengthCapabilities)
                   -> IF Has({"fitness_centre", "fitness"}) THEN 62 ELSE 52
  <2>1. base \in Int
    BY <1>1 DEF Support
  <2>2. LifterCertainty = Penalised(base, LifterContradictions)
    BY DEF LifterCertainty
  <2> HIDE DEF base
  <2>3. QED
    BY <1>2, <1>3, <2>1, <2>2
<1>7. SpecialtyCertainty \in 5..99
  <2> DEFINE base == IF inferred.specialty = "general_fitness"
                     THEN IF features.capabilities # {} THEN 66 ELSE 48
                     ELSE IF Has(ExpectedCapabilities(inferred.specialty)) THEN 93
                     ELSE IF inferred.support = "name" THEN 72 ELSE 58
  <2>1. base \in Int
    OBVIOUS
  <2>2. SpecialtyCertainty = Penalised(base, SpecialtyContradictions)
    BY DEF SpecialtyCertainty
  <2> HIDE DEF base
  <2>3. QED
    BY <1>2, <1>3, <2>1, <2>2
<1>8. TierCertainty \in 5..99
  <2> DEFINE base == (5200 + 32 * PremiumCertainty
                        + (IF inferred.is_24_7 THEN 2 * 400 + 500 ELSE 400) + 50) \div 100
  <2>1. base \in Int
    BY <1>4
  <2>2. TierCertainty = Penalised(base, {})
    BY DEF TierCertainty
  <2> HIDE DEF base
  <2>3. QED
    BY <1>2, <1>3, <2>1, <2>2
<1>9. /\ diagnosis'.specialty = SpecialtyContradictions
      /\ diagnosis'.of = [premium |-> PremiumCertainty, is_24_7 |-> HoursCertainty,
                          lifter |-> LifterCertainty, specialty |-> SpecialtyCertainty,
                          tier |-> TierCertainty]
      /\ UNCHANGED <<features, inferred>>
  BY DEF Diagnose
<1>10. diagnosis'.of \in Certainties
  BY <1>4, <1>5, <1>6, <1>7, <1>8, <1>9 DEF Certainties
<1>11. QED
  BY <1>2, <1>9, <1>10 DEF InferenceTypeOK, Kinds

LEMMA InferenceTyped == InferenceSpec => []InferenceTypeOK
<1>1. InferenceInit => InferenceTypeOK
  BY DEF InferenceInit, InferenceTypeOK, Support, Diagnosed
<1>2. InferenceTypeOK /\ [InferenceNext]_inferenceVars => InferenceTypeOK'
  <2> SUFFICES ASSUME InferenceTypeOK, [InferenceNext]_inferenceVars
               PROVE  InferenceTypeOK'
    OBVIOUS
  <2>1. CASE Extract
    <3>1. PICK n \in 0..TagsTogether, w \in 0..WordsTogether :
            \E tags \in kSubset(n, Tagged), words \in kSubset(w, NameWords) :
              features' = [capabilities |-> tags, words |-> words]
      BY <2>1 DEF Extract
    <3>2. features' \in [capabilities : SUBSET Tagged, words : SUBSET NameWords]
      BY <3>1 DEF kSubset
    <3>3. UNCHANGED <<inferred, diagnosis>>
      BY <2>1 DEF Extract
    <3>4. QED
      BY <3>2, <3>3 DEF InferenceTypeOK, Diagnosed
  <2>2. CASE UNCHANGED inferenceVars
    BY <2>2 DEF inferenceVars, InferenceTypeOK, Diagnosed
  <2>3. QED
    BY <2>1, <2>2, InferTyped, DiagnoseTyped DEF InferenceNext
<1>3. QED
  BY <1>1, <1>2, PTL DEF InferenceSpec

----------------------------------------------------------------------------
(* Scoring: more evidence never scores less.                               *)

(* Sets of tags stay finite.                                               *)
LEMMA AddOne ==
  ASSUME NEW S, IsFiniteSet(S), NEW x
  PROVE  IsFiniteSet(S \cup {x})
  BY FS_AddElement

(* The tags that a part of the score counts are finitely many.             *)
LEMMA CountedTags ==
  ASSUME NEW tags
  PROVE  /\ Cardinality(tags \cap AddressTags) \in Nat
         /\ Cardinality(tags \cap BrandTags) \in Nat
         /\ Cardinality(tags \cap MetadataTags) \in Nat
<1>1. IsFiniteSet(AddressTags)
  <2>1. AddressTags = (({"addr:housenumber"} \cup {"addr:street"}) \cup {"addr:city"})
    BY DEF AddressTags
  <2>2. QED
    BY <2>1, FS_Singleton, AddOne
<1>2. IsFiniteSet(BrandTags)
  <2>1. BrandTags = ((({"brand"} \cup {"brand:wikidata"}) \cup {"operator"})
                       \cup {"operator:wikidata"})
    BY DEF BrandTags
  <2>2. IsFiniteSet(({"brand"} \cup {"brand:wikidata"}) \cup {"operator"})
    BY FS_Singleton, AddOne
  <2>3. QED
    BY <2>1, <2>2, AddOne
<1>3. IsFiniteSet(MetadataTags)
  <2> DEFINE four == {"opening_hours", "sport", "internet_access", "wheelchair"}
             eight == {"opening_hours", "sport", "internet_access", "wheelchair",
                       "swimming_pool", "sauna", "shower", "contact:instagram"}
  <2>1. IsFiniteSet(four)
    <3>1. four = ((({"opening_hours"} \cup {"sport"}) \cup {"internet_access"})
                    \cup {"wheelchair"})
      OBVIOUS
    <3>2. IsFiniteSet(({"opening_hours"} \cup {"sport"}) \cup {"internet_access"})
      BY FS_Singleton, AddOne
    <3>3. QED
      BY <3>1, <3>2, AddOne
  <2>2. IsFiniteSet(eight)
    <3>1. eight = ((((four \cup {"swimming_pool"}) \cup {"sauna"}) \cup {"shower"})
                     \cup {"contact:instagram"})
      OBVIOUS
    <3>2. IsFiniteSet((four \cup {"swimming_pool"}) \cup {"sauna"})
      BY <2>1, AddOne
    <3>3. IsFiniteSet(((four \cup {"swimming_pool"}) \cup {"sauna"}) \cup {"shower"})
      BY <3>2, AddOne
    <3>4. IsFiniteSet((((four \cup {"swimming_pool"}) \cup {"sauna"}) \cup {"shower"})
                        \cup {"contact:instagram"})
      <4> DEFINE seven == ((four \cup {"swimming_pool"}) \cup {"sauna"}) \cup {"shower"}
      <4> HIDE DEF seven
      <4>1. IsFiniteSet(seven \cup {"contact:instagram"})
        BY <3>3, AddOne DEF seven
      <4>2. QED
        BY <4>1 DEF seven
    <3>5. QED
      BY <3>1, <3>4
  <2>3. MetadataTags = (((eight \cup {"contact:facebook"}) \cup {"contact:tiktok"})
                          \cup {"contact:youtube"})
    BY DEF MetadataTags
  <2>4. IsFiniteSet((eight \cup {"contact:facebook"}) \cup {"contact:tiktok"})
    BY <2>2, AddOne
  <2>5. QED
    BY <2>3, <2>4, AddOne
<1>4. ASSUME NEW S, IsFiniteSet(S)
      PROVE  Cardinality(tags \cap S) \in Nat
  <2>1. IsFiniteSet(tags \cap S)
    BY <1>4, FS_Subset
  <2>2. QED
    BY <2>1, FS_CardinalityType
<1>5. QED
  BY <1>1, <1>2, <1>3, <1>4

(* The evidence is a number.                                               *)
LEMMA EvidenceNumber ==
  ASSUME NEW gym \in ScoredGym
  PROVE  EvidenceScore(gym) \in Nat
<1> USE DEF Points100
<1>1. AddressScore(gym.tags) \in Nat
  BY DEF AddressScore
<1>2. ContactScore(gym.tags) \in Nat
  BY DEF ContactScore
<1>3. BrandScore(gym.tags) \in Nat
  BY DEF BrandScore
<1>4. MetadataScore(gym.tags) \in Nat
  <2>1. PICK n \in Nat : n = Cardinality(gym.tags \cap MetadataTags)
    BY CountedTags
  <2>2. QED
    BY <2>1 DEF MetadataScore, Lesser
<1>5. ExternalScore(gym) \in Nat
  <2>1. gym.distance \in 1..3
    BY DEF ScoredGym
  <2>2. (<<6, 4, 2>>)[gym.distance] \in {2, 4, 6}
    BY <2>1
  <2>3. CASE gym.status = "matched"
    BY <2>2, <2>3 DEF ExternalScore
  <2>4. CASE gym.status # "matched"
    BY <2>4 DEF ExternalScore
  <2>5. QED
    BY <2>3, <2>4
<1>6. RefsScore(gym.refs) \in Nat
  BY DEF RefsScore
<1>7. Points100(gym.tags \cap TaxonomyTags # {}, 10) \in Nat /\ Points100(~gym.generic, 8) \in Nat
  OBVIOUS
<1> HIDE DEF Points100
<1>8. QED
  BY <1>1, <1>2, <1>3, <1>4, <1>5, <1>6, <1>7 DEF EvidenceScore

(* What merged places of TomTom can add up to.                             *)
LEMMA TomTomEvidence ==
  ASSUME NEW gym \in ScoredGym, gym.tags \subseteq TomTomTags,
         gym.status \in {"tomtom_only", "tomtom_corroborated"}
  PROVE  EvidenceScore(gym) \in 0..66
<1> USE DEF Points100
<1> DEFINE tags == gym.tags
<1>1. AddressScore(tags) \in 0..8
  <2>1. tags \cap AddressTags \subseteq {"addr:city"}
    BY DEF AddressTags, TomTomTags
  <2>2. Cardinality(tags \cap AddressTags) \in Nat /\ Cardinality(tags \cap AddressTags) <= 1
    <3>1. Cardinality(tags \cap AddressTags) \in Nat
      BY CountedTags
    <3>2. IsFiniteSet({"addr:city"}) /\ Cardinality({"addr:city"}) = 1
      BY FS_Singleton
    <3>3. Cardinality(tags \cap AddressTags) <= Cardinality({"addr:city"})
      BY <2>1, <3>2, FS_Subset
    <3>4. QED
      BY <3>1, <3>2, <3>3
  <2>3. QED
    BY <2>2 DEF AddressScore
<1>2. ContactScore(tags) \in 0..22
  <2>1. tags \cap PhoneTags = {} /\ tags \cap EmailTags = {} /\ "opening_hours" \notin tags
    BY DEF PhoneTags, EmailTags, TomTomTags
  <2>2. QED
    BY <2>1 DEF ContactScore
<1>3. BrandScore(tags) = 0
  <2>1. tags \cap BrandTags = {}
    BY DEF BrandTags, TomTomTags
  <2>2. Cardinality(tags \cap BrandTags) = 0
    BY <2>1, FS_EmptySet
  <2>3. QED
    BY <2>2 DEF BrandScore
<1>4. MetadataScore(tags) = 0
  <2>1. tags \cap MetadataTags = {}
    BY DEF MetadataTags, TomTomTags
  <2>2. Cardinality(tags \cap MetadataTags) = 0
    BY <2>1, FS_EmptySet
  <2>3. QED
    BY <2>2 DEF MetadataScore, Lesser
<1>5. ExternalScore(gym) = 0
  BY DEF ExternalScore
<1>6. RefsScore(gym.refs) \in 0..18
  BY DEF RefsScore, ScoredGym
<1>7. /\ Points100(tags \cap TaxonomyTags # {}, 10) \in 0..10
      /\ Points100(~gym.generic, 8) \in 0..8
  OBVIOUS
<1> HIDE DEF Points100
<1>8. QED
  BY <1>1, <1>2, <1>3, <1>4, <1>5, <1>6, <1>7 DEF EvidenceScore

(* The tiers, for any evidence of the gym.                                 *)
LEMMA TierScores ==
  ASSUME NEW gym \in ScoredGym
  PROVE  /\ Confidence(gym) \in 0..100
         /\ gym.status = "tomtom_only" /\ gym.tags \subseteq TomTomTags
              => /\ Confidence(gym) = Greater(EvidenceScore(gym), 40)
                 /\ Confidence(gym) \in 40..66
         /\ gym.status = "tomtom_corroborated" /\ gym.tags \subseteq TomTomTags
              => /\ Confidence(gym) = Lesser(Greater(EvidenceScore(gym) + 6, 40), 68)
                 /\ Confidence(gym) \in 40..68
         /\ gym.status = "osm_nearby" => Confidence(gym) \in 70..100
         /\ gym.status = "osm_confirmed" => Confidence(gym) \in 85..100
<1> DEFINE score == EvidenceScore(gym)
<1>1. score \in Nat
  BY EvidenceNumber
<1>2. gym.tags \subseteq TomTomTags /\ gym.status \in {"tomtom_only", "tomtom_corroborated"}
        => score \in 0..66
  BY TomTomEvidence
<1>3. Confidence(gym) = Lesser(ProvenanceTier(score, gym.status), 100)
  BY DEF Confidence
<1> HIDE DEF score
<1> USE DEF ProvenanceTier, ConfidenceFloor, ProvenanceBoost, Points100, Greater, Lesser,
            HardCap, TierStatuses
<1>4. CASE gym.status = "tomtom_only"
  BY <1>1, <1>2, <1>3, <1>4 DEF score
<1>5. CASE gym.status = "tomtom_corroborated"
  BY <1>1, <1>2, <1>3, <1>5 DEF score
<1>6. CASE gym.status \in {"osm_nearby", "osm_confirmed"}
  BY <1>1, <1>3, <1>6
<1>7. CASE gym.status \notin TierStatuses
  BY <1>1, <1>3, <1>7
<1>8. QED
  BY <1>4, <1>5, <1>6, <1>7

(* A gym that OSM has not confirmed has the tags it was found with, and    *)
(* the score that is kept is that of the gym as it is.                     *)
ScoringInv ==
  /\ scoredGym \in ScoredGym
  /\ scoredGym.status \in {"tomtom_only", "tomtom_corroborated"} =>
       scoredGym.tags \subseteq TomTomTags
  /\ stage \in {"scored", "rescored"} => confidence = Confidence(scoredGym)

LEMMA ScoringInitHolds == ScoringInit => ScoringInv
<1> SUFFICES ASSUME ScoringInit
             PROVE  ScoringInv
  OBVIOUS
<1>1. stage = "found"
  BY DEF ScoringInit
<1>2. PICK generic \in BOOLEAN, refs \in 1..3 :
        \/ \E tags \in SUBSET TomTomTags :
             scoredGym = FoundLive(tags \cup {"fitness_centre"}, generic, refs)
        \/ \E tags \in SUBSET OsmTags, status \in IngestStatuses, distance \in 1..3, url \in BOOLEAN :
             scoredGym = [tags |-> tags, generic |-> generic, refs |-> refs,
                          status |-> status, distance |-> distance, url |-> url]
  BY DEF ScoringInit
<1>3. ASSUME NEW tags \in SUBSET TomTomTags,
             scoredGym = FoundLive(tags \cup {"fitness_centre"}, generic, refs)
      PROVE  ScoringInv
  <2>1. tags \cup {"fitness_centre"} \subseteq TomTomTags
    BY DEF TomTomTags
  <2>2. scoredGym \in ScoredGym /\ scoredGym.tags = tags \cup {"fitness_centre"}
    BY <1>3, <2>1 DEF FoundLive, ScoredGym, TierStatuses
  <2>3. QED
    BY <1>1, <2>1, <2>2 DEF ScoringInv
<1>4. ASSUME NEW tags \in SUBSET OsmTags, NEW status \in IngestStatuses,
             NEW distance \in 1..3, NEW url \in BOOLEAN,
             scoredGym = [tags |-> tags, generic |-> generic, refs |-> refs,
                          status |-> status, distance |-> distance, url |-> url]
      PROVE  ScoringInv
  <2>1. scoredGym \in ScoredGym /\ scoredGym.status \in IngestStatuses
    BY <1>4 DEF ScoredGym
  <2>2. QED
    BY <1>1, <2>1 DEF ScoringInv, IngestStatuses
<1>5. QED
  BY <1>2, <1>3, <1>4

LEMMA ScoringNextKeeps == ScoringInv /\ [ScoringNext]_scoringVars => ScoringInv'
<1> SUFFICES ASSUME ScoringInv, [ScoringNext]_scoringVars
             PROVE  ScoringInv'
  OBVIOUS
<1>1. CASE ConfirmByOsm
  <2>1. PICK tags \in SUBSET (OsmTags \cap OsmEnrichKeys), status \in {"osm_nearby", "osm_confirmed"} :
          scoredGym' = [scoredGym EXCEPT !.status = status, !.tags = @ \cup tags]
    BY <1>1 DEF ConfirmByOsm
  <2>2. scoredGym.tags \cup tags \subseteq TomTomTags \cup OsmEnrichKeys \cup OsmTags
    BY DEF ScoringInv, ScoredGym
  <2>3. scoredGym' \in ScoredGym /\ scoredGym'.status = status
    BY <2>1, <2>2 DEF ScoringInv, ScoredGym, TierStatuses
  <2>4. stage' \notin {"scored", "rescored"}
    BY <1>1 DEF ConfirmByOsm
  <2>5. QED
    BY <2>3, <2>4 DEF ScoringInv
<1>2. CASE Corroborate
  <2>1. /\ scoredGym' = [scoredGym EXCEPT !.status = "tomtom_corroborated"]
        /\ scoredGym.status = "tomtom_only" /\ stage' = "branded"
    BY <1>2 DEF Corroborate
  <2>2. scoredGym' \in ScoredGym /\ scoredGym'.tags = scoredGym.tags
    BY <2>1 DEF ScoringInv, ScoredGym, TierStatuses
  <2>3. QED
    BY <2>1, <2>2 DEF ScoringInv
<1>3. CASE ComputeConfidence
  <2>1. scoredGym' = scoredGym /\ confidence' = Confidence(scoredGym)
    BY <1>3 DEF ComputeConfidence
  <2>2. confidence' = Confidence(scoredGym)'
    BY <2>1
  <2>3. QED
    BY <2>1, <2>2 DEF ScoringInv
<1>4. CASE UNCHANGED scoringVars
  <2>1. scoredGym' = scoredGym /\ confidence' = confidence /\ stage' = stage
    BY <1>4 DEF scoringVars
  <2>2. Confidence(scoredGym)' = Confidence(scoredGym)
    BY <2>1
  <2>3. QED
    BY <2>1, <2>2 DEF ScoringInv
<1>5. QED
  BY <1>1, <1>2, <1>3, <1>4 DEF ScoringNext

(* What the gym was found with scores at most what TomTom can add up to.   *)
LEMMA ScoringInvOrders == ScoringInv => EvidenceOrdersScores
<1> SUFFICES ASSUME ScoringInv
             PROVE  EvidenceOrdersScores
  OBVIOUS
<1> DEFINE gym == scoredGym
           found == [scoredGym EXCEPT !.status = "tomtom_only", !.tags = @ \cap TomTomTags]
<1>1. gym \in ScoredGym
  BY DEF ScoringInv
<1>2. /\ found \in ScoredGym /\ found.status = "tomtom_only" /\ found.tags \subseteq TomTomTags
      /\ found.tags = gym.tags \cap TomTomTags
      /\ found.generic = gym.generic /\ found.refs = gym.refs
  BY <1>1 DEF ScoredGym, TierStatuses
<1>3. TiersSeparated
  BY <1>1, TierScores DEF TiersSeparated, ScoringInv
<1>4. ASSUME stage \in {"scored", "rescored"}, gym.status \in TierStatuses
      PROVE  confidence >= Confidence(found)
  <2>1. confidence = Confidence(gym)
    BY <1>4 DEF ScoringInv
  <2>2. Confidence(found) = Greater(EvidenceScore(found), 40) /\ Confidence(found) \in 40..66
    BY <1>2, TierScores
  <2>3. CASE gym.status \in {"osm_nearby", "osm_confirmed"}
    <3>1. Confidence(gym) \in 70..100
      BY <1>1, <2>3, TierScores
    <3>2. QED
      BY <2>1, <2>2, <3>1
  <2>4. CASE gym.status \in {"tomtom_only", "tomtom_corroborated"}
    <3>1. gym.tags \subseteq TomTomTags /\ found.tags = gym.tags
      BY <1>2, <2>4 DEF ScoringInv
    <3>2. ExternalScore(gym) = 0 /\ ExternalScore(found) = 0
      BY <1>2, <2>4 DEF ExternalScore
    <3>3. EvidenceScore(found) = EvidenceScore(gym)
      BY <1>2, <3>1, <3>2 DEF EvidenceScore
    <3>4. EvidenceScore(gym) \in 0..66
      BY <1>1, <2>4, <3>1, TomTomEvidence
    <3>5. \/ Confidence(gym) = Greater(EvidenceScore(gym), 40)
          \/ Confidence(gym) = Lesser(Greater(EvidenceScore(gym) + 6, 40), 68)
      BY <1>1, <2>4, <3>1, TierScores
    <3> HIDE DEF gym, found
    <3>6. QED
      BY <2>1, <2>2, <3>3, <3>4, <3>5 DEF Greater, Lesser
  <2>5. QED
    BY <1>4, <2>3, <2>4 DEF TierStatuses
<1>5. EvidenceNeverCosts
  BY <1>4 DEF EvidenceNeverCosts
<1>6. QED
  BY <1>3, <1>5 DEF EvidenceOrdersScores

LEMMA ScoringInvariant == ScoringSpec => []ScoringInv
  BY ScoringInitHolds, ScoringNextKeeps, PTL DEF ScoringSpec

(* More evidence is a higher tier and never a lower score, whatever tags   *)
(* the elements of OSM bear (the tiers of a score and their caps).         *)
THEOREM EvidenceOrders == ScoringSpec => []EvidenceOrdersScores
  BY ScoringInvariant, ScoringInvOrders, PTL

LEMMA ScoringTyped == ScoringSpec => []ScoringTypeOK
<1>1. ScoringInit => ScoringTypeOK
  <2>1. ScoringInit => stage = "found" /\ confidence = 0
    BY DEF ScoringInit
  <2>2. ScoringInit => scoredGym \in ScoredGym
    BY ScoringInitHolds DEF ScoringInv
  <2>3. QED
    BY <2>1, <2>2 DEF ScoringTypeOK
<1>2. ScoringTypeOK /\ ScoringInv /\ ScoringInv' /\ [ScoringNext]_scoringVars => ScoringTypeOK'
  <2> SUFFICES ASSUME ScoringTypeOK, ScoringInv, ScoringInv', [ScoringNext]_scoringVars
               PROVE  ScoringTypeOK'
    OBVIOUS
  <2>1. scoredGym' \in ScoredGym
    BY DEF ScoringInv
  <2>2. stage' \in {"found", "probed", "branded", "scored", "enriched", "rescored"}
    BY DEF ScoringTypeOK, ScoringNext, ConfirmByOsm, Corroborate, ComputeConfidence, scoringVars
  <2>3. confidence' \in {confidence, Confidence(scoredGym)}
    BY DEF ScoringNext, ConfirmByOsm, Corroborate, ComputeConfidence, scoringVars
  <2>4. Confidence(scoredGym) \in 0..100
    BY TierScores DEF ScoringInv
  <2>5. QED
    BY <2>1, <2>2, <2>3, <2>4 DEF ScoringTypeOK
<1>3. QED
  BY <1>1, <1>2, ScoringInvariant, PTL DEF ScoringSpec

----------------------------------------------------------------------------
(* Paging: the pages of a listing are the whole of it.                     *)

(* A finite set that is strictly ordered has a sorted sequence: the place  *)
(* of an element is how many come before it.                               *)
Orders(R, S) ==
  /\ \A x \in S : <<x, x>> \notin R
  /\ \A x, y, z \in S : <<x, y>> \in R /\ <<y, z>> \in R => <<x, z>> \in R
  /\ \A x, y \in S : x = y \/ <<x, y>> \in R \/ <<y, x>> \in R
Sorted(R, n, seq) == \A i, j \in 1..n : i < j => <<seq[i], seq[j]>> \in R

LEMMA SortExists ==
  ASSUME NEW S, IsFiniteSet(S), NEW R, Orders(R, S)
  PROVE  \E seq \in [1..Cardinality(S) -> S] : Sorted(R, Cardinality(S), seq)
<1> DEFINE n == Cardinality(S)
           before(x) == {y \in S : <<y, x>> \in R}
           rank == [x \in S |-> Cardinality(before(x)) + 1]
<1>1. n \in Nat
  BY FS_CardinalityType
<1>2. ASSUME NEW x \in S
      PROVE  /\ IsFiniteSet(before(x)) /\ Cardinality(before(x)) \in Nat
             /\ Cardinality(before(x)) + 1 \in 1..n
  <2>1. before(x) \subseteq S \ {x}
    BY DEF Orders
  <2>2. IsFiniteSet(S \ {x}) /\ Cardinality(S \ {x}) = n - 1
    BY FS_RemoveElement
  <2>3. IsFiniteSet(before(x)) /\ Cardinality(before(x)) <= n - 1
    <3> HIDE DEF before, n
    <3>1. QED
      BY <2>1, <2>2, FS_Subset
  <2>4. Cardinality(before(x)) \in Nat
    <3> HIDE DEF before
    <3>1. QED
      BY <2>3, FS_CardinalityType
  <2>5. QED
    <3> HIDE DEF before, n
    <3>1. QED
      BY <1>1, <2>3, <2>4
<1>3. ASSUME NEW x \in S, NEW y \in S, <<x, y>> \in R
      PROVE  Cardinality(before(x)) < Cardinality(before(y))
  <2>1. before(x) \subseteq before(y) /\ x \in before(y) /\ x \notin before(x)
    BY <1>3 DEF Orders
  <2>2. IsFiniteSet(before(y)) /\ Cardinality(before(x)) \in Nat /\ Cardinality(before(y)) \in Nat
    BY <1>2
  <2> HIDE DEF before
  <2>3. Cardinality(before(x)) <= Cardinality(before(y))
    BY <2>1, <2>2, FS_Subset
  <2>4. Cardinality(before(x)) # Cardinality(before(y))
    BY <2>1, <2>2, FS_Subset
  <2>5. QED
    BY <2>2, <2>3, <2>4
<1>4. ASSUME NEW x \in S, NEW y \in S, <<x, y>> \in R
      PROVE  rank[x] < rank[y]
  <2>1. rank[x] = Cardinality(before(x)) + 1 /\ rank[y] = Cardinality(before(y)) + 1
    OBVIOUS
  <2>2. Cardinality(before(x)) \in Nat /\ Cardinality(before(y)) \in Nat
    BY <1>2
  <2>3. Cardinality(before(x)) < Cardinality(before(y))
    BY <1>3, <1>4
  <2> HIDE DEF before, rank
  <2>4. QED
    BY <2>1, <2>2, <2>3
<1>5. rank \in [S -> 1..n]
  BY <1>2
<1> HIDE DEF rank, before
<1>6. \A x, y \in S : rank[x] = rank[y] => x = y
  <2> SUFFICES ASSUME NEW x \in S, NEW y \in S, rank[x] = rank[y], x # y
               PROVE  FALSE
    OBVIOUS
  <2>1. rank[x] < rank[y] \/ rank[y] < rank[x]
    BY <1>4 DEF Orders
  <2>2. rank[x] \in Int /\ rank[y] \in Int
    BY <1>5
  <2>3. QED
    BY <2>1, <2>2
<1>7. rank \in Injection(S, 1..n)
  BY <1>5, <1>6 DEF Injection, IsInjective
<1>8. IsFiniteSet(1..n) /\ Cardinality(1..n) = n
  <2> HIDE DEF n
  <2>1. Cardinality(1..n) = IF 1 > n THEN 0 ELSE n - 1 + 1
    BY <1>1, FS_Interval
  <2>2. IsFiniteSet(1..n)
    BY <1>1, FS_Interval
  <2>3. QED
    BY <1>1, <2>1, <2>2
<1>9. rank \in Surjection(S, 1..n)
  BY <1>7, <1>8, FS_Injection
<1>10. \A i \in 1..n : \E x \in S : rank[x] = i
  BY <1>9 DEF Surjection
<1> DEFINE seq == [i \in 1..n |-> CHOOSE x \in S : rank[x] = i]
<1>11. \A i \in 1..n : seq[i] \in S /\ rank[seq[i]] = i
  BY <1>10
<1>12. seq \in [1..n -> S]
  BY <1>11
<1> HIDE DEF seq
<1>13. ASSUME NEW i \in 1..n, NEW j \in 1..n, i < j
       PROVE  <<seq[i], seq[j]>> \in R
  <2>1. seq[i] # seq[j]
    BY <1>11, <1>13
  <2>2. <<seq[j], seq[i]>> \notin R
    <3>1. ~(j < i)
      BY <1>1, <1>13
    <3>2. QED
      BY <1>4, <1>11, <3>1
  <2>3. QED
    BY <1>11, <2>1, <2>2 DEF Orders
<1>14. Sorted(R, n, seq)
  BY <1>13 DEF Sorted
<1>15. QED
  BY <1>12, <1>14

(* Such a sequence has all the elements.                                   *)
LEMMA SortedHasAll ==
  ASSUME NEW S, IsFiniteSet(S), NEW R, Orders(R, S),
         NEW seq, seq \in [1..Cardinality(S) -> S], Sorted(R, Cardinality(S), seq)
  PROVE  seq \in Seq(S) /\ Len(seq) = Cardinality(S) /\ ToSet(seq) = S
<1> DEFINE n == Cardinality(S)
<1>1. n \in Nat
  BY FS_CardinalityType
<1>2. seq \in Seq(S) /\ Len(seq) = n /\ DOMAIN seq = 1..n
  BY <1>1
<1>3. ASSUME NEW i \in 1..n, NEW j \in 1..n, seq[i] = seq[j], i # j
      PROVE  FALSE
  <2>1. i < j \/ j < i
    BY <1>1, <1>3
  <2>2. seq[i] \in S
    OBVIOUS
  <2>3. QED
    BY <1>3, <2>1, <2>2 DEF Sorted, Orders
<1>4. seq \in Injection(1..n, S)
  BY <1>3 DEF Injection, IsInjective
<1>5. IsFiniteSet(1..n) /\ Cardinality(1..n) = n
  <2> HIDE DEF n
  <2>1. Cardinality(1..n) = IF 1 > n THEN 0 ELSE n - 1 + 1
    BY <1>1, FS_Interval
  <2>2. IsFiniteSet(1..n)
    BY <1>1, FS_Interval
  <2>3. QED
    BY <1>1, <2>1, <2>2
<1>6. seq \in Surjection(1..n, S)
  BY <1>4, <1>5, FS_Injection
<1>7. \A x \in S : \E i \in 1..n : seq[i] = x
  BY <1>6 DEF Surjection
<1>8. ToSet(seq) = S
  BY <1>2, <1>7 DEF ToSet
<1>9. QED
  BY <1>2, <1>8

(* The three orders are strict on the rows of a shelf.                     *)
Pairs(S) == S \X S
ConfidenceOrder(S) == {pair \in Pairs(S) : ByConfidence(pair[1], pair[2])}
DistanceOrder(S) == {pair \in Pairs(S) : ByDistance(pair[1], pair[2])}
ReviewOrder(S) == {pair \in Pairs(S) : ForReview(pair[1], pair[2])}

(* The gyms of a shelf are finitely many and have different ids.           *)
LEMMA ShelfFacts ==
  ASSUME NEW rows \in Shelves, NEW S \in SUBSET rows
  PROVE  /\ IsFiniteSet(S) /\ S \subseteq Row
         /\ \A r \in S : r.id \in Ids /\ r.id \in Nat /\ r.level \in Nat
                         /\ NameOf[r.id] \in Nat /\ DistanceOf[r.id] \in Nat
                         /\ ScanOf[r.id] \in Nat
         /\ \A r, s \in S : r.id = s.id => r = s
         /\ \A r, s \in S : ScanOf[r.id] = ScanOf[s.id] => r = s
<1>1. S \subseteq Row /\ \A r, s \in S : r.id = s.id => r = s
  BY DEF Shelves
<1>2. \A r \in S : r.id \in Ids /\ r.id \in Nat /\ r.level \in Nat
                   /\ NameOf[r.id] \in Nat /\ DistanceOf[r.id] \in Nat /\ ScanOf[r.id] \in Nat
  BY <1>1, PagingAssumption DEF Row
<1> DEFINE ids == [r \in S |-> r.id]
<1>3. ids \in Injection(S, Ids)
  BY <1>1, <1>2 DEF Injection, IsInjective
<1>4. IsFiniteSet(S)
  BY <1>3, FS_Injection, PagingAssumption
<1>5. \A r, s \in S : ScanOf[r.id] = ScanOf[s.id] => r = s
  BY <1>1, <1>2, PagingAssumption
<1>6. QED
  BY <1>1, <1>2, <1>4, <1>5

(* Each way of listing compares any two of them.                           *)
LEMMA OrdersOfShelf ==
  ASSUME NEW rows \in Shelves, NEW S \in SUBSET rows
  PROVE  /\ Orders(ConfidenceOrder(S), S) /\ Orders(DistanceOrder(S), S)
         /\ Orders(ReviewOrder(S), S)
<1>1. /\ \A r \in S : r.id \in Nat /\ r.level \in Nat
                      /\ NameOf[r.id] \in Nat /\ DistanceOf[r.id] \in Nat
                      /\ ScanOf[r.id] \in Nat
      /\ \A r, s \in S : r.id = s.id => r = s
      /\ \A r, s \in S : ScanOf[r.id] = ScanOf[s.id] => r = s
  BY ShelfFacts
<1>2. /\ \A x, y \in S : <<x, y>> \in ConfidenceOrder(S) <=> ByConfidence(x, y)
      /\ \A x, y \in S : <<x, y>> \in DistanceOrder(S) <=> ByDistance(x, y)
      /\ \A x, y \in S : <<x, y>> \in ReviewOrder(S) <=> ForReview(x, y)
  BY DEF ConfidenceOrder, DistanceOrder, ReviewOrder, Pairs
<1>3. Orders(ConfidenceOrder(S), S)
  <2>1. /\ \A x \in S : ~ByConfidence(x, x)
        /\ \A x, y, z \in S : ByConfidence(x, y) /\ ByConfidence(y, z) => ByConfidence(x, z)
        /\ \A x, y \in S : x = y \/ ByConfidence(x, y) \/ ByConfidence(y, x)
    BY <1>1 DEF ByConfidence
  <2>2. QED
    BY <1>2, <2>1 DEF Orders
<1>4. Orders(DistanceOrder(S), S)
  <2>1. /\ \A x \in S : ~ByDistance(x, x)
        /\ \A x, y, z \in S : ByDistance(x, y) /\ ByDistance(y, z) => ByDistance(x, z)
        /\ \A x, y \in S : x = y \/ ByDistance(x, y) \/ ByDistance(y, x)
    BY <1>1 DEF ByDistance
  <2>2. QED
    BY <1>2, <2>1 DEF Orders
<1>5. Orders(ReviewOrder(S), S)
  <2>1. /\ \A x \in S : ~ForReview(x, x)
        /\ \A x, y, z \in S : ForReview(x, y) /\ ForReview(y, z) => ForReview(x, z)
        /\ \A x, y \in S : x = y \/ ForReview(x, y) \/ ForReview(y, x)
    BY <1>1 DEF ForReview
  <2>2. QED
    BY <1>2, <2>1 DEF Orders
<1>6. QED
  BY <1>3, <1>4, <1>5

(* So all the rows are listed, by confidence, by distance and for review.  *)
IsListing(seq, S) == seq \in Seq(S) /\ Len(seq) = Cardinality(S) /\ ToSet(seq) = S

LEMMA ListingByConfidence ==
  ASSUME NEW rows \in Shelves, NEW S \in SUBSET rows
  PROVE  IsListing(Ordered(S, ByConfidence), S)
<1> DEFINE R == ConfidenceOrder(S)
           n == Cardinality(S)
           seq == Ordered(S, ByConfidence)
<1>1. IsFiniteSet(S) /\ Orders(R, S)
  BY ShelfFacts, OrdersOfShelf
<1>2. PICK s \in [1..n -> S] : Sorted(R, n, s)
  BY <1>1, SortExists
<1>3. \A i, j \in 1..n : i < j => ByConfidence(s[i], s[j])
  BY <1>2 DEF Sorted, ConfidenceOrder, Pairs
<1>4. /\ seq \in [1..n -> S]
      /\ \A i, j \in 1..n : i < j => ByConfidence(seq[i], seq[j])
  BY <1>2, <1>3 DEF Ordered
<1> HIDE DEF seq
<1>5. Sorted(R, n, seq)
  BY <1>4 DEF Sorted, ConfidenceOrder, Pairs
<1>6. QED
  BY <1>1, <1>4, <1>5, SortedHasAll DEF IsListing, seq

LEMMA ListingByDistance ==
  ASSUME NEW rows \in Shelves, NEW S \in SUBSET rows
  PROVE  IsListing(Ordered(S, ByDistance), S)
<1> DEFINE R == DistanceOrder(S)
           n == Cardinality(S)
           seq == Ordered(S, ByDistance)
<1>1. IsFiniteSet(S) /\ Orders(R, S)
  BY ShelfFacts, OrdersOfShelf
<1>2. PICK s \in [1..n -> S] : Sorted(R, n, s)
  BY <1>1, SortExists
<1>3. \A i, j \in 1..n : i < j => ByDistance(s[i], s[j])
  BY <1>2 DEF Sorted, DistanceOrder, Pairs
<1>4. /\ seq \in [1..n -> S]
      /\ \A i, j \in 1..n : i < j => ByDistance(seq[i], seq[j])
  BY <1>2, <1>3 DEF Ordered
<1> HIDE DEF seq
<1>5. Sorted(R, n, seq)
  BY <1>4 DEF Sorted, DistanceOrder, Pairs
<1>6. QED
  BY <1>1, <1>4, <1>5, SortedHasAll DEF IsListing, seq

LEMMA ListingForReview ==
  ASSUME NEW rows \in Shelves, NEW S \in SUBSET rows
  PROVE  IsListing(Ordered(S, ForReview), S)
<1> DEFINE R == ReviewOrder(S)
           n == Cardinality(S)
           seq == Ordered(S, ForReview)
<1>1. IsFiniteSet(S) /\ Orders(R, S)
  BY ShelfFacts, OrdersOfShelf
<1>2. PICK s \in [1..n -> S] : Sorted(R, n, s)
  BY <1>1, SortExists
<1>3. \A i, j \in 1..n : i < j => ForReview(s[i], s[j])
  BY <1>2 DEF Sorted, ReviewOrder, Pairs
<1>4. /\ seq \in [1..n -> S]
      /\ \A i, j \in 1..n : i < j => ForReview(seq[i], seq[j])
  BY <1>2, <1>3 DEF Ordered
<1> HIDE DEF seq
<1>5. Sorted(R, n, seq)
  BY <1>4 DEF Sorted, ReviewOrder, Pairs
<1>6. QED
  BY <1>1, <1>4, <1>5, SortedHasAll DEF IsListing, seq

(* A page is the part of a listing that its offset and its limit cut out.  *)
Upto(seq, offset, limit) == IF Len(seq) <= offset + limit THEN Len(seq) ELSE offset + limit
IsPage(page, seq, offset, limit) ==
  /\ Len(page) = Upto(seq, offset, limit) - offset
  /\ \A i \in 1..Len(page) : page[i] = seq[offset + i]

(* Where a page ends.                                                      *)
LEMMA UptoFacts ==
  ASSUME NEW T, NEW seq \in Seq(T), NEW offset \in Nat, NEW limit \in Nat, offset <= Len(seq)
  PROVE  /\ Upto(seq, offset, limit) \in offset..Len(seq)
         /\ Upto(seq, offset, limit) \in Nat
         /\ Upto(seq, offset, limit) <= offset + limit
         /\ Upto(seq, offset, limit) = Len(seq) <=> Len(seq) <= offset + limit
<1>1. Len(seq) \in Nat
  OBVIOUS
<1>2. QED
  BY <1>1 DEF Upto

(* A page has rows of its listing only, wherever it begins.                *)
LEMMA CutIsPart ==
  ASSUME NEW T, NEW seq \in Seq(T), NEW offset \in Nat, NEW limit \in Nat
  PROVE  Cut(seq, offset, limit) \in Seq(T)
<1> DEFINE upto == Min({Len(seq), offset + limit})
<1>1. Len(seq) \in Nat /\ offset + limit \in Nat
  OBVIOUS
<1>2. upto \in Nat /\ upto <= Len(seq)
  <2>1. Len(seq) \in Int /\ offset + limit \in Int
    BY <1>1
  <2>2. upto = IF Len(seq) <= offset + limit THEN Len(seq) ELSE offset + limit
    BY <2>1, MinMaxOfTwo
  <2>3. QED
    BY <1>1, <2>2
<1> HIDE DEF upto
<1>3. SubSeq(seq, offset + 1, upto) \in Seq(T)
  <2>1. CASE upto < offset + 1
    <3>1. SubSeq(seq, offset + 1, upto) = << >>
      BY <1>2, <2>1
    <3>2. << >> \in Seq(T)
      OBVIOUS
    <3>3. QED
      BY <3>1, <3>2
  <2>2. CASE ~(upto < offset + 1)
    <3>1. offset + 1 \in 1..Len(seq) /\ upto \in (offset + 1)..Len(seq)
      BY <1>1, <1>2, <2>2
    <3>2. QED
      BY <3>1
  <2>3. QED
    BY <2>1, <2>2
<1>4. QED
  BY <1>3 DEF Cut, upto

(* A page that begins in its listing is the rows from there on.            *)
LEMMA CutFacts ==
  ASSUME NEW T, NEW seq \in Seq(T), NEW offset \in Nat, NEW limit \in Nat, offset <= Len(seq)
  PROVE  /\ Cut(seq, offset, limit) \in Seq(T)
         /\ IsPage(Cut(seq, offset, limit), seq, offset, limit)
<1> DEFINE upto == Upto(seq, offset, limit)
           page == Cut(seq, offset, limit)
<1>1. Len(seq) \in Nat /\ upto \in Nat /\ upto \in offset..Len(seq)
  <2>1. Len(seq) \in Nat
    OBVIOUS
  <2>2. QED
    BY <2>1 DEF Upto
<1>2. Min({Len(seq), offset + limit}) = upto
  <2>1. offset + limit \in Int /\ Len(seq) \in Int
    BY <1>1
  <2>2. QED
    BY <2>1, MinMaxOfTwo DEF Upto
<1> HIDE DEF upto
<1>4. page = SubSeq(seq, offset + 1, upto)
  BY <1>2 DEF Cut
<1>5. page \in Seq(T) /\ Len(page) = upto - offset
  <2>1. CASE upto = offset
    <3>1. SubSeq(seq, offset + 1, upto) = << >>
      BY <2>1, <1>1
    <3>2. page = << >>
      BY <1>4, <3>1
    <3>3. upto - offset = 0
      BY <1>1, <2>1
    <3> HIDE DEF page
    <3>4. QED
      BY <3>2, <3>3
  <2>2. CASE upto # offset
    <3>1. offset + 1 \in 1..Len(seq) /\ upto \in (offset + 1)..Len(seq)
      BY <1>1, <2>2
    <3>2. SubSeq(seq, offset + 1, upto) \in Seq(T)
      BY <3>1
    <3>3. Len(SubSeq(seq, offset + 1, upto)) = upto - offset
      BY <1>1, <3>1
    <3>4. QED
      BY <1>4, <3>2, <3>3
  <2>3. QED
    BY <2>1, <2>2
<1>6. ASSUME NEW i \in 1..(upto - offset)
      PROVE  page[i] = seq[offset + i]
  <2>1. offset + 1 \in 1..Len(seq) /\ upto \in (offset + 1)..Len(seq)
    BY <1>1
  <2>2. SubSeq(seq, offset + 1, upto)[i] = seq[offset + i]
    BY <1>1, <2>1
  <2>3. QED
    BY <1>4, <2>2
<1> HIDE DEF page
<1>7. IsPage(page, seq, offset, limit)
  BY <1>5, <1>6 DEF IsPage, upto
<1>8. QED
  BY <1>5, <1>7 DEF page

(* What a client has got is the beginning of a listing: a prefix of it.    *)
Begins(got, seq) ==
  /\ Len(got) <= Len(seq)
  /\ \A i \in 1..Len(got) : got[i] = seq[i]

LEMMA BeginsPrefix ==
  ASSUME NEW T, NEW seq \in Seq(T), NEW got \in Seq(T), Begins(got, seq)
  PROVE  IsPrefix(got, seq)
<1>1. Len(got) \in Nat /\ Len(seq) \in Nat /\ Len(got) <= Len(seq)
  BY DEF Begins
<1> DEFINE front == SubSeq(seq, 1, Len(got))
<1>2. front \in Seq(T) /\ Len(front) = Len(got) /\ \A i \in 1..Len(got) : front[i] = seq[i]
  BY <1>1
<1> HIDE DEF front
<1>3. \A i \in 1..Len(got) : got[i] = seq[i]
  BY DEF Begins
<1>4. got = front
  BY <1>2, <1>3, SeqEqual
<1>5. QED
  BY <1>1, <1>4 DEF IsPrefix, front

(* A page of it more is a longer beginning, and all of it when no more     *)
(* than a page was left.                                                   *)
LEMMA PageFollows ==
  ASSUME NEW T, NEW seq \in Seq(T), NEW got \in Seq(T), Begins(got, seq),
         NEW page \in Seq(T), NEW limit \in Nat \ {0},
         IsPage(page, seq, Len(got), limit)
  PROVE  /\ Begins(got \o page, seq)
         /\ Len(seq) <= Len(got) + limit <=> got \o page = seq
<1>1. Len(seq) \in Nat /\ Len(got) \in Nat /\ Len(page) \in Nat
  OBVIOUS
<1>2. got \o page \in Seq(T)
  BY ConcatProperties
<1>3. Len(got \o page) = Len(got) + Len(page)
  BY ConcatProperties
<1>4. Len(got) <= Len(seq) /\ Len(page) = Upto(seq, Len(got), limit) - Len(got)
  BY DEF Begins, IsPage
<1>5. Len(got) + Len(page) <= Len(seq)
  <2>1. Upto(seq, Len(got), limit) \in Len(got)..Len(seq)
    BY <1>1, <1>4, UptoFacts
  <2>2. QED
    BY <1>1, <1>4, <2>1
<1>6. ASSUME NEW i \in 1..(Len(got) + Len(page))
      PROVE  (got \o page)[i] = seq[i]
  <2>1. CASE i <= Len(got)
    <3>1. i \in 1..Len(got)
      BY <1>1, <2>1
    <3>2. (got \o page)[i] = got[i]
      BY <3>1
    <3>3. QED
      BY <3>1, <3>2 DEF Begins
  <2>2. CASE ~(i <= Len(got))
    <3>1. PICK k \in 1..Len(page) : i = Len(got) + k
      <4>1. i - Len(got) \in 1..Len(page) /\ i = Len(got) + (i - Len(got))
        BY <1>1, <2>2
      <4>2. QED
        BY <4>1
    <3>2. (got \o page)[i] = page[k]
      BY <1>1, <2>2, <3>1
    <3>3. QED
      BY <3>1, <3>2 DEF IsPage
  <2>3. QED
    BY <2>1, <2>2
<1>7. Begins(got \o page, seq)
  BY <1>3, <1>5, <1>6 DEF Begins
<1>8. ASSUME Len(seq) <= Len(got) + limit
      PROVE  got \o page = seq
  <2>1. Len(got \o page) = Len(seq)
    <3>1. Upto(seq, Len(got), limit) = Len(seq)
      BY <1>8 DEF Upto
    <3>2. QED
      BY <1>1, <1>3, <1>4, <3>1
  <2>2. \A i \in 1..Len(seq) : (got \o page)[i] = seq[i]
    BY <1>3, <1>6, <2>1
  <2> DEFINE both == got \o page
  <2>3. both \in Seq(T) /\ Len(both) = Len(seq) /\ \A i \in 1..Len(seq) : both[i] = seq[i]
    BY <1>2, <2>1, <2>2
  <2> HIDE DEF both
  <2>4. both = seq
    BY <2>3, SeqEqual
  <2>5. QED
    BY <2>4 DEF both
<1>9. ASSUME got \o page = seq
      PROVE  Len(seq) <= Len(got) + limit
  <2>1. Len(seq) = Len(got) + Len(page)
    BY <1>3, <1>9
  <2>2. Upto(seq, Len(got), limit) = Len(seq)
    BY <1>1, <1>4, <2>1 DEF Upto
  <2>3. QED
    BY <1>1, <1>4, <2>2, UptoFacts
<1>10. QED
  BY <1>7, <1>8, <1>9

(* The invariant of the paging: until an ingest publishes, what the client *)
(* has got is the beginning of its listing, and it knows where that ends.  *)
PagingInv ==
  /\ republished \in Nat
  /\ republished = 0 =>
       /\ shelf \in Shelves /\ pager \in Pager
       /\ pager.pc = "idle" => pager.got = <<>>
       /\ WindowHolds(shelf, pager) =>
            /\ Begins(pager.got, WholeOf(shelf, pager))
            /\ pager.pc = "done" => pager.got = WholeOf(shelf, pager)
            /\ pager.pc = "paging" /\ pager.got # <<>> /\ pager.kind # "review"
                 => pager.got # WholeOf(shelf, pager)

(* What a client asks for has a listing.                                   *)
LEMMA WholeIsListing ==
  ASSUME NEW rows \in Shelves, NEW p
  PROVE  WholeOf(rows, p) \in Seq(Row)
<1> DEFINE A == Matching(rows, p)
<1>1. A \in SUBSET rows
  BY DEF Matching
<1>2. A \subseteq Row
  BY <1>1 DEF Shelves
<1> HIDE DEF A
<1>3. Ordered(A, ByConfidence) \in Seq(Row)
  <2>1. Ordered(A, ByConfidence) \in Seq(A)
    BY <1>1, ListingByConfidence DEF IsListing
  <2>2. QED
    BY <1>2, <2>1
<1>4. Ordered(A, ByDistance) \in Seq(Row)
  <2>1. Ordered(A, ByDistance) \in Seq(A)
    BY <1>1, ListingByDistance DEF IsListing
  <2>2. QED
    BY <1>2, <2>1
<1>5. Ordered(A, ForReview) \in Seq(Row)
  <2>1. Ordered(A, ForReview) \in Seq(A)
    BY <1>1, ListingForReview DEF IsListing
  <2>2. QED
    BY <1>2, <2>1
<1>6. QED
  BY <1>3, <1>4, <1>5 DEF WholeOf, A

(* The types of what a client asks for.                                    *)
LEMMA PagerFacts ==
  ASSUME NEW p \in Pager
  PROVE  /\ p.got \in Seq(Row) /\ Len(p.got) \in Nat
         /\ p.limit \in Nat \ {0} /\ p.kind \in {"browse", "near", "review"}
         /\ p.bound \in Nat
<1>1. p.got \in Seq(Row) /\ p.limit \in Limits /\ p.kind \in {"browse", "near", "review"}
      /\ p.bound \in Levels \cup {0}
  BY DEF Pager
<1>2. Limits \subseteq Nat \ {0} /\ Levels \subseteq Nat
  BY PagingAssumption
<1>3. p.limit \in Nat \ {0} /\ p.bound \in Nat
  <2>1. \A x \in Levels \cup {0} : x \in Nat
    BY <1>2
  <2>2. QED
    BY <1>1, <1>2, <2>1
<1>4. Len(p.got) \in Nat
  BY <1>1
<1>5. QED
  BY <1>1, <1>3, <1>4

(* A page of a browse is cut from a list of one gym more, which tells      *)
(* whether it is the last.                                                 *)
LEMMA BrowsedPage ==
  ASSUME NEW seq \in Seq(Row), NEW offset \in Nat, NEW limit \in Nat \ {0}, offset <= Len(seq),
         NEW listed, listed = Cut(seq, offset, limit + 1)
  PROVE  /\ Len(listed) > limit <=> ~(Len(seq) <= offset + limit)
         /\ Cut(listed, 0, limit) \in Seq(Row)
         /\ IsPage(Cut(listed, 0, limit), seq, offset, limit)
<1> DEFINE n == Len(seq)
           page == Cut(listed, 0, limit)
<1>1. n \in Nat /\ limit + 1 \in Nat /\ limit \in Nat
  OBVIOUS
<1>2. listed \in Seq(Row) /\ IsPage(listed, seq, offset, limit + 1)
  BY <1>1, CutFacts
<1>3. Len(listed) \in Nat /\ 0 <= Len(listed)
  BY <1>2
<1>4. page \in Seq(Row) /\ IsPage(page, listed, 0, limit)
  BY <1>1, <1>2, <1>3, CutFacts
<1> HIDE DEF page
<1>5. /\ Len(listed) = (IF n <= offset + (limit + 1) THEN n ELSE offset + (limit + 1)) - offset
      /\ Len(page) = (IF Len(listed) <= 0 + limit THEN Len(listed) ELSE 0 + limit) - 0
  BY <1>2, <1>4 DEF IsPage, Upto
<1>6. Len(listed) > limit <=> ~(n <= offset + limit)
  BY <1>1, <1>5
<1>7. Len(page) = Upto(seq, offset, limit) - offset /\ Len(page) <= Len(listed) /\ Len(page) \in Nat
  BY <1>1, <1>3, <1>5 DEF Upto
<1>8. ASSUME NEW i \in 1..Len(page)
      PROVE  page[i] = seq[offset + i]
  <2>1. i \in 1..Len(listed) /\ 0 + i = i
    BY <1>3, <1>7
  <2>2. page[i] = listed[0 + i] /\ listed[i] = seq[offset + i]
    BY <1>2, <1>4, <2>1 DEF IsPage
  <2>3. QED
    BY <2>1, <2>2
<1>9. IsPage(page, seq, offset, limit)
  BY <1>7, <1>8 DEF IsPage
<1>10. QED
  BY <1>4, <1>6, <1>9 DEF page

(* The step of a client that gets a page of the listing.                   *)
LEMMA PageKeeps ==
  ASSUME PagingInv, republished = 0, UNCHANGED <<shelf, republished>>,
         pager.pc = "paging",
         NEW page \in Seq(Row), NEW pc \in {"paging", "done"},
         pager' = [pager EXCEPT !.got = pager.got \o page, !.pc = pc],
         WindowHolds(shelf, pager) =>
           /\ IsPage(page, WholeOf(shelf, pager), Len(pager.got), pager.limit)
           /\ pc = "done" => Len(WholeOf(shelf, pager)) <= Len(pager.got) + pager.limit
           /\ pc = "paging" /\ pager.kind # "review"
                => ~(Len(WholeOf(shelf, pager)) <= Len(pager.got) + pager.limit)
  PROVE  PagingInv'
<1>1. shelf \in Shelves /\ pager \in Pager
  BY DEF PagingInv
<1>2. pager.got \in Seq(Row) /\ pager.limit \in Nat \ {0}
  BY <1>1, PagerFacts
<1>3. pager.got \o page \in Seq(Row)
  BY <1>2, ConcatProperties
<1>4. /\ pager' \in Pager /\ pager'.pc = pc /\ pager'.got = pager.got \o page
      /\ pager'.kind = pager.kind /\ pager'.bound = pager.bound /\ pager'.status = pager.status
  BY <1>1, <1>3 DEF Pager
<1>5. WholeOf(shelf, pager)' = WholeOf(shelf, pager)
  <2>1. Matching(shelf, pager)' = Matching(shelf, pager)
    BY <1>4 DEF Matching, InReview
  <2>2. QED
    BY <1>4, <2>1 DEF WholeOf
<1>6. WindowHolds(shelf, pager)' <=> WindowHolds(shelf, pager)
  BY <1>4 DEF WindowHolds
<1>7. ASSUME WindowHolds(shelf, pager)
      PROVE  /\ Begins(pager.got, WholeOf(shelf, pager))'
             /\ pager'.pc = "done" => pager'.got = WholeOf(shelf, pager)'
             /\ pager'.pc = "paging" /\ pager'.kind # "review"
                  => pager'.got # WholeOf(shelf, pager)'
  <2>1. PICK seq \in Seq(Row) : seq = WholeOf(shelf, pager)
    BY <1>1, WholeIsListing
  <2>2. PICK got \in Seq(Row) : got = pager.got
    BY <1>2
  <2>3. PICK limit \in Nat \ {0} : limit = pager.limit
    BY <1>2
  <2>4. Begins(got, seq)
    BY <1>7, <2>1, <2>2 DEF PagingInv
  <2>5. /\ IsPage(page, seq, Len(got), limit)
        /\ pc = "done" => Len(seq) <= Len(got) + limit
        /\ pc = "paging" /\ pager.kind # "review" => ~(Len(seq) <= Len(got) + limit)
    BY <1>7, <2>1, <2>2, <2>3
  <2>6. /\ Begins(got \o page, seq)
        /\ Len(seq) <= Len(got) + limit <=> got \o page = seq
    BY <2>4, <2>5, PageFollows
  <2>7. pager'.got = got \o page /\ WholeOf(shelf, pager)' = seq
    BY <1>4, <1>5, <2>1, <2>2
  <2>8. QED
    BY <1>4, <2>5, <2>6, <2>7
<1>8. republished' \in Nat /\ shelf' \in Shelves /\ pager'.pc # "idle"
  BY <1>1, <1>4 DEF PagingInv
<1>9. QED
  BY <1>4, <1>6, <1>7, <1>8 DEF PagingInv

(* A page of a browse, or of gyms nearby, keeps it.                        *)
LEMMA BrowseKeeps ==
  ASSUME PagingInv, republished = 0, BrowsePage
  PROVE  PagingInv'
<1>1. shelf \in Shelves /\ pager \in Pager /\ pager.pc = "paging" /\ pager.kind # "review"
  BY DEF PagingInv, BrowsePage
<1>2. PICK kind \in {"browse", "near"}, bound \in Nat, offset \in Nat, limit \in Nat \ {0} :
        kind = pager.kind /\ bound = pager.bound /\ offset = Len(pager.got) /\ limit = pager.limit
  BY <1>1, PagerFacts
<1>3. PICK seq \in Seq(Row) : seq = WholeOf(shelf, pager)
  BY <1>1, WholeIsListing
<1>4. PICK listed : listed = Listed(pager)
  OBVIOUS
<1>5. listed = Cut(seq, offset, limit + 1)
  <2>1. CASE kind = "browse"
    <3>1. Matching(shelf, pager) = {r \in shelf : r.level >= bound}
      BY <1>2, <2>1 DEF Matching
    <3>2. QED
      BY <1>2, <1>3, <1>4, <2>1, <3>1 DEF WholeOf, Listed, Filter
  <2>2. CASE kind = "near"
    <3>1. Matching(shelf, pager) = {r \in shelf : r.id \in Around}
      BY <1>2, <2>2 DEF Matching
    <3>2. QED
      BY <1>2, <1>3, <1>4, <2>2, <3>1 DEF WholeOf, Listed, Near2
  <2>3. QED
    BY <2>1, <2>2
<1>6. WindowHolds(shelf, pager)
  BY <1>1 DEF WindowHolds
<1>7. offset <= Len(seq)
  BY <1>2, <1>3, <1>6 DEF PagingInv, Begins
<1> DEFINE page == Cut(listed, 0, limit)
           pc == IF Len(listed) > limit THEN "paging" ELSE "done"
<1>8. /\ Len(listed) > limit <=> ~(Len(seq) <= offset + limit)
      /\ page \in Seq(Row)
      /\ IsPage(page, seq, offset, limit)
  BY <1>5, <1>7, BrowsedPage
<1>9. /\ pager' = [pager EXCEPT !.got = pager.got \o page, !.pc = pc]
      /\ UNCHANGED <<shelf, republished>>
  BY <1>2, <1>4 DEF BrowsePage
<1>10. pc \in {"paging", "done"} /\ (pc = "done" <=> Len(seq) <= offset + limit)
  BY <1>8
<1> HIDE DEF page, pc
<1>11. /\ IsPage(page, WholeOf(shelf, pager), Len(pager.got), pager.limit)
       /\ pc = "done" <=> Len(WholeOf(shelf, pager)) <= Len(pager.got) + pager.limit
  BY <1>2, <1>3, <1>8, <1>10
<1>12. QED
  BY <1>1, <1>8, <1>9, <1>10, <1>11, PageKeeps

(* A page of a review is cut from what matches in a window of the gyms; a  *)
(* window that holds the dataset has them all.                             *)
LEMMA WindowHasAll ==
  ASSUME NEW rows \in Shelves, NEW size \in Nat, Cardinality(rows) <= size
  PROVE  ToSet(Cut(Ordered({r \in rows : r.level >= 0}, ByConfidence), 0, size)) = rows
<1>1. {r \in rows : r.level >= 0} = rows
  <2>1. rows \in SUBSET rows
    OBVIOUS
  <2>2. \A r \in rows : r.level \in Nat
    BY <2>1, ShelfFacts
  <2>3. QED
    BY <2>2
<1> DEFINE seq == Ordered(rows, ByConfidence)
           page == Cut(seq, 0, size)
<1>2. seq \in Seq(rows) /\ Len(seq) = Cardinality(rows) /\ ToSet(seq) = rows
  <2>1. rows \in SUBSET rows
    OBVIOUS
  <2>2. IsListing(seq, rows)
    BY <2>1, ListingByConfidence
  <2>3. QED
    BY <2>2 DEF IsListing
<1> HIDE DEF seq
<1>3. Len(seq) \in Nat /\ 0 <= Len(seq)
  BY <1>2
<1>4. page \in Seq(rows) /\ IsPage(page, seq, 0, size)
  BY <1>2, <1>3, CutFacts
<1> HIDE DEF page
<1>5. Len(page) = Len(seq)
  <2>1. Upto(seq, 0, size) = Len(seq)
    BY <1>2, <1>3 DEF Upto
  <2>2. QED
    BY <1>3, <1>4, <2>1 DEF IsPage
<1>6. \A i \in 1..Len(seq) : page[i] = seq[i]
  BY <1>3, <1>4, <1>5 DEF IsPage
<1>7. page = seq
  BY <1>2, <1>4, <1>5, <1>6, SeqEqual
<1>8. QED
  BY <1>1, <1>2, <1>7 DEF page, seq

(* So a page of a review keeps the invariant.                              *)
LEMMA ReviewKeeps ==
  ASSUME PagingInv, republished = 0, CoveragePage
  PROVE  PagingInv'
<1>1. shelf \in Shelves /\ pager \in Pager /\ pager.pc = "paging" /\ pager.kind = "review"
  BY DEF PagingInv, CoveragePage
<1>2. PICK offset \in Nat, limit \in Nat \ {0} : offset = Len(pager.got) /\ limit = pager.limit
  BY <1>1, PagerFacts
<1>3. PICK page : page = ReviewPage(pager)
  OBVIOUS
<1> DEFINE pc == IF Len(page) = limit THEN "paging" ELSE "done"
<1>4. /\ pager' = [pager EXCEPT !.got = pager.got \o page, !.pc = pc]
      /\ UNCHANGED <<shelf, republished>> /\ pc \in {"paging", "done"}
  BY <1>2, <1>3 DEF CoveragePage
<1>5. PICK size \in Nat : size = Max({limit + offset, ReviewWindow}) /\ size >= ReviewWindow
  <2>1. limit + offset \in Nat /\ ReviewWindow \in Nat
    BY PagingAssumption
  <2>2. Max({limit + offset, ReviewWindow})
          = IF limit + offset >= ReviewWindow THEN limit + offset ELSE ReviewWindow
    <3>1. limit + offset \in Int /\ ReviewWindow \in Int
      BY <2>1
    <3>2. QED
      BY <3>1, MinMaxOfTwo
  <2>3. QED
    BY <2>1, <2>2
<1> DEFINE sorted == Ordered({r \in shelf : r.level >= 0}, ByConfidence)
           window == Cut(sorted, 0, size)
           matching == {r \in ToSet(window) : InReview(r, pager)}
<1>6. page = Cut(Ordered(matching, ForReview), offset, limit)
  BY <1>2, <1>3, <1>5 DEF ReviewPage, Filter
<1>7. matching \in SUBSET shelf
  <2>1. sorted \in Seq(shelf)
    <3>1. {r \in shelf : r.level >= 0} \in SUBSET shelf
      OBVIOUS
    <3>2. sorted \in Seq({r \in shelf : r.level >= 0})
      BY <1>1, <3>1, ListingByConfidence DEF IsListing
    <3>3. QED
      BY <3>1, <3>2
  <2> HIDE DEF sorted
  <2>2. window \in Seq(shelf)
    <3>1. 0 <= Len(sorted)
      BY <2>1
    <3>2. QED
      BY <2>1, <3>1, CutFacts
  <2> HIDE DEF window
  <2>3. ToSet(window) \subseteq shelf
    BY <2>2 DEF ToSet
  <2>4. QED
    BY <2>3
<1> HIDE DEF matching
<1>8. Ordered(matching, ForReview) \in Seq(matching)
  BY <1>1, <1>7, ListingForReview DEF IsListing
<1>9. matching \subseteq Row
  BY <1>1, <1>7 DEF Shelves
<1>10. PICK list \in Seq(Row) : list = Ordered(matching, ForReview)
  BY <1>8, <1>9
<1>11. page = Cut(list, offset, limit) /\ page \in Seq(Row)
  BY <1>6, <1>10, CutIsPart
<1>12. ASSUME WindowHolds(shelf, pager)
       PROVE  list = WholeOf(shelf, pager)
  <2>1. Cardinality(shelf) <= size
    <3>1. Cardinality(shelf) \in Nat /\ ReviewWindow \in Nat /\ Cardinality(shelf) <= ReviewWindow
      <4>1. shelf \in SUBSET shelf
        OBVIOUS
      <4>2. IsFiniteSet(shelf)
        BY <1>1, <4>1, ShelfFacts
      <4>3. QED
        BY <1>1, <1>12, <4>2, FS_CardinalityType, PagingAssumption DEF WindowHolds
    <3>2. QED
      BY <1>5, <3>1
  <2>2. ToSet(window) = shelf
    BY <1>1, <2>1, WindowHasAll
  <2> HIDE DEF window
  <2>3. matching = Matching(shelf, pager)
    BY <1>1, <2>2 DEF matching, Matching
  <2>4. QED
    BY <1>1, <1>10, <2>3 DEF WholeOf
<1>13. ASSUME WindowHolds(shelf, pager)
       PROVE  /\ IsPage(page, WholeOf(shelf, pager), Len(pager.got), pager.limit)
              /\ pc = "done" => Len(WholeOf(shelf, pager)) <= Len(pager.got) + pager.limit
  <2>1. offset <= Len(list)
    BY <1>2, <1>12, <1>13 DEF PagingInv, Begins
  <2>2. IsPage(page, list, offset, limit)
    BY <1>11, <2>1, CutFacts
  <2>3. Len(page) # limit => Len(list) <= offset + limit
    <3>1. Len(page) = (IF Len(list) <= offset + limit THEN Len(list) ELSE offset + limit) - offset
      BY <2>2 DEF IsPage, Upto
    <3>2. Len(list) \in Nat
      OBVIOUS
    <3>3. QED
      BY <3>1, <3>2
  <2>4. QED
    BY <1>2, <1>12, <1>13, <2>2, <2>3
<1> HIDE DEF pc
<1>14. QED
  BY <1>1, <1>4, <1>11, <1>13, PageKeeps

LEMMA PagingInitHolds == PagingInit => PagingInv
<1> SUFFICES ASSUME PagingInit
             PROVE  PagingInv
  OBVIOUS
<1>1. shelf \in Shelves /\ republished = 0 /\ pager.pc = "idle" /\ pager.got = <<>>
  BY DEF PagingInit
<1>2. pager \in Pager
  <2>1. << >> \in Seq(Row)
    OBVIOUS
  <2>2. QED
    BY <2>1 DEF PagingInit, Pager
<1>3. PICK seq \in Seq(Row) : seq = WholeOf(shelf, pager)
  BY <1>1, WholeIsListing
<1>4. Begins(<<>>, seq)
  <2>1. Len(<<>>) = 0 /\ Len(seq) \in Nat /\ 0 <= Len(seq)
    OBVIOUS
  <2>2. 1..0 = {}
    OBVIOUS
  <2>3. QED
    BY <2>1, <2>2 DEF Begins
<1>5. QED
  BY <1>1, <1>2, <1>3, <1>4 DEF PagingInv

LEMMA AskKeeps ==
  ASSUME PagingInv, republished = 0, Ask
  PROVE  PagingInv'
<1>1. shelf \in Shelves /\ pager \in Pager /\ pager.pc = "idle" /\ pager.got = <<>>
  BY DEF PagingInv, Ask
<1>2. PICK status \in {"any", "matched"} :
        pager' = [pager EXCEPT !.pc = "paging", !.status = status]
  BY DEF Ask
<1>3. UNCHANGED <<shelf, republished>>
  BY DEF Ask
<1>4. pager' \in Pager /\ pager'.pc = "paging" /\ pager'.got = <<>>
  BY <1>1, <1>2 DEF Pager
<1>5. PICK seq \in Seq(Row) : seq = WholeOf(shelf', pager')
  BY <1>1, <1>3, WholeIsListing
<1>6. Begins(<<>>, seq)
  <2>1. Len(<<>>) = 0 /\ Len(seq) \in Nat /\ 0 <= Len(seq)
    OBVIOUS
  <2>2. 1..0 = {}
    OBVIOUS
  <2>3. QED
    BY <2>1, <2>2 DEF Begins
<1>7. Begins(pager'.got, WholeOf(shelf', pager'))
  BY <1>4, <1>5, <1>6
<1>8. QED
  BY <1>1, <1>3, <1>4, <1>7 DEF PagingInv

LEMMA PagingNextKeeps == PagingInv /\ [PagingNext]_pagingVars => PagingInv'
<1> SUFFICES ASSUME PagingInv, [PagingNext]_pagingVars
             PROVE  PagingInv'
  OBVIOUS
<1>1. CASE republished = 0
  <2>1. CASE Ask
    BY <1>1, <2>1, AskKeeps
  <2>2. CASE BrowsePage
    BY <1>1, <2>2, BrowseKeeps
  <2>3. CASE CoveragePage
    BY <1>1, <2>3, ReviewKeeps
  <2>4. CASE PublishGyms
    <3>1. republished' = 1
      BY <1>1, <2>4 DEF PublishGyms
    <3>2. QED
      BY <3>1 DEF PagingInv
  <2>5. CASE UNCHANGED pagingVars
    BY <2>5 DEF PagingInv, pagingVars, Begins, WholeOf, WindowHolds, Matching, InReview
  <2>6. QED
    BY <2>1, <2>2, <2>3, <2>4, <2>5 DEF PagingNext
<1>2. CASE republished # 0
  <2>1. republished \in Nat
    BY DEF PagingInv
  <2>2. republished' \in {republished, republished + 1}
    BY DEF PagingNext, Ask, BrowsePage, CoveragePage, PublishGyms, pagingVars
  <2>3. republished' \in Nat /\ republished' # 0
    BY <1>2, <2>1, <2>2
  <2>4. QED
    BY <2>3 DEF PagingInv
<1>3. QED
  BY <1>1, <1>2

LEMMA PagingInvWhole == PagingInv => PagesWhole
<1> SUFFICES ASSUME PagingInv
             PROVE  PagesWhole
  OBVIOUS
<1> SUFFICES ASSUME republished = 0, WindowHolds(shelf, pager)
             PROVE  /\ IsPrefix(pager.got, WholeOf(shelf, pager))
                    /\ pager.pc = "done" => pager.got = WholeOf(shelf, pager)
                    /\ pager.pc = "paging" /\ pager.got # <<>> /\ pager.kind # "review"
                         => pager.got # WholeOf(shelf, pager)
  BY DEF PagesWhole
<1>1. shelf \in Shelves /\ pager \in Pager /\ Begins(pager.got, WholeOf(shelf, pager))
  BY DEF PagingInv
<1>2. PICK got \in Seq(Row), seq \in Seq(Row) : got = pager.got /\ seq = WholeOf(shelf, pager)
  BY <1>1, PagerFacts, WholeIsListing
<1>3. IsPrefix(got, seq)
  BY <1>1, <1>2, BeginsPrefix
<1>4. QED
  BY <1>2, <1>3 DEF PagingInv

LEMMA PagingInvariant == PagingSpec => []PagingInv
  BY PagingInitHolds, PagingNextKeeps, PTL DEF PagingSpec

(* The pages that a client gets one after the other, while no dataset is   *)
(* published, are the beginning of the listing, and all of it when it is   *)
(* told that there are no more; a browse that says there are more is right *)
(* (list_gyms_v2 and list_review_gyms), however many gyms and pages.       *)
THEOREM PagesAreWhole == PagingSpec => []PagesWhole
  BY PagingInvariant, PagingInvWhole, PTL

(* A page has rows only, also of a dataset that was published while the    *)
(* client was paging.                                                      *)
LEMMA ListedRows ==
  ASSUME PagingTypeOK
  PROVE  /\ Listed(pager) \in Seq(Row) /\ Cut(Listed(pager), 0, pager.limit) \in Seq(Row)
         /\ ReviewPage(pager) \in Seq(Row)
<1>1. /\ shelf \in Shelves /\ shelf \subseteq Row
      /\ Len(pager.got) \in Nat /\ pager.limit \in Nat /\ pager.limit + 1 \in Nat
  <2>1. pager.limit \in Nat \ {0} /\ Len(pager.got) \in Nat
    BY PagerFacts DEF PagingTypeOK
  <2>2. QED
    BY <2>1 DEF PagingTypeOK, Shelves
<1>2. ASSUME NEW S \in SUBSET shelf
      PROVE  /\ Ordered(S, ByConfidence) \in Seq(Row) /\ Ordered(S, ByDistance) \in Seq(Row)
             /\ Ordered(S, ForReview) \in Seq(Row)
  <2>1. /\ Ordered(S, ByConfidence) \in Seq(S) /\ Ordered(S, ByDistance) \in Seq(S)
        /\ Ordered(S, ForReview) \in Seq(S)
    BY <1>1, ListingByConfidence, ListingByDistance, ListingForReview DEF IsListing
  <2>2. S \subseteq Row
    BY <1>1
  <2>3. QED
    BY <2>1, <2>2
<1>3. ASSUME NEW least, NEW offset \in Nat, NEW limit \in Nat
      PROVE  Filter(least, limit, offset) \in Seq(Row) /\ Near2(limit, offset) \in Seq(Row)
  <2> DEFINE A == {r \in shelf : r.level >= least}
             B == {r \in shelf : r.id \in Around}
  <2>1. A \in SUBSET shelf /\ B \in SUBSET shelf
    OBVIOUS
  <2>2. Ordered(A, ByConfidence) \in Seq(Row) /\ Ordered(B, ByDistance) \in Seq(Row)
    <3> HIDE DEF A, B
    <3>1. QED
      BY <1>2, <2>1
  <2>3. QED
    BY <2>2, CutIsPart DEF Filter, Near2
<1>4. Listed(pager) \in Seq(Row)
  BY <1>1, <1>3 DEF Listed
<1>5. Cut(Listed(pager), 0, pager.limit) \in Seq(Row)
  BY <1>1, <1>4, CutIsPart
<1>6. ReviewPage(pager) \in Seq(Row)
  <2> DEFINE n == Max({pager.limit + Len(pager.got), ReviewWindow})
             window == Filter(0, n, 0)
             C == {r \in ToSet(window) : InReview(r, pager)}
  <2>1. n \in Nat
    <3>1. pager.limit + Len(pager.got) \in Int /\ pager.limit + Len(pager.got) \in Nat
          /\ ReviewWindow \in Int /\ ReviewWindow \in Nat
      BY <1>1, PagingAssumption
    <3>2. QED
      BY <3>1, MinMaxOfTwo
  <2>2. ToSet(window) \subseteq shelf
    <3> DEFINE A == {r \in shelf : r.level >= 0}
               seq == Ordered(A, ByConfidence)
    <3>1. A \in SUBSET shelf
      OBVIOUS
    <3>2. seq \in Seq(A)
      <4> HIDE DEF A
      <4>1. QED
        BY <1>1, <3>1, ListingByConfidence DEF IsListing
    <3>3. window = Cut(seq, 0, n)
      BY DEF Filter
    <3>4. window \in Seq(A)
      <4> HIDE DEF A, seq, n, window
      <4>1. QED
        BY <2>1, <3>2, <3>3, CutIsPart
    <3>5. ToSet(window) \subseteq A
      <4> HIDE DEF A, window
      <4>1. QED
        BY <3>4 DEF ToSet
    <3>6. QED
      BY <3>5
  <2>3. Ordered(C, ForReview) \in Seq(Row)
    <3>1. C \in SUBSET shelf
      <4> HIDE DEF window
      <4>1. QED
        BY <2>2
    <3> HIDE DEF C
    <3>2. QED
      BY <1>2, <3>1
  <2>4. Cut(Ordered(C, ForReview), Len(pager.got), pager.limit) \in Seq(Row)
    <3> HIDE DEF C
    <3>1. QED
      BY <1>1, <2>3, CutIsPart
  <2>5. QED
    BY <2>4 DEF ReviewPage
<1>7. QED
  BY <1>4, <1>5, <1>6

LEMMA PagingTyped == PagingSpec => []PagingTypeOK
<1>1. PagingInit => PagingTypeOK
  BY PagingInitHolds, PagingAssumption DEF PagingInit, PagingInv, PagingTypeOK
<1>2. PagingTypeOK /\ [PagingNext]_pagingVars => PagingTypeOK'
  <2> SUFFICES ASSUME PagingTypeOK, [PagingNext]_pagingVars
               PROVE  PagingTypeOK'
    OBVIOUS
  <2> USE DEF PagingTypeOK
  <2>1. CASE Ask
    BY <2>1 DEF Ask, Pager
  <2>2. ASSUME NEW page \in Seq(Row), NEW pc \in {"paging", "done"},
               pager' = [pager EXCEPT !.got = @ \o page, !.pc = pc],
               UNCHANGED <<shelf, republished>>
        PROVE  PagingTypeOK'
    <3>1. pager.got \o page \in Seq(Row)
      <4>1. pager.got \in Seq(Row)
        BY DEF Pager
      <4>2. QED
        BY <4>1, ConcatProperties
    <3>2. QED
      BY <2>2, <3>1 DEF Pager
  <2>3. CASE BrowsePage
    <3>1. PICK pc \in {"paging", "done"} :
            pager' = [pager EXCEPT !.got = @ \o Cut(Listed(pager), 0, pager.limit), !.pc = pc]
      BY <2>3 DEF BrowsePage
    <3>2. UNCHANGED <<shelf, republished>>
      BY <2>3 DEF BrowsePage
    <3>3. QED
      BY <2>2, <3>1, <3>2, ListedRows
  <2>4. CASE CoveragePage
    <3>1. PICK pc \in {"paging", "done"} :
            pager' = [pager EXCEPT !.got = @ \o ReviewPage(pager), !.pc = pc]
      BY <2>4 DEF CoveragePage
    <3>2. UNCHANGED <<shelf, republished>>
      BY <2>4 DEF CoveragePage
    <3>3. QED
      BY <2>2, <3>1, <3>2, ListedRows
  <2>5. CASE PublishGyms
    <3>1. shelf' \in Shelves /\ pager' = pager /\ republished' = republished + 1
          /\ republished < MaxPublished
      BY <2>5 DEF PublishGyms
    <3>2. QED
      BY <3>1, PagingAssumption
  <2>6. CASE UNCHANGED pagingVars
    BY <2>6 DEF pagingVars
  <2>7. QED
    BY <2>1, <2>3, <2>4, <2>5, <2>6 DEF PagingNext
<1>3. QED
  BY <1>1, <1>2, PTL DEF PagingSpec
=============================================================================
