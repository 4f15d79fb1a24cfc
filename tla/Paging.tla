--------------------------------- MODULE Paging ---------------------------------
(***************************************************************************)
(* The pages of GET /v2/gyms and GET /v2/review/coverage: a client asks    *)
(* for one page after the other while an ingest may publish a dataset with *)
(* other gyms.  A browse is filtered, ordered and cut by SQL, or by        *)
(* distance in the store; a review is cut from a window of the gyms with   *)
(* the highest confidence, ordered from the lowest.                        *)
(***************************************************************************)
EXTENDS Integers, Sequences, SequencesExt, FiniteSets

CONSTANTS
  Ids,          \* gyms, in the order of their ids: their hashes
  NameOf,       \* the name of a gym, as a number, and its distance from where
  DistanceOf,   \* a client looks: an id is a hash of name and place
  Around,       \* the gyms within the radius that a client asks for, and in its
                \* box: that may miss one at the edge, or beyond 180 degrees
  ScanOf,       \* the order in which SQLite yields the gyms of a box
  Levels,       \* confidences
  Limits,       \* page sizes
  ReviewWindow, \* 500: the least number of gyms a review looks at
  MaxPublished  \* bound: datasets published while a client pages

ASSUME PagingAssumption ==
  /\ Ids \subseteq Nat /\ IsFiniteSet(Ids) /\ Levels \subseteq Nat /\ Limits \subseteq Nat \ {0}
  /\ NameOf \in [Ids -> Nat] /\ DistanceOf \in [Ids -> Nat]
  /\ ScanOf \in [Ids -> Nat] /\ \A i, j \in Ids : ScanOf[i] = ScanOf[j] => i = j
  /\ ReviewWindow \in Nat /\ MaxPublished \in Nat

VARIABLES
  shelf,     \* the gyms of the index that is served
  pager,     \* the client: what it asks for, and the pages that it has got
  republished  \* datasets published since the client began

pagingVars == <<shelf, pager, republished>>

Row == [id : Ids, level : Levels, status : {"matched", "unconfirmed"}]
Shelves == {rows \in SUBSET Row : \A r, s \in rows : r.id = s.id => r = s}
Pager == [pc : {"idle", "paging", "done"}, kind : {"browse", "near", "review"},
          bound : Levels \cup {0}, status : {"any", "matched"}, limit : Limits, got : Seq(Row)]

PagingInit ==
  /\ shelf \in Shelves
  /\ republished = 0
  /\ pager \in [pc : {"idle"}, kind : {"browse", "near", "review"}, bound : Levels \cup {0},
                status : {"any"}, limit : Limits, got : {<<>>}]
  /\ pager.kind = "near" => pager.bound = 0

----------------------------------------------------------------------------
(* ORDER BY confidence_score DESC, id.                                     *)
ByConfidence(r, s) == r.level > s.level \/ (r.level = s.level /\ r.id < s.id)
(* heapq.nsmallest by distance: equal ones stay in the order of the scan.  *)
ByDistance(r, s) ==
  \/ DistanceOf[r.id] < DistanceOf[s.id]
  \/ DistanceOf[r.id] = DistanceOf[s.id] /\ ScanOf[r.id] < ScanOf[s.id]
(* The sort of a review is stable, on rows that come by confidence.        *)
ForReview(r, s) ==
  \/ r.level < s.level
  \/ r.level = s.level /\ NameOf[r.id] < NameOf[s.id]
  \/ r.level = s.level /\ NameOf[r.id] = NameOf[s.id] /\ r.id < s.id

(* The one sequence of the rows in that order.                             *)
Ordered(rows, Before(_, _)) ==
  CHOOSE seq \in [1..Cardinality(rows) -> rows] :
    \A i, j \in 1..Cardinality(rows) : i < j => Before(seq[i], seq[j])
Cut(seq, offset, limit) == SubSeq(seq, offset + 1, Min({Len(seq), offset + limit}))

(* store.filter() with min_conf, and store.nearby().                       *)
Filter(minConf, limit, offset) ==
  Cut(Ordered({r \in shelf : r.level >= minConf}, ByConfidence), offset, limit)
Near2(limit, offset) ==
  Cut(Ordered({r \in shelf : r.id \in Around}, ByDistance), offset, limit)

(* list_gyms_v2 asks for one gym more than the page holds.                 *)
(* Faulty variant: it asks for the page only.                              *)
ListedExact(p) ==
  IF p.kind = "browse" THEN Filter(p.bound, p.limit, Len(p.got))
  ELSE Near2(p.limit, Len(p.got))
Listed(p) ==
  IF p.kind = "browse" THEN Filter(p.bound, p.limit + 1, Len(p.got))
  ELSE Near2(p.limit + 1, Len(p.got))

(* A review that asks for no max_conf is one with bound 0.                 *)
InReview(r, p) == /\ p.status = "any" \/ r.status = p.status
                  /\ p.bound = 0 \/ r.level <= p.bound

(* list_review_gyms.                                                       *)
ReviewPage(p) ==
  LET offset == Len(p.got)
      window == Filter(0, Max({p.limit + offset, ReviewWindow}), 0)
  IN  Cut(Ordered({r \in ToSet(window) : InReview(r, p)}, ForReview), offset, p.limit)

Ask ==
  /\ pager.pc = "idle"
  /\ \E status \in {"any", "matched"} :
       /\ status # "any" => pager.kind = "review"
       /\ pager' = [pager EXCEPT !.pc = "paging", !.status = status]
  /\ UNCHANGED <<shelf, republished>>

(* A page of a browse says whether there is another one; a client goes on  *)
(* while has_more is true.                                                 *)
BrowsePage ==
  /\ pager.pc = "paging" /\ pager.kind # "review"
  /\ LET listed == Listed(pager)
     IN  pager' = [pager EXCEPT !.got = @ \o Cut(listed, 0, pager.limit),
                                !.pc = IF Len(listed) > pager.limit THEN "paging" ELSE "done"]
  /\ UNCHANGED <<shelf, republished>>

(* A full page of a review may be the last one: then the next is empty.    *)
CoveragePage ==
  /\ pager.pc = "paging" /\ pager.kind = "review"
  /\ LET page == ReviewPage(pager)
     IN  pager' = [pager EXCEPT !.got = @ \o page,
                                !.pc = IF Len(page) = pager.limit THEN "paging" ELSE "done"]
  /\ UNCHANGED <<shelf, republished>>

(* An ingest publishes: one gym more, or one less.                         *)
PublishGyms ==
  /\ pager.pc = "paging" /\ pager.got # <<>>
  /\ republished < MaxPublished
  /\ \E rows \in Shelves :
       /\ Cardinality((rows \ shelf) \cup (shelf \ rows)) = 1
       /\ shelf' = rows
  /\ republished' = republished + 1
  /\ UNCHANGED pager

PagingNext == Ask \/ BrowsePage \/ CoveragePage \/ PublishGyms

PagingSpec == PagingInit /\ [][PagingNext]_pagingVars

----------------------------------------------------------------------------
(* Types of the paging.                                                    *)
PagingTypeOK ==
  /\ shelf \in Shelves
  /\ pager \in Pager
  /\ republished \in 0..MaxPublished

(* The gyms that match what a client asks for, and their listing.          *)
Matching(rows, p) ==
  {r \in rows : /\ p.kind = "browse" => r.level >= p.bound
                /\ p.kind = "near" => r.id \in Around
                /\ p.kind = "review" => InReview(r, p)}
WholeOf(rows, p) ==
  IF p.kind = "browse" THEN Ordered(Matching(rows, p), ByConfidence)
  ELSE IF p.kind = "near" THEN Ordered(Matching(rows, p), ByDistance)
  ELSE Ordered(Matching(rows, p), ForReview)
WindowHolds(rows, p) == p.kind = "review" => Cardinality(rows) <= ReviewWindow

(* While no dataset is published, and for a review that looks at all of    *)
(* it: the pages that a client has got are the beginning of the listing,   *)
(* with no gym lost or shown twice where two pages meet; when it is told   *)
(* that there are no more they are all of it; and a page of a browse says  *)
(* that there are more only if there are.  (A review may say so of its     *)
(* last page: HasMoreExact.)                                               *)
PagesWhole ==
  republished = 0 /\ WindowHolds(shelf, pager) =>
    /\ IsPrefix(pager.got, WholeOf(shelf, pager))
    /\ pager.pc = "done" => pager.got = WholeOf(shelf, pager)
    /\ pager.pc = "paging" /\ pager.got # <<>> /\ pager.kind # "review"
         => pager.got # WholeOf(shelf, pager)

(* "has_more on list responses ... authoritative" (api_status.md): a client *)
(* that has asked is told that there are more exactly when it has not got   *)
(* every gym that matches.                                                  *)
HasMoreExact ==
  republished = 0 /\ (pager.pc = "done" \/ pager.got # <<>>) =>
    (pager.pc = "paging" <=> ~(Matching(shelf, pager) \subseteq ToSet(pager.got)))
=============================================================================
