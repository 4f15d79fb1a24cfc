---------------------------- MODULE DatasetStoreInv ----------------------------
(***************************************************************************)
(* The inductive invariant of DatasetStore: since when the versions have   *)
(* been replaced that queries, the snapshot and connections refer to.      *)
(***************************************************************************)
EXTENDS DatasetStore, ReadModelInv

(* v has been published, and was in place at t or later.                   *)
InPlaceSince(v, t) ==
  v \in Versions /\ place[v] > 0 /\ (v = dataset \/ until[v] >= t)

(* What is published later is replaced later.                              *)
UntilInv ==
  /\ \A v \in Versions : until[v] <= now
  /\ \A v, w \in Versions :
       w # dataset /\ place[v] <= place[w] => until[v] <= until[w]

SnapInv == snap # None => InPlaceSince(snap.version, snap.at) /\ snap.at <= now

QuerySound(query) ==
  /\ query.start <= now
  /\ query.pc \in {"enter", "build", "store"} => InPlaceSince(query.version, query.start)
  /\ query.pc = "connect" => InPlaceSince(query.version, query.start - Recheck)

(* A connection holds rows that are not older than the index it was opened *)
(* for, also when that index has been unlinked.                            *)
ConnSound(c) ==
  c # None => 0 < place[c.version] /\ place[c.version] <= place[c.rows]

AnswerSound(a) ==
  /\ a.start <= now
  /\ a.outcome = "served" => InPlaceSince(a.rows, a.start - Recheck)

ReaderInv ==
  \A r \in Readers :
    QuerySound(reader[r]) /\ ConnSound(conn[r]) /\ AnswerSound(answer[r])

FreshInv == PublicationInv /\ StoreTypeOK /\ UntilInv /\ SnapInv /\ ReaderInv
=============================================================================
