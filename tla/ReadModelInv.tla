----------------------------- MODULE ReadModelInv -----------------------------
(***************************************************************************)
(* The inductive invariant of ReadModel: how the order of publication, the *)
(* indexes and the builder in the lock relate.                             *)
(***************************************************************************)
EXTENDS ReadModel

(* The dataset is the version published last, and the only one in its      *)
(* place; versions that are only written have no place yet.                *)
PlaceInv ==
  /\ \A v \in Versions :
       /\ place[v] <= place[dataset]
       /\ place[v] = place[dataset] => v = dataset
       /\ v > written => place[v] = 0
  /\ place[dataset] > 0
  /\ \A a \in Actors : build[a].pc = "rename" =>
       place[build[a].version] = 0 /\ build[a].version <= written
  /\ \A a, b \in Actors : build[a].pc = "rename" /\ build[b].pc = "rename" =>
       a = b \/ build[a].version # build[b].version

(* Only published versions have an index, and not with older rows.         *)
IndexInv ==
  \A v \in Versions : index[v] # None => 0 < place[v] /\ place[v] <= place[index[v]]

(* Who builds holds the lock; no index is newer than the builder's.        *)
Building == {"read", "publish", "cleanup"}
BuilderInv ==
  \A a \in Actors :
    /\ build[a].pc \in Locked => lock = a /\ place[build[a].version] > 0
    /\ build[a].pc = "publish" => place[build[a].version] <= place[build[a].content]
    /\ build[a].pc \in Building =>
         \A v \in Versions : index[v] # None => place[v] <= place[build[a].version]

PublicationInv == TypeOK /\ PlaceInv /\ IndexInv /\ BuilderInv
=============================================================================
