-------------------------------- MODULE GymTable --------------------------------
(***************************************************************************)
(* The gyms table of Postgres, into which the sync script upserts a        *)
(* published dataset, row by row and in one transaction.                   *)
(***************************************************************************)
EXTENDS Integers

CONSTANTS
  GymIds,     \* primary keys
  Syncs,      \* runs of the sync script
  Versions    \* bound: datasets published one after the other, the first is 1

Nobody == "nobody"

ASSUME GymTableAssumption == Versions \in Nat \ {0} /\ Nobody \notin Syncs

VARIABLES
  dataset,  \* the dataset as it is published: its version and gyms
  table,    \* the rows that queries see: the run that has written each, or Nobody
  pending,  \* the rows that are not committed: the run that has written each, and
            \* so has locked it until its transaction ends, or Nobody
  sync      \* sync[s]: the run s, the gyms it has read and those it has yet to write

gymTableVars == <<dataset, table, pending, sync>>

(* A gym of a dataset whose id, name or place is not of the right type is  *)
(* passed over.                                                            *)
PublishedGyms == [version : 1..Versions, valid : SUBSET GymIds]
Sync == [pc : {"new", "read", "open", "done", "failed"},
         gyms : SUBSET GymIds, left : SUBSET GymIds]
NewSync == [pc |-> "new", gyms |-> {}, left |-> {}]

GymTableInit ==
  /\ \E valid \in SUBSET GymIds : dataset = [version |-> 1, valid |-> valid]
  /\ table = [g \in GymIds |-> Nobody]
  /\ pending = [g \in GymIds |-> Nobody]
  /\ sync = [s \in Syncs |-> NewSync]

----------------------------------------------------------------------------
PublishDataset ==
  /\ dataset.version < Versions
  /\ \E valid \in SUBSET GymIds :
       dataset' = [version |-> dataset.version + 1, valid |-> valid]
  /\ UNCHANGED <<table, pending, sync>>

ReadDataset(s) ==
  /\ sync[s].pc = "new"
  /\ sync' = [sync EXCEPT ![s] = [pc |-> "read", gyms |-> dataset.valid, left |-> dataset.valid]]
  /\ UNCHANGED <<dataset, table, pending>>

(* The upsert of one gym waits while the transaction of another run has    *)
(* written the row, or inserted its id.                                    *)
(* Faulty variant: the connection commits every statement.                 *)
Upsert1Committed(s) ==
  /\ sync[s].pc \in {"read", "open"}
  /\ \E g \in sync[s].left :
       /\ pending[g] = Nobody
       /\ table' = [table EXCEPT ![g] = s]
       /\ sync' = [sync EXCEPT ![s].pc = "open", ![s].left = @ \ {g}]
  /\ UNCHANGED <<dataset, pending>>
Upsert1(s) ==
  /\ sync[s].pc \in {"read", "open"}
  /\ \E g \in sync[s].left :
       /\ pending[g] = Nobody
       /\ pending' = [pending EXCEPT ![g] = s]
       /\ sync' = [sync EXCEPT ![s].pc = "open", ![s].left = @ \ {g}]
  /\ UNCHANGED <<dataset, table>>

(* The rows that the run has written are given up, or are there for all.   *)
Released(s) == [g \in GymIds |-> IF pending[g] = s THEN Nobody ELSE pending[g]]

(* The end of engine.begin().                                              *)
CommitSync(s) ==
  /\ sync[s].pc \in {"read", "open"} /\ sync[s].left = {}
  /\ table' = [g \in GymIds |-> IF pending[g] = s THEN s ELSE table[g]]
  /\ pending' = Released(s)
  /\ sync' = [sync EXCEPT ![s].pc = "done"]
  /\ UNCHANGED dataset

(* The database is lost or the script is killed, or Postgres breaks a      *)
(* deadlock of two runs: the transaction is rolled back.                   *)
SyncFails(s) ==
  /\ sync[s].pc \in {"read", "open"}
  /\ pending' = Released(s)
  /\ sync' = [sync EXCEPT ![s].pc = "failed", ![s].left = {}]
  /\ UNCHANGED <<dataset, table>>

GymTableNext ==
  \/ PublishDataset
  \/ \E s \in Syncs : ReadDataset(s) \/ Upsert1(s) \/ CommitSync(s) \/ SyncFails(s)

GymTableSpec == GymTableInit /\ [][GymTableNext]_gymTableVars

----------------------------------------------------------------------------
(* Types of the gyms table.                                                *)
GymTableTypeOK ==
  /\ dataset \in PublishedGyms
  /\ table \in [GymIds -> Syncs \cup {Nobody}]
  /\ pending \in [GymIds -> Syncs \cup {Nobody}]
  /\ sync \in [Syncs -> Sync]

Finished(s) == sync[s].pc = "done"

(* However runs overlap, wait for each other's rows and fail: no query     *)
(* sees a row of a run that is at work or has failed; every gym of a run   *)
(* that has finished has a row; and the gyms that two datasets have in     *)
(* common are never partly of the one and partly of the other.  (Which of  *)
(* two runs wins is which writes last: the older dataset may come back,    *)
(* and a gym that is no longer published stays.)                           *)
SyncsApart ==
  /\ \A g \in GymIds : table[g] # Nobody => Finished(table[g]) /\ g \in sync[table[g]].gyms
  /\ \A s \in Syncs : Finished(s) => \A g \in sync[s].gyms : table[g] # Nobody
  /\ \A s, t \in Syncs : s # t =>
       ~ \E g, h \in sync[s].gyms \cap sync[t].gyms : table[g] = s /\ table[h] = t
=============================================================================
