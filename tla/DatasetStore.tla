----------------------------- MODULE DatasetStore -----------------------------
(***************************************************************************)
(* DatasetGymStore: the threads of the API server that query a dataset     *)
(* through a snapshot they share and a connection each keeps to an index,  *)
(* composed with the read model of module ReadModel, which ingests change  *)
(* at the same time.                                                       *)
(***************************************************************************)
EXTENDS ReadModel, Integers

CONSTANTS
  Recheck,   \* cache_recheck_ns: how long a snapshot is used unchecked
  MaxTime    \* bound: the clock stops here

ASSUME DatasetStoreAssumption == Recheck \in Nat /\ MaxTime \in Nat

VARIABLES
  now,       \* the monotonic clock of the server
  snap,      \* the cached snapshot of the region
  mutex,     \* holder of _snapshot_lock
  reader,    \* reader[r]: the query of thread r
  conn,      \* conn[r]: the connection that thread r keeps
  answer,    \* answer[r]: the outcome of thread r's query, until its next
  until      \* history: until[v]: when version v was replaced

storeVars == <<now, snap, mutex, reader, conn, answer, until>>
vars == <<rmVars, storeVars>>

(* at: time.monotonic_ns() as read at the start of the check.              *)
Snapshot == [version : Versions, at : Nat]
Query == [pc : {"idle", "stat", "enter", "build", "store", "connect"},
          version : Versions \cup {None}, start : Nat]
IdleQuery == [pc |-> "idle", version |-> None, start |-> 0]

(* rows: what the open file holds; it lives on when its name is unlinked.  *)
Connection == [version : Versions, rows : Versions, open : BOOLEAN]
Answer == [outcome : {"none", "served", "timeout", "noindex", "closed"},
           rows : Versions \cup {None}, start : Nat]
NoAnswer == [outcome |-> "none", rows |-> None, start |-> 0]

StoreInit ==
  /\ Init
  /\ now = 0
  /\ snap = None
  /\ mutex = None
  /\ reader = [r \in Readers |-> IdleQuery]
  /\ conn = [r \in Readers |-> None]
  /\ answer = [r \in Readers |-> NoAnswer]
  /\ until = [v \in Versions |-> 0]

Tick ==
  /\ now < MaxTime
  /\ now' = now + 1
  /\ UNCHANGED <<rmVars, snap, mutex, reader, conn, answer, until>>

----------------------------------------------------------------------------
(* _ensure_snapshot.                                                       *)
Recent(start) == snap # None /\ start - snap.at <= Recheck

Moves(r, query) ==
  /\ reader' = [reader EXCEPT ![r] = query]
  /\ UNCHANGED <<now, until>>

(* A recent snapshot is used without a look at the files.                  *)
BeginQuery(r) ==
  /\ reader[r].pc = "idle"
  /\ Moves(r, IF Recent(now)
              THEN [pc |-> "connect", version |-> snap.version, start |-> now]
              ELSE [pc |-> "stat", version |-> None, start |-> now])
  /\ answer' = [answer EXCEPT ![r] = NoAnswer]
  /\ UNCHANGED <<rmVars, snap, mutex, conn>>

StatDataset(r) ==
  /\ reader[r].pc = "stat"
  /\ Moves(r, [reader[r] EXCEPT !.pc = "enter", !.version = dataset])
  /\ UNCHANGED <<rmVars, snap, mutex, conn, answer>>

(* Under the lock: the snapshot another thread has made meanwhile, the     *)
(* index that is there, or a new one.                                      *)
Enter(r) ==
  LET v == reader[r].version
      exists == index[v] # None
      cached == Recent(reader[r].start) /\ snap.version = v /\ exists
  IN /\ reader[r].pc = "enter"
     /\ mutex = None
     /\ mutex' = IF cached THEN None ELSE r
     /\ Moves(r, [reader[r] EXCEPT !.pc =
          IF cached THEN "connect" ELSE IF exists THEN "store" ELSE "build"])
     /\ IF cached \/ exists THEN UNCHANGED rmVars ELSE Call(r)
     /\ UNCHANGED <<snap, conn, answer>>

BuildStep(r) ==
  /\ reader[r].pc = "build"
  /\ Materialize(r)
  /\ UNCHANGED storeVars

(* materialize_dataset_read_model has returned; which index it returned is *)
(* ignored.                                                                *)
Built(r) ==
  /\ reader[r].pc = "build"
  /\ build[r].pc = "returned"
  /\ Moves(r, [reader[r] EXCEPT !.pc = "store"])
  /\ UNCHANGED <<rmVars, snap, mutex, conn, answer>>

(* It has raised: the lock is released and the query fails.                *)
(* Faulty variant: the lock is not released.                               *)
BuildRaisedKeepsMutex(r) ==
  /\ reader[r].pc = "build"
  /\ build[r].pc = "raised"
  /\ answer' = [answer EXCEPT ![r] = [outcome |-> "timeout", rows |-> None,
                                      start |-> reader[r].start]]
  /\ Moves(r, IdleQuery)
  /\ UNCHANGED <<rmVars, snap, mutex, conn>>

BuildRaised(r) ==
  /\ reader[r].pc = "build"
  /\ build[r].pc = "raised"
  /\ mutex' = None
  /\ answer' = [answer EXCEPT ![r] = [outcome |-> "timeout", rows |-> None,
                                      start |-> reader[r].start]]
  /\ Moves(r, IdleQuery)
  /\ UNCHANGED <<rmVars, snap, conn>>

(* Faulty variant: the snapshot is dated when it is stored.                *)
StoreSnapshotNow(r) ==
  /\ reader[r].pc = "store"
  /\ snap' = [version |-> reader[r].version, at |-> now]
  /\ mutex' = None
  /\ Moves(r, [reader[r] EXCEPT !.pc = "connect"])
  /\ UNCHANGED <<rmVars, conn, answer>>

StoreSnapshot(r) ==
  /\ reader[r].pc = "store"
  /\ snap' = [version |-> reader[r].version, at |-> reader[r].start]
  /\ mutex' = None
  /\ Moves(r, [reader[r] EXCEPT !.pc = "connect"])
  /\ UNCHANGED <<rmVars, conn, answer>>

----------------------------------------------------------------------------
(* _connection_for: the connection of the thread, if it is one to the      *)
(* index of the snapshot, or a new one; the old one is closed first and    *)
(* stays in place if the index cannot be opened.  Then the query.          *)
Finish(r, connection, outcome) ==
  /\ conn' = [conn EXCEPT ![r] = connection]
  /\ answer' = [answer EXCEPT ![r] =
       [outcome |-> outcome, start |-> reader[r].start,
        rows |-> IF outcome = "served" THEN connection.rows ELSE None]]
  /\ Moves(r, IdleQuery)
  /\ UNCHANGED <<rmVars, snap, mutex>>

Reusable(r) == conn[r] # None /\ conn[r].version = reader[r].version

Reuse(r) ==
  /\ reader[r].pc = "connect"
  /\ Reusable(r)
  /\ Finish(r, conn[r], IF conn[r].open THEN "served" ELSE "closed")

Open(r) ==
  LET v == reader[r].version
  IN /\ reader[r].pc = "connect"
     /\ ~Reusable(r)
     /\ index[v] # None
     /\ Finish(r, [version |-> v, rows |-> index[v], open |-> TRUE], "served")

OpenFails(r) ==
  /\ reader[r].pc = "connect"
  /\ ~Reusable(r)
  /\ index[reader[r].version] = None
  /\ Finish(r, IF conn[r] = None THEN None ELSE [conn[r] EXCEPT !.open = FALSE], "noindex")

----------------------------------------------------------------------------
Ingest(i) ==
  /\ IngestStep(i)
  /\ until' = IF dataset' # dataset THEN [until EXCEPT ![dataset] = now] ELSE until
  /\ UNCHANGED <<now, snap, mutex, reader, conn, answer>>

IngestCrash(i) == CrashOf({i}) /\ UNCHANGED storeVars

(* Snapshot, locks of threads and connections are gone with the server.    *)
(* Faulty variant: the lock file is removed as well, whoever holds it.     *)
ServerCrashUnlocks ==
  /\ crashes < MaxCrashes
  /\ crashes' = crashes + 1
  /\ build' = [a \in Actors |-> IF a \in Readers THEN IdleBuild ELSE build[a]]
  /\ lock' = None
  /\ snap' = None
  /\ mutex' = None
  /\ reader' = [r \in Readers |-> IdleQuery]
  /\ conn' = [r \in Readers |-> None]
  /\ UNCHANGED <<dataset, index, manifest, written, place, now, answer, until>>

ServerCrash ==
  /\ CrashOf(Readers)
  /\ snap' = None
  /\ mutex' = None
  /\ reader' = [r \in Readers |-> IdleQuery]
  /\ conn' = [r \in Readers |-> None]
  /\ UNCHANGED <<now, answer, until>>

ReaderStep(r) ==
  \/ StatDataset(r) \/ Enter(r) \/ BuildStep(r) \/ Built(r) \/ BuildRaised(r)
  \/ StoreSnapshot(r) \/ Reuse(r) \/ Open(r) \/ OpenFails(r)

StoreNext ==
  \/ Tick
  \/ ServerCrash
  \/ \E r \in Readers : BeginQuery(r) \/ ReaderStep(r)
  \/ \E i \in Ingests : Ingest(i) \/ IngestCrash(i)

StoreSpec == StoreInit /\ [][StoreNext]_vars

(* Threads run; _snapshot_lock is given to a thread that keeps waiting.    *)
Fairness ==
  \A r \in Readers : WF_vars(ReaderStep(r)) /\ SF_vars(Enter(r))
StoreFairSpec == StoreSpec /\ Fairness

----------------------------------------------------------------------------
StoreTypeOK ==
  /\ TypeOK
  /\ now \in Nat
  /\ snap \in Snapshot \cup {None}
  /\ mutex \in Readers \cup {None}
  /\ reader \in [Readers -> Query]
  /\ conn \in [Readers -> Connection \cup {None}]
  /\ answer \in [Readers -> Answer]
  /\ until \in [Versions -> Nat]

(* A query serves no dataset that had been replaced more than Recheck      *)
(* before the query began, although threads overwrite each other's         *)
(* snapshots with older ones and keep connections to unlinked indexes.     *)
ServedFresh ==
  \A r \in Readers :
    answer[r].outcome = "served" =>
      LET v == answer[r].rows
      IN v = dataset \/ until[v] >= answer[r].start - Recheck

(* The snapshot lock is held by the one thread that builds the index or    *)
(* stores the snapshot, never by one that waits for the lock, has failed   *)
(* or has been answered; and no thread builds without it.  So a server's   *)
(* threads wait for another process or for one that works, and not for     *)
(* each other.                                                             *)
SnapshotLockAtWork ==
  \A r \in Readers :
    /\ mutex = r <=> reader[r].pc \in {"build", "store"}
    /\ reader[r].pc = "build" => build[r].pc # "idle"
    /\ build[r].pc \notin Resting => reader[r].pc = "build"

(* The composed system uses the read model as ReadModel describes it, so   *)
(* what is shown of ReadModel holds of it.                                 *)
ImplementsReadModel == Spec

(* Every query ends, even if the index cannot be built because the holder  *)
(* of the lock file has died.                                              *)
QueriesEnd == \A r \in Readers : reader[r].pc # "idle" ~> reader[r].pc = "idle"

(* test_dataset_store.py: a query after the dataset has changed returns    *)
(* the new rows ("updated["name"] == "Updated"").  No query fails because  *)
(* the index of its snapshot has been removed.                             *)
QueriesServed == \A r \in Readers : answer[r].outcome \notin {"noindex", "closed"}
=============================================================================
