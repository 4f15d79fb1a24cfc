-------------------------- MODULE DatasetStoreProofs --------------------------
(***************************************************************************)
(* The queries of a dataset are never served outdated rows, for any number *)
(* of reader threads, ingests and versions and any recheck interval; and   *)
(* the composed system is an instance of ReadModel.                        *)
(***************************************************************************)
EXTENDS DatasetStoreInv, ReadModelProofs

LEMMA StoreStepImplements == [StoreNext]_vars => [Next]_rmVars
<1> SUFFICES ASSUME StoreNext PROVE [Next]_rmVars
  BY DEF vars, rmVars
<1>1. ASSUME NEW i \in Ingests, Ingest(i) \/ IngestCrash(i) PROVE Next
  BY <1>1 DEF Ingest, IngestCrash, IngestStep, Next, Actors, Processes
<1>2. ASSUME ServerCrash PROVE Next
  BY <1>2 DEF ServerCrash, Next, Processes
<1>3. ASSUME NEW r \in Readers, BeginQuery(r) \/ ReaderStep(r) PROVE [Next]_rmVars
  <2>1. CASE Enter(r)
    BY <2>1 DEF Enter, Next, Actors
  <2>2. CASE BuildStep(r)
    BY <2>2 DEF BuildStep, Next, Actors
  <2>3. CASE BeginQuery(r) \/ StatDataset(r) \/ Built(r) \/ BuildRaised(r)
               \/ StoreSnapshot(r) \/ Reuse(r) \/ Open(r) \/ OpenFails(r)
    BY <2>3 DEF BeginQuery, StatDataset, Built, BuildRaised, StoreSnapshot, Reuse,
                Open, OpenFails, Finish
  <2>4. QED
    BY <1>3, <2>1, <2>2, <2>3 DEF ReaderStep
<1>4. CASE Tick
  BY <1>4 DEF Tick
<1>5. QED
  BY <1>1, <1>2, <1>3, <1>4 DEF StoreNext

(* Whatever the server's threads do, the files change as ReadModel says.   *)
THEOREM StoreImplementsReadModel == StoreSpec => ImplementsReadModel
<1>1. StoreInit => Init
  BY DEF StoreInit
<1>2. QED
  BY <1>1, StoreStepImplements, PTL DEF StoreSpec, ImplementsReadModel, Spec

----------------------------------------------------------------------------
LEMMA StoreTypes ==
  /\ None \notin Versions
  /\ Versions \subseteq Nat
  /\ Recheck \in Nat
BY NoneFacts, DatasetStoreAssumption

LEMMA InitFresh == StoreInit => FreshInv
<1> SUFFICES ASSUME StoreInit PROVE FreshInv
  OBVIOUS
<1>1. PublicationInv
  BY InitPublication DEF StoreInit
<1>2. StoreTypeOK
  BY <1>1 DEF StoreInit, StoreTypeOK, PublicationInv, IdleQuery, NoAnswer, Query,
              Answer
<1>3. UntilInv /\ SnapInv
  BY <1>2 DEF StoreInit, StoreTypeOK, UntilInv, SnapInv
<1>4. ReaderInv
  BY DEF StoreInit, ReaderInv, QuerySound, ConnSound, AnswerSound, IdleQuery, NoAnswer
<1>5. QED
  BY <1>1, <1>2, <1>3, <1>4 DEF FreshInv

LEMMA Earlier ==
  ASSUME FreshInv, NEW v \in Versions, NEW t \in Int, NEW s \in Int,
         s <= t, InPlaceSince(v, t)
  PROVE  InPlaceSince(v, s)
<1>1. until[v] \in Nat
  BY DEF FreshInv, StoreTypeOK
<1>2. QED
  BY <1>1 DEF InPlaceSince

(* A step that publishes nothing and takes no time keeps what it does not  *)
(* touch; what it sets must be sound.                                      *)
LEMMA QuietKeeps ==
  ASSUME FreshInv, PublicationInv', StoreTypeOK',
         UNCHANGED <<dataset, place, until, now>>,
         \/ snap' = snap
         \/ snap' = None
         \/ InPlaceSince(snap'.version, snap'.at) /\ snap'.at <= now,
         \A r \in Readers : reader'[r] = reader[r] \/ QuerySound(reader'[r]),
         \A r \in Readers : conn'[r] = conn[r] \/ ConnSound(conn'[r]),
         \A r \in Readers : answer'[r] = answer[r] \/ AnswerSound(answer'[r])
  PROVE  FreshInv'
<1>1. UntilInv'
  BY DEF FreshInv, UntilInv
<1>2. SnapInv'
  BY DEF FreshInv, SnapInv, InPlaceSince
<1>3. ASSUME NEW r \in Readers
      PROVE  QuerySound(reader[r])' /\ ConnSound(conn[r])' /\ AnswerSound(answer[r])'
  <2>1. QuerySound(reader[r]) /\ ConnSound(conn[r]) /\ AnswerSound(answer[r])
    BY DEF FreshInv, ReaderInv
  <2>2. QuerySound(reader[r])'
    BY <2>1 DEF QuerySound, InPlaceSince
  <2>3. ConnSound(conn[r])'
    BY <2>1 DEF ConnSound
  <2>4. AnswerSound(answer[r])'
    BY <2>1 DEF AnswerSound, InPlaceSince
  <2>5. QED
    BY <2>2, <2>3, <2>4
<1>4. QED
  BY <1>1, <1>2, <1>3 DEF FreshInv, ReaderInv

----------------------------------------------------------------------------
(* The steps of the threads of the server.                                 *)

LEMMA BeginQueryKeeps ==
  ASSUME FreshInv, PublicationInv', NEW r \in Readers, BeginQuery(r) PROVE FreshInv'
<1> DEFINE q == IF Recent(now)
                THEN [pc |-> "connect", version |-> snap.version, start |-> now]
                ELSE [pc |-> "stat", version |-> None, start |-> now]
<1>1. /\ reader' = [reader EXCEPT ![r] = q]
      /\ answer' = [answer EXCEPT ![r] = NoAnswer]
      /\ UNCHANGED <<rmVars, snap, mutex, conn, now, until>>
  BY DEF BeginQuery, Moves
<1>2. q \in Query /\ QuerySound(q)
  <2>1. CASE Recent(now)
    <3>1. snap \in Snapshot /\ InPlaceSince(snap.version, snap.at)
            /\ now - snap.at <= Recheck /\ now \in Nat
      BY <2>1 DEF Recent, FreshInv, SnapInv, StoreTypeOK
    <3>2. InPlaceSince(snap.version, now - Recheck)
      <4>1. snap.version \in Versions /\ snap.at \in Int
              /\ now - Recheck \in Int /\ now - Recheck <= snap.at
        BY <3>1, StoreTypes DEF Snapshot
      <4>2. QED
        BY <3>1, <4>1, Earlier
    <3>3. QED
      BY <2>1, <3>1, <3>2, StoreTypes DEF Query, QuerySound, Snapshot
  <2>2. CASE ~Recent(now)
    BY <2>2 DEF Query, QuerySound, FreshInv, StoreTypeOK
  <2>3. QED
    BY <2>1, <2>2
<1>3. NoAnswer \in Answer /\ AnswerSound(NoAnswer)
  BY DEF NoAnswer, Answer, AnswerSound, FreshInv, StoreTypeOK
<1> HIDE DEF q
<1>4. StoreTypeOK'
  BY <1>1, <1>2, <1>3 DEF FreshInv, PublicationInv, StoreTypeOK
<1>5. /\ \A p \in Readers : reader'[p] = reader[p] \/ QuerySound(reader'[p])
      /\ \A p \in Readers : answer'[p] = answer[p] \/ AnswerSound(answer'[p])
  BY <1>1, <1>2, <1>3 DEF FreshInv, StoreTypeOK
<1>6. QED
  BY <1>1, <1>4, <1>5, QuietKeeps DEF rmVars

(* A query that has looked at the dataset knows which version is in place. *)
LEMMA StatDatasetKeeps ==
  ASSUME FreshInv, PublicationInv', NEW r \in Readers, StatDataset(r) PROVE FreshInv'
<1> DEFINE q == [reader[r] EXCEPT !.pc = "enter", !.version = dataset]
<1>1. /\ reader' = [reader EXCEPT ![r] = q]
      /\ reader[r] \in Query
      /\ UNCHANGED <<rmVars, snap, mutex, conn, answer, now, until>>
  BY DEF StatDataset, Moves, FreshInv, StoreTypeOK
<1>2. dataset \in Versions /\ place[dataset] > 0 /\ reader[r].start <= now
  BY DEF FreshInv, PublicationInv, TypeOK, PlaceInv, ReaderInv, QuerySound
<1>3. q \in Query /\ q.pc = "enter" /\ q.version = dataset /\ q.start = reader[r].start
  BY <1>1, <1>2 DEF Query
<1> HIDE DEF q
<1>4. QuerySound(q)
  BY <1>2, <1>3 DEF QuerySound, InPlaceSince
<1>5. StoreTypeOK'
  BY <1>1, <1>3 DEF FreshInv, PublicationInv, StoreTypeOK
<1>6. \A p \in Readers : reader'[p] = reader[p] \/ QuerySound(reader'[p])
  BY <1>1, <1>4 DEF FreshInv, StoreTypeOK
<1>7. QED
  BY <1>1, <1>5, <1>6, QuietKeeps DEF rmVars

(* A query that goes on in the snapshot code keeps its version and start.  *)
LEMMA QueryMoves ==
  ASSUME FreshInv, NEW r \in Readers, NEW pc,
         reader[r].pc \in {"enter", "build", "store"},
         pc \in {"build", "store", "connect"}
  PROVE  LET q == [reader[r] EXCEPT !.pc = pc] IN q \in Query /\ QuerySound(q)
<1> DEFINE q == [reader[r] EXCEPT !.pc = pc]
<1>1. reader[r] \in Query /\ QuerySound(reader[r])
  BY DEF FreshInv, StoreTypeOK, ReaderInv
<1>2. q \in Query /\ q.pc = pc /\ q.version = reader[r].version
        /\ q.start = reader[r].start
  BY <1>1 DEF Query
<1>3. InPlaceSince(reader[r].version, reader[r].start) /\ reader[r].start \in Nat
  BY <1>1 DEF QuerySound, Query
<1>4. InPlaceSince(reader[r].version, reader[r].start - Recheck)
  <2>1. reader[r].version \in Versions /\ reader[r].start \in Int
          /\ reader[r].start - Recheck \in Int
          /\ reader[r].start - Recheck <= reader[r].start
    BY <1>3, StoreTypes DEF InPlaceSince
  <2>2. QED
    BY <1>3, <2>1, Earlier
<1> HIDE DEF q
<1>5. QuerySound(q)
  BY <1>1, <1>2, <1>3, <1>4 DEF QuerySound
<1>6. QED
  BY <1>2, <1>5 DEF q

LEMMA EnterKeeps ==
  ASSUME FreshInv, PublicationInv', NEW r \in Readers, Enter(r) PROVE FreshInv'
<1>1. PICK pc \in {"build", "store", "connect"} :
        reader' = [reader EXCEPT ![r] = [reader[r] EXCEPT !.pc = pc]]
  BY DEF Enter, Moves
<1> DEFINE q == [reader[r] EXCEPT !.pc = pc]
<1>2. /\ reader[r].pc = "enter"
      /\ mutex' \in Readers \cup {None}
      /\ UNCHANGED <<dataset, place, snap, conn, answer, now, until>>
  BY DEF Enter, Moves, Call, rmVars, files, history
<1>3. q \in Query /\ QuerySound(q)
  BY <1>2, QueryMoves
<1> HIDE DEF q
<1>4. reader' = [reader EXCEPT ![r] = q]
  BY <1>1 DEF q
<1>5. StoreTypeOK'
  BY <1>2, <1>3, <1>4 DEF FreshInv, PublicationInv, StoreTypeOK
<1>6. \A p \in Readers : reader'[p] = reader[p] \/ QuerySound(reader'[p])
  BY <1>3, <1>4 DEF FreshInv, StoreTypeOK
<1>7. QED
  BY <1>2, <1>5, <1>6, QuietKeeps

LEMMA BuildStepKeeps ==
  ASSUME FreshInv, PublicationInv', NEW r \in Readers, BuildStep(r) PROVE FreshInv'
<1>1. UNCHANGED <<dataset, place, snap, mutex, reader, conn, answer, now, until>>
  BY DEF BuildStep, storeVars, Materialize, Stat, Check, Acquire, LockTimeout,
         ReadDataset, Publish, Cleanup, WriteManifest, BuildFails, files, history
<1>2. StoreTypeOK'
  BY <1>1 DEF FreshInv, PublicationInv, StoreTypeOK
<1>3. QED
  BY <1>1, <1>2, QuietKeeps

LEMMA BuiltKeeps ==
  ASSUME FreshInv, PublicationInv', NEW r \in Readers, Built(r) PROVE FreshInv'
<1> DEFINE q == [reader[r] EXCEPT !.pc = "store"]
<1>1. /\ reader' = [reader EXCEPT ![r] = q]
      /\ reader[r].pc = "build"
      /\ UNCHANGED <<rmVars, snap, mutex, conn, answer, now, until>>
  BY DEF Built, Moves
<1>2. q \in Query /\ QuerySound(q)
  BY <1>1, QueryMoves
<1> HIDE DEF q
<1>3. StoreTypeOK'
  BY <1>1, <1>2 DEF FreshInv, PublicationInv, StoreTypeOK
<1>4. \A p \in Readers : reader'[p] = reader[p] \/ QuerySound(reader'[p])
  BY <1>1, <1>2 DEF FreshInv, StoreTypeOK
<1>5. QED
  BY <1>1, <1>3, <1>4, QuietKeeps DEF rmVars

(* The snapshot is dated when the query began, so its version was in place *)
(* then or later.                                                          *)
LEMMA StoreSnapshotKeeps ==
  ASSUME FreshInv, PublicationInv', NEW r \in Readers, StoreSnapshot(r) PROVE FreshInv'
<1> DEFINE q == [reader[r] EXCEPT !.pc = "connect"]
           new == [version |-> reader[r].version, at |-> reader[r].start]
<1>1. /\ reader' = [reader EXCEPT ![r] = q]
      /\ reader[r].pc = "store"
      /\ snap' = new
      /\ mutex' = None
      /\ UNCHANGED <<rmVars, conn, answer, now, until>>
  BY DEF StoreSnapshot, Moves
<1>2. q \in Query /\ QuerySound(q)
  BY <1>1, QueryMoves
<1>3. /\ reader[r] \in Query
      /\ InPlaceSince(reader[r].version, reader[r].start)
      /\ reader[r].start <= now
  BY <1>1 DEF FreshInv, StoreTypeOK, ReaderInv, QuerySound
<1>4. new \in Snapshot /\ InPlaceSince(new.version, new.at) /\ new.at <= now
  BY <1>3 DEF Snapshot, Query, InPlaceSince
<1> HIDE DEF q, new
<1>5. StoreTypeOK'
  BY <1>1, <1>2, <1>4 DEF FreshInv, PublicationInv, StoreTypeOK
<1>6. \A p \in Readers : reader'[p] = reader[p] \/ QuerySound(reader'[p])
  BY <1>1, <1>2 DEF FreshInv, StoreTypeOK
<1>7. QED
  BY <1>1, <1>4, <1>5, <1>6, QuietKeeps DEF rmVars

(* A query that ends leaves a sound connection and answer.                 *)
LEMMA EndKeeps ==
  ASSUME FreshInv, PublicationInv', NEW r \in Readers,
         NEW c \in Connection \cup {None}, NEW a \in Answer,
         conn' = [conn EXCEPT ![r] = c], ConnSound(c),
         answer' = [answer EXCEPT ![r] = a], AnswerSound(a),
         reader' = [reader EXCEPT ![r] = IdleQuery],
         mutex' \in Readers \cup {None},
         UNCHANGED <<rmVars, snap, now, until>>
  PROVE  FreshInv'
<1>1. IdleQuery \in Query /\ QuerySound(IdleQuery)
  BY DEF IdleQuery, Query, QuerySound, FreshInv, StoreTypeOK
<1>2. StoreTypeOK'
  BY <1>1 DEF FreshInv, PublicationInv, StoreTypeOK
<1>3. /\ \A p \in Readers : reader'[p] = reader[p] \/ QuerySound(reader'[p])
      /\ \A p \in Readers : conn'[p] = conn[p] \/ ConnSound(conn'[p])
      /\ \A p \in Readers : answer'[p] = answer[p] \/ AnswerSound(answer'[p])
  BY <1>1 DEF FreshInv, StoreTypeOK
<1>4. QED
  BY <1>2, <1>3, QuietKeeps DEF rmVars

LEMMA BuildRaisedKeeps ==
  ASSUME FreshInv, PublicationInv', NEW r \in Readers, BuildRaised(r) PROVE FreshInv'
<1> DEFINE a == [outcome |-> "timeout", rows |-> None, start |-> reader[r].start]
<1>1. /\ reader' = [reader EXCEPT ![r] = IdleQuery]
      /\ answer' = [answer EXCEPT ![r] = a]
      /\ mutex' = None
      /\ UNCHANGED <<rmVars, snap, conn, now, until>>
  BY DEF BuildRaised, Moves
<1>2. reader[r] \in Query /\ reader[r].start <= now
        /\ conn[r] \in Connection \cup {None} /\ ConnSound(conn[r])
        /\ conn' = [conn EXCEPT ![r] = conn[r]]
  BY <1>1 DEF FreshInv, StoreTypeOK, ReaderInv, QuerySound
<1>3. a \in Answer /\ AnswerSound(a)
  BY <1>2 DEF Answer, AnswerSound, Query
<1> HIDE DEF a
<1>4. QED
  BY <1>1, <1>2, <1>3, EndKeeps

(* What a connection to a version in place since t serves has been in      *)
(* place since t as well: rows are not older than the name of their index, *)
(* and what is published later is replaced later.                          *)
LEMMA RowsInPlace ==
  ASSUME FreshInv, NEW v \in Versions, NEW w \in Versions, NEW t \in Int,
         InPlaceSince(v, t), place[v] <= place[w]
  PROVE  InPlaceSince(w, t)
<1>1. place \in [Versions -> Nat] /\ until \in [Versions -> Nat] /\ dataset \in Versions
  BY DEF FreshInv, PublicationInv, TypeOK, StoreTypeOK
<1>2. place[v] > 0 /\ place[w] > 0
  BY <1>1 DEF InPlaceSince
<1>3. CASE w = dataset
  BY <1>2, <1>3 DEF InPlaceSince
<1>4. CASE w # dataset
  <2>1. v # dataset
    BY <1>1, <1>4 DEF FreshInv, PublicationInv, PlaceInv
  <2>2. until[v] >= t /\ until[v] <= until[w]
    BY <2>1, <1>4 DEF InPlaceSince, FreshInv, UntilInv
  <2>3. QED
    BY <1>1, <1>2, <2>2 DEF InPlaceSince
<1>5. QED
  BY <1>3, <1>4

(* A served query, given the connection it ends with.                      *)
LEMMA ServedKeeps ==
  ASSUME FreshInv, PublicationInv', NEW r \in Readers, reader[r].pc = "connect",
         NEW c \in Connection, c.version = reader[r].version,
         0 < place[c.version], place[c.version] <= place[c.rows],
         Finish(r, c, "served")
  PROVE  FreshInv'
<1> DEFINE a == [outcome |-> "served", start |-> reader[r].start, rows |-> c.rows]
<1>1. /\ conn' = [conn EXCEPT ![r] = c]
      /\ answer' = [answer EXCEPT ![r] = a]
      /\ reader' = [reader EXCEPT ![r] = IdleQuery]
      /\ UNCHANGED <<rmVars, snap, mutex, now, until>>
  BY DEF Finish, Moves
<1>2. /\ reader[r] \in Query /\ reader[r].start <= now
      /\ InPlaceSince(reader[r].version, reader[r].start - Recheck)
      /\ mutex' \in Readers \cup {None}
  BY <1>1 DEF FreshInv, StoreTypeOK, ReaderInv, QuerySound
<1>3. /\ c.version \in Versions /\ c.rows \in Versions /\ reader[r].start \in Nat
      /\ reader[r].start - Recheck \in Int
  BY <1>2, StoreTypes DEF Connection, Query
<1>4. InPlaceSince(c.rows, reader[r].start - Recheck)
  BY <1>2, <1>3, RowsInPlace
<1>5. a \in Answer /\ AnswerSound(a)
  BY <1>2, <1>3, <1>4 DEF Answer, AnswerSound, Query
<1>6. ConnSound(c)
  BY DEF ConnSound
<1> HIDE DEF a
<1>7. QED
  BY <1>1, <1>2, <1>5, <1>6, EndKeeps

LEMMA ReuseKeeps ==
  ASSUME FreshInv, PublicationInv', NEW r \in Readers, Reuse(r) PROVE FreshInv'
<1>1. /\ conn[r] \in Connection
      /\ conn[r].version = reader[r].version
      /\ 0 < place[conn[r].version]
      /\ place[conn[r].version] <= place[conn[r].rows]
      /\ reader[r].pc = "connect"
  BY DEF Reuse, Reusable, FreshInv, StoreTypeOK, ReaderInv, ConnSound
<1>2. CASE conn[r].open
  <2>1. Finish(r, conn[r], "served")
    BY <1>2 DEF Reuse
  <2>2. QED
    BY <1>1, <2>1, ServedKeeps
<1>3. CASE ~conn[r].open
  <2> DEFINE a == [outcome |-> "closed", start |-> reader[r].start, rows |-> None]
  <2>1. /\ conn' = [conn EXCEPT ![r] = conn[r]]
        /\ answer' = [answer EXCEPT ![r] = a]
        /\ reader' = [reader EXCEPT ![r] = IdleQuery]
        /\ UNCHANGED <<rmVars, snap, mutex, now, until>>
    BY <1>3 DEF Reuse, Finish, Moves
  <2>2. a \in Answer /\ AnswerSound(a) /\ ConnSound(conn[r])
          /\ mutex' \in Readers \cup {None}
    BY <2>1 DEF Answer, AnswerSound, Query, FreshInv, StoreTypeOK, ReaderInv, QuerySound
  <2> HIDE DEF a
  <2>3. QED
    BY <1>1, <2>1, <2>2, EndKeeps
<1>4. QED
  BY <1>2, <1>3

LEMMA OpenKeeps ==
  ASSUME FreshInv, PublicationInv', NEW r \in Readers, Open(r) PROVE FreshInv'
<1> DEFINE v == reader[r].version
           c == [version |-> v, rows |-> index[v], open |-> TRUE]
<1>1. reader[r].pc = "connect" /\ v \in Versions /\ index[v] # None
        /\ Finish(r, c, "served")
  BY DEF Open, FreshInv, ReaderInv, QuerySound, InPlaceSince
<1>2. index[v] \in Versions /\ 0 < place[v] /\ place[v] <= place[index[v]]
  BY <1>1 DEF FreshInv, PublicationInv, TypeOK, IndexInv
<1>3. c \in Connection /\ c.version = v /\ c.rows = index[v]
  BY <1>1, <1>2 DEF Connection
<1> HIDE DEF c
<1>4. QED
  BY <1>1, <1>2, <1>3, ServedKeeps

LEMMA OpenFailsKeeps ==
  ASSUME FreshInv, PublicationInv', NEW r \in Readers, OpenFails(r) PROVE FreshInv'
<1> DEFINE a == [outcome |-> "noindex", start |-> reader[r].start, rows |-> None]
           c == IF conn[r] = None THEN None ELSE [conn[r] EXCEPT !.open = FALSE]
<1>1. /\ conn' = [conn EXCEPT ![r] = c]
      /\ answer' = [answer EXCEPT ![r] = a]
      /\ reader' = [reader EXCEPT ![r] = IdleQuery]
      /\ UNCHANGED <<rmVars, snap, mutex, now, until>>
  BY DEF OpenFails, Finish, Moves
<1>2. a \in Answer /\ AnswerSound(a) /\ mutex' \in Readers \cup {None}
  BY <1>1 DEF Answer, AnswerSound, Query, FreshInv, StoreTypeOK, ReaderInv, QuerySound
<1>3. c \in Connection \cup {None} /\ ConnSound(c)
  BY DEF Connection, ConnSound, FreshInv, StoreTypeOK, ReaderInv
<1> HIDE DEF a, c
<1>4. QED
  BY <1>1, <1>2, <1>3, EndKeeps

LEMMA ServerCrashKeeps ==
  ASSUME FreshInv, PublicationInv', ServerCrash PROVE FreshInv'
<1>1. IdleQuery \in Query /\ QuerySound(IdleQuery)
  BY DEF IdleQuery, Query, QuerySound, FreshInv, StoreTypeOK
<1>2. /\ reader' = [r \in Readers |-> IdleQuery]
      /\ conn' = [r \in Readers |-> None]
      /\ snap' = None /\ mutex' = None
      /\ UNCHANGED <<dataset, place, answer, now, until>>
  BY DEF ServerCrash, CrashOf, files
<1>3. StoreTypeOK'
  BY <1>1, <1>2 DEF FreshInv, PublicationInv, StoreTypeOK
<1>4. \A r \in Readers : QuerySound(reader'[r]) /\ ConnSound(conn'[r])
  BY <1>1, <1>2 DEF ConnSound
<1>5. QED
  BY <1>2, <1>3, <1>4, QuietKeeps

LEMMA IngestCrashKeeps ==
  ASSUME FreshInv, PublicationInv', NEW i \in Ingests, IngestCrash(i) PROVE FreshInv'
<1>1. UNCHANGED <<dataset, place, snap, mutex, reader, conn, answer, now, until>>
  BY DEF IngestCrash, CrashOf, storeVars, files
<1>2. StoreTypeOK'
  BY <1>1 DEF FreshInv, PublicationInv, StoreTypeOK
<1>3. QED
  BY <1>1, <1>2, QuietKeeps

----------------------------------------------------------------------------
(* Time and publication.                                                   *)

LEMMA TickKeeps == ASSUME FreshInv, PublicationInv', Tick PROVE FreshInv'
<1>1. /\ now \in Nat /\ now' = now + 1
      /\ UNCHANGED <<dataset, place, until, snap, mutex, reader, conn, answer>>
  BY DEF Tick, rmVars, FreshInv, StoreTypeOK
<1>2. StoreTypeOK'
  BY <1>1 DEF FreshInv, PublicationInv, StoreTypeOK
<1>3. UntilInv'
  BY <1>1 DEF FreshInv, StoreTypeOK, UntilInv
<1>4. SnapInv'
  BY <1>1 DEF FreshInv, StoreTypeOK, SnapInv, InPlaceSince, Snapshot
<1>5. ASSUME NEW r \in Readers
      PROVE  QuerySound(reader[r])' /\ ConnSound(conn[r])' /\ AnswerSound(answer[r])'
  <2>1. /\ QuerySound(reader[r]) /\ ConnSound(conn[r]) /\ AnswerSound(answer[r])
        /\ reader[r] \in Query /\ answer[r] \in Answer
    BY DEF FreshInv, StoreTypeOK, ReaderInv
  <2>2. QuerySound(reader[r])'
    BY <1>1, <2>1 DEF QuerySound, InPlaceSince, Query
  <2>3. ConnSound(conn[r])'
    BY <1>1, <2>1 DEF ConnSound
  <2>4. AnswerSound(answer[r])'
    BY <1>1, <2>1 DEF AnswerSound, InPlaceSince, Answer
  <2>5. QED
    BY <2>2, <2>3, <2>4
<1>6. QED
  BY <1>2, <1>3, <1>4, <1>5 DEF FreshInv, ReaderInv

(* An ingest either leaves the dataset or puts a version in place that has *)
(* not been published before; until then the old one was in place.         *)
Replaces(w) ==
  /\ w \in Versions \ {dataset}
  /\ place[w] = 0
  /\ dataset' = w
  /\ place' = [place EXCEPT ![w] = place[dataset] + 1]
  /\ until' = [until EXCEPT ![dataset] = now]

LEMMA IngestEffect ==
  ASSUME FreshInv, NEW i \in Ingests, Ingest(i)
  PROVE  UNCHANGED <<dataset, place, until>> \/ Replaces(build[i].version)
<1>1. CASE Rename(i)
  <2>1. i \in Actors
    BY DEF Actors
  <2>2. build[i].version \in Versions /\ place[build[i].version] = 0
          /\ place[dataset] > 0
    BY <1>1, <2>1 DEF Rename, FreshInv, PublicationInv, TypeOK, PlaceInv
  <2>3. dataset' = build[i].version
          /\ place' = [place EXCEPT ![build[i].version] = place[dataset] + 1]
    BY <1>1 DEF Rename
  <2>4. build[i].version # dataset
    BY <2>2
  <2>5. until' = [until EXCEPT ![dataset] = now]
    BY <2>3, <2>4 DEF Ingest
  <2>6. QED
    BY <2>2, <2>3, <2>4, <2>5 DEF Replaces
<1>2. CASE ~Rename(i)
  <2>1. UNCHANGED <<dataset, place>>
    BY <1>2 DEF Ingest, IngestStep, WriteTemp, Materialize, Stat, Check, Acquire,
                LockTimeout, ReadDataset, Publish, Cleanup, WriteManifest, BuildFails,
                files, history
  <2>2. QED
    BY <2>1 DEF Ingest
<1>3. QED
  BY <1>1, <1>2

(* What was in place since t still was, whatever replaces it now.          *)
LEMMA ReplacedLater ==
  ASSUME FreshInv, NEW w, Replaces(w), NEW v \in Versions, NEW t \in Int,
         t <= now, InPlaceSince(v, t)
  PROVE  /\ place'[v] = place[v]
         /\ place'[v] > 0
         /\ v = dataset' \/ until'[v] >= t
<1>1. place \in [Versions -> Nat] /\ until \in [Versions -> Nat] /\ now \in Nat
  BY DEF FreshInv, PublicationInv, TypeOK, StoreTypeOK
<1>2. v # w /\ place[v] > 0 /\ (v = dataset \/ until[v] >= t)
  BY <1>1 DEF Replaces, InPlaceSince
<1>3. place'[v] = place[v]
  BY <1>1, <1>2 DEF Replaces
<1>4. until'[v] >= t
  BY <1>1, <1>2 DEF Replaces
<1>5. QED
  BY <1>2, <1>3, <1>4

LEMMA ReplacesKeeps ==
  ASSUME FreshInv, PublicationInv', NEW w, Replaces(w),
         UNCHANGED <<now, snap, mutex, reader, conn, answer>>
  PROVE  FreshInv'
<1>1. /\ place \in [Versions -> Nat] /\ until \in [Versions -> Nat] /\ now \in Nat
      /\ dataset \in Versions
      /\ \A v \in Versions :
           place[v] <= place[dataset] /\ (place[v] = place[dataset] => v = dataset)
      /\ \A v \in Versions : until[v] <= now
  BY DEF FreshInv, PublicationInv, TypeOK, StoreTypeOK, PlaceInv, UntilInv
<1>2. /\ w \in Versions /\ w # dataset /\ dataset' = w
      /\ until' \in [Versions -> Nat]
      /\ until'[dataset] = now /\ place'[w] = place[dataset] + 1
      /\ \A v \in Versions : v # dataset => until'[v] = until[v]
      /\ \A v \in Versions : v # w => place'[v] = place[v]
  BY <1>1 DEF Replaces
<1>3. StoreTypeOK'
  BY <1>2 DEF FreshInv, PublicationInv, StoreTypeOK
<1>4. UntilInv'
  <2>1. \A v \in Versions : until'[v] <= now
    BY <1>1, <1>2
  <2>2. ASSUME NEW v \in Versions, NEW u \in Versions,
               u # w, place'[v] <= place'[u]
        PROVE  until'[v] <= until'[u]
    <3>1. v # w /\ place[v] <= place[u]
      BY <1>1, <1>2, <2>2
    <3>2. CASE u = dataset
      BY <1>2, <2>1, <3>2
    <3>3. CASE u # dataset
      <4>1. v # dataset
        BY <1>1, <3>1, <3>3
      <4>2. until[v] <= until[u]
        BY <3>1, <3>3 DEF FreshInv, UntilInv
      <4>3. QED
        BY <1>2, <3>3, <4>1, <4>2
    <3>4. QED
      BY <3>2, <3>3
  <2>3. QED
    BY <1>2, <2>1, <2>2 DEF UntilInv
<1>5. SnapInv'
  <2>1. SUFFICES ASSUME snap # None
                 PROVE  InPlaceSince(snap.version, snap.at)' /\ snap.at <= now
    BY DEF SnapInv
  <2>2. InPlaceSince(snap.version, snap.at) /\ snap.at \in Int /\ snap.at <= now
          /\ snap.version \in Versions
    BY <2>1 DEF FreshInv, SnapInv, StoreTypeOK, Snapshot
  <2>3. QED
    BY <2>2, ReplacedLater DEF InPlaceSince
<1>6. ASSUME NEW r \in Readers
      PROVE  QuerySound(reader[r])' /\ ConnSound(conn[r])' /\ AnswerSound(answer[r])'
  <2>1. /\ QuerySound(reader[r]) /\ ConnSound(conn[r]) /\ AnswerSound(answer[r])
        /\ reader[r] \in Query /\ answer[r] \in Answer
        /\ conn[r] \in Connection \cup {None}
    BY DEF FreshInv, StoreTypeOK, ReaderInv
  <2>2. reader[r].start \in Int /\ reader[r].start - Recheck \in Int
          /\ reader[r].start <= now /\ reader[r].start - Recheck <= now
    BY <1>1, <2>1, StoreTypes DEF QuerySound, Query
  <2>3. reader[r].pc \in {"enter", "build", "store"}
          => InPlaceSince(reader[r].version, reader[r].start)'
    <3>1. SUFFICES ASSUME reader[r].pc \in {"enter", "build", "store"}
                   PROVE  InPlaceSince(reader[r].version, reader[r].start)'
      OBVIOUS
    <3>2. InPlaceSince(reader[r].version, reader[r].start)
            /\ reader[r].version \in Versions
      BY <2>1, <3>1 DEF QuerySound, InPlaceSince
    <3>3. QED
      BY <2>2, <3>2, ReplacedLater DEF InPlaceSince
  <2>4. reader[r].pc = "connect"
          => InPlaceSince(reader[r].version, reader[r].start - Recheck)'
    <3>1. SUFFICES ASSUME reader[r].pc = "connect"
                   PROVE  InPlaceSince(reader[r].version, reader[r].start - Recheck)'
      OBVIOUS
    <3>2. InPlaceSince(reader[r].version, reader[r].start - Recheck)
            /\ reader[r].version \in Versions
      BY <2>1, <3>1 DEF QuerySound, InPlaceSince
    <3>3. QED
      BY <2>2, <3>2, ReplacedLater DEF InPlaceSince
  <2>5. QuerySound(reader[r])'
    BY <2>2, <2>3, <2>4 DEF QuerySound
  <2>6. ConnSound(conn[r])'
    <3>1. SUFFICES ASSUME conn[r] # None
                   PROVE  0 < place'[conn[r].version]
                            /\ place'[conn[r].version] <= place'[conn[r].rows]
      BY DEF ConnSound
    <3>2. /\ conn[r].version \in Versions /\ conn[r].rows \in Versions
          /\ 0 < place[conn[r].version]
          /\ place[conn[r].version] <= place[conn[r].rows]
      BY <2>1, <3>1 DEF ConnSound, Connection
    <3>3. conn[r].version # w /\ conn[r].rows # w
      BY <1>1, <3>2 DEF Replaces
    <3>4. QED
      BY <1>2, <3>2, <3>3
  <2>7. AnswerSound(answer[r])'
    <3>1. answer[r].start \in Int /\ answer[r].start - Recheck \in Int
            /\ answer[r].start <= now /\ answer[r].start - Recheck <= now
      BY <1>1, <2>1, StoreTypes DEF AnswerSound, Answer
    <3>2. answer[r].outcome = "served"
            => InPlaceSince(answer[r].rows, answer[r].start - Recheck)'
      <4>1. SUFFICES ASSUME answer[r].outcome = "served"
                     PROVE  InPlaceSince(answer[r].rows, answer[r].start - Recheck)'
        OBVIOUS
      <4>2. InPlaceSince(answer[r].rows, answer[r].start - Recheck)
              /\ answer[r].rows \in Versions
        BY <2>1, <4>1 DEF AnswerSound, InPlaceSince
      <4>3. QED
        BY <3>1, <4>2, ReplacedLater DEF InPlaceSince
    <3>3. QED
      BY <3>1, <3>2 DEF AnswerSound
  <2>8. QED
    BY <2>5, <2>6, <2>7
<1>7. QED
  BY <1>3, <1>4, <1>5, <1>6 DEF FreshInv, ReaderInv

LEMMA IngestKeeps ==
  ASSUME FreshInv, PublicationInv', NEW i \in Ingests, Ingest(i) PROVE FreshInv'
<1>1. UNCHANGED <<now, snap, mutex, reader, conn, answer>>
  BY DEF Ingest
<1>2. CASE UNCHANGED <<dataset, place, until>>
  <2>1. StoreTypeOK'
    BY <1>1, <1>2 DEF FreshInv, PublicationInv, StoreTypeOK
  <2>2. QED
    BY <1>1, <1>2, <2>1, QuietKeeps
<1>3. CASE Replaces(build[i].version)
  BY <1>1, <1>3, ReplacesKeeps
<1>4. QED
  BY <1>2, <1>3, IngestEffect

----------------------------------------------------------------------------
LEMMA StoreStepKeeps == FreshInv /\ [StoreNext]_vars => FreshInv'
<1> SUFFICES ASSUME FreshInv, [StoreNext]_vars PROVE FreshInv'
  OBVIOUS
<1>1. PublicationInv'
  BY StoreStepImplements, StepKeeps DEF FreshInv
<1>2. CASE UNCHANGED vars
  <2>1. StoreTypeOK'
    BY <1>1, <1>2 DEF vars, storeVars, FreshInv, PublicationInv, StoreTypeOK
  <2>2. QED
    BY <1>1, <1>2, <2>1, QuietKeeps DEF vars, rmVars, storeVars
<1>3. CASE Tick \/ ServerCrash
  BY <1>1, <1>3, TickKeeps, ServerCrashKeeps
<1>4. ASSUME NEW r \in Readers, BeginQuery(r) \/ ReaderStep(r) PROVE FreshInv'
  BY <1>1, <1>4, BeginQueryKeeps, StatDatasetKeeps, EnterKeeps, BuildStepKeeps,
     BuiltKeeps, BuildRaisedKeeps, StoreSnapshotKeeps, ReuseKeeps, OpenKeeps,
     OpenFailsKeeps
     DEF ReaderStep
<1>5. ASSUME NEW i \in Ingests, Ingest(i) \/ IngestCrash(i) PROVE FreshInv'
  BY <1>1, <1>5, IngestKeeps, IngestCrashKeeps
<1>6. QED
  BY <1>2, <1>3, <1>4, <1>5 DEF StoreNext

(* The invariant of the store holds in every behaviour of its threads and  *)
(* the ingests.                                                            *)
THEOREM StoreFresh == StoreSpec => []FreshInv
BY InitFresh, StoreStepKeeps, PTL DEF StoreSpec

(* The snapshot, the queries and the connections of the store keep their   *)
(* types.                                                                  *)
THEOREM StoreTyped == StoreSpec => []StoreTypeOK
<1>1. FreshInv => StoreTypeOK
  BY DEF FreshInv
<1>2. QED
  BY <1>1, StoreFresh, PTL

(* No query is answered from a dataset that had been replaced more than    *)
(* the recheck interval before the query began.                            *)
THEOREM ServedIsFresh == StoreSpec => []ServedFresh
<1>1. FreshInv => ServedFresh
  BY DEF FreshInv, ReaderInv, AnswerSound, InPlaceSince, ServedFresh
<1>2. QED
  BY <1>1, StoreFresh, PTL
----------------------------------------------------------------------------
(* Who holds the snapshot lock.                                            *)

LEMMA LockInit == StoreInit => SnapshotLockAtWork
BY NoneFacts DEF StoreInit, Init, SnapshotLockAtWork, IdleQuery, IdleBuild, Resting, Actors

(* What ingests and other threads do leaves the builder of a thread alone. *)
LEMMA BuilderStays ==
  ASSUME FreshInv, NEW a \in Actors, NEW b \in Actors, a # b,
         Call(a) \/ Materialize(a) \/ WriteTemp(a) \/ Rename(a)
  PROVE  build'[b] = build[b]
<1>1. build \in [Actors -> Build]
  BY DEF FreshInv, PublicationInv, TypeOK
<1>2. QED
  BY <1>1 DEF Call, Materialize, WriteTemp, Rename, Stat, Check, Acquire, LockTimeout,
              ReadDataset, Publish, Cleanup, WriteManifest, BuildFails, Goes

(* The steps of one thread: the others do not move.                        *)
LEMMA LockThreadKeeps ==
  ASSUME FreshInv, SnapshotLockAtWork, NEW r \in Readers, BeginQuery(r) \/ ReaderStep(r)
  PROVE  SnapshotLockAtWork'
<1>1. /\ reader \in [Readers -> Query]
      /\ build \in [Actors -> Build]
      /\ mutex \in Readers \cup {None}
      /\ r \in Actors /\ None \notin Readers
  BY NoneFacts DEF FreshInv, StoreTypeOK, PublicationInv, TypeOK, Actors
<1>2. \A q \in Readers : q # r => reader'[q] = reader[q] /\ build'[q] = build[q]
  <2> SUFFICES ASSUME NEW q \in Readers, q # r
               PROVE  reader'[q] = reader[q] /\ build'[q] = build[q]
    OBVIOUS
  <2>0. q \in Actors
    BY DEF Actors
  <2>1. CASE BeginQuery(r) \/ StatDataset(r) \/ Built(r) \/ BuildRaised(r)
             \/ StoreSnapshot(r) \/ Reuse(r) \/ Open(r) \/ OpenFails(r)
    BY <1>1, <2>1 DEF BeginQuery, StatDataset, Built, BuildRaised, StoreSnapshot, Reuse,
                      Open, OpenFails, Finish, Moves, rmVars
  <2>2. CASE Enter(r)
    <3>1. reader'[q] = reader[q]
      BY <1>1, <2>2 DEF Enter, Moves
    <3>2. UNCHANGED rmVars \/ Call(r)
      BY <2>2 DEF Enter
    <3>3. QED
      BY <1>1, <2>0, <3>1, <3>2, BuilderStays DEF rmVars
  <2>3. CASE BuildStep(r)
    BY <1>1, <2>0, <2>3, BuilderStays DEF BuildStep, storeVars
  <2>4. QED
    BY <2>1, <2>2, <2>3 DEF ReaderStep
<1>3. CASE BeginQuery(r) \/ StatDataset(r) \/ Reuse(r) \/ Open(r) \/ OpenFails(r)
  <2>1. reader[r].pc \notin {"build", "store"} /\ UNCHANGED <<mutex, build>>
    BY <1>3 DEF BeginQuery, StatDataset, Reuse, Open, OpenFails, Finish, rmVars
  <2>2. CASE BeginQuery(r)
    BY <1>1, <1>2, <2>1, <2>2 DEF BeginQuery, Moves, SnapshotLockAtWork
  <2>3. CASE StatDataset(r)
    <3>1. reader'[r].pc = "enter"
      BY <1>1, <2>3 DEF StatDataset, Moves, Query
    <3>2. QED
      BY <1>2, <2>1, <3>1 DEF SnapshotLockAtWork
  <2>4. CASE Reuse(r) \/ Open(r) \/ OpenFails(r)
    <3>1. Moves(r, IdleQuery)
      BY <2>4 DEF Reuse, Open, OpenFails, Finish
    <3>2. reader'[r].pc = "idle"
      BY <1>1, <3>1 DEF Moves, IdleQuery
    <3>3. QED
      BY <1>2, <2>1, <3>2 DEF SnapshotLockAtWork
  <2>5. QED
    BY <1>3, <2>2, <2>3, <2>4
<1>4. CASE Enter(r)
  <2>1. mutex = None /\ reader[r].pc = "enter" /\ mutex' \in {None, r}
    BY <1>4 DEF Enter
  <2> DEFINE exists == index[reader[r].version] # None
             cached == Recent(reader[r].start) /\ snap.version = reader[r].version /\ exists
             pc == IF cached THEN "connect" ELSE IF exists THEN "store" ELSE "build"
  <2>a. /\ mutex' = (IF cached THEN None ELSE r)
        /\ Moves(r, [reader[r] EXCEPT !.pc = pc])
        /\ IF cached \/ exists THEN UNCHANGED rmVars ELSE Call(r)
    BY <1>4 DEF Enter
  <2>b. reader'[r].pc = pc
    BY <1>1, <2>a DEF Moves, Query
  <2>2. mutex' = r <=> reader'[r].pc \in {"build", "store"}
    BY <1>1, <2>a, <2>b
  <2>3. /\ reader'[r].pc = "build" => build'[r].pc = "stat"
        /\ reader'[r].pc # "build" => build' = build
    <3>1. CASE Call(r)
      BY <1>1, <2>a, <2>b, <3>1 DEF Call, Ended, IdleBuild, rmVars
    <3>2. CASE cached \/ exists
      BY <2>a, <2>b, <3>2 DEF rmVars
    <3>3. QED
      BY <2>a, <3>1, <3>2
  <2>4. build[r].pc \in Resting
    BY <2>1 DEF SnapshotLockAtWork
  <2>5. QED
    BY <1>1, <1>2, <2>1, <2>2, <2>3, <2>4 DEF SnapshotLockAtWork
<1>5. CASE BuildStep(r)
  <2>1. reader[r].pc = "build" /\ UNCHANGED <<reader, mutex>>
    BY <1>5 DEF BuildStep, storeVars
  <2>2. build'[r].pc # "idle"
    <3>1. CASE Check(r) \/ Publish(r) \/ Cleanup(r)
      <4>1. \E pc \in {"fastmanifest", "lock", "cleanup", "manifest"} : Goes(r, pc)
        BY <3>1 DEF Check, Publish, Cleanup
      <4>2. QED
        BY <1>1, <4>1 DEF Goes, Build
    <3>2. CASE LockTimeout(r) \/ WriteManifest(r) \/ BuildFails(r)
      <4>1. \E pc \in {"raised", "returned"} : build' = [build EXCEPT ![r] = Ended(pc)]
        BY <3>2 DEF LockTimeout, WriteManifest, BuildFails
      <4>2. QED
        BY <1>1, <4>1 DEF Ended, IdleBuild
    <3>3. CASE Stat(r)
      BY <1>1, <3>3 DEF Stat, Build
    <3>4. CASE Acquire(r)
      BY <1>1, <3>4 DEF Acquire, Build
    <3>5. CASE ReadDataset(r)
      BY <1>1, <3>5 DEF ReadDataset, Build
    <3>6. QED
      BY <1>5, <3>1, <3>2, <3>3, <3>4, <3>5 DEF BuildStep, Materialize
  <2>3. QED
    BY <1>2, <2>1, <2>2 DEF SnapshotLockAtWork
<1>6. CASE Built(r)
  <2>1. /\ reader[r].pc = "build" /\ reader'[r].pc = "store"
        /\ build[r].pc \in Resting /\ UNCHANGED <<mutex, build>>
    BY <1>1, <1>6 DEF Built, Moves, Query, Resting, rmVars
  <2>2. QED
    BY <1>2, <2>1 DEF SnapshotLockAtWork
<1>7. CASE BuildRaised(r) \/ StoreSnapshot(r)
  <2>1. /\ reader[r].pc \in {"build", "store"} /\ reader'[r].pc \in {"idle", "connect"}
        /\ reader[r].pc = "build" => build[r].pc \in Resting
        /\ mutex' = None /\ UNCHANGED build
    BY <1>1, <1>7 DEF BuildRaised, StoreSnapshot, Moves, IdleQuery, Query, Resting, rmVars
  <2>2. mutex = r
    BY <2>1 DEF SnapshotLockAtWork
  <2>3. QED
    BY <1>1, <1>2, <2>1, <2>2 DEF SnapshotLockAtWork
<1>8. QED
  BY <1>3, <1>4, <1>5, <1>6, <1>7 DEF ReaderStep

LEMMA LockKeeps == FreshInv /\ SnapshotLockAtWork /\ [StoreNext]_vars => SnapshotLockAtWork'
<1> SUFFICES ASSUME FreshInv, SnapshotLockAtWork, [StoreNext]_vars PROVE SnapshotLockAtWork'
  OBVIOUS
<1>1. /\ build \in [Actors -> Build]
      /\ Readers \subseteq Actors /\ Ingests \subseteq Actors /\ Readers \cap Ingests = {}
      /\ None \notin Readers
  BY NoneFacts, ReadModelAssumption DEF FreshInv, PublicationInv, TypeOK, Actors
<1>2. ASSUME UNCHANGED <<mutex, reader>>, \A r \in Readers : build'[r] = build[r]
      PROVE  SnapshotLockAtWork'
  BY <1>2 DEF SnapshotLockAtWork
<1>3. CASE Tick \/ UNCHANGED vars
  BY <1>2, <1>3 DEF Tick, vars, rmVars, storeVars
<1>4. CASE ServerCrash
  <2>1. \A r \in Readers : build'[r].pc = "idle" /\ reader'[r].pc = "idle"
    BY <1>1, <1>4 DEF ServerCrash, CrashOf, IdleBuild, IdleQuery
  <2>2. mutex' = None
    BY <1>4 DEF ServerCrash
  <2>3. QED
    BY <1>1, <2>1, <2>2 DEF SnapshotLockAtWork, Resting
<1>5. ASSUME NEW i \in Ingests, Ingest(i) PROVE SnapshotLockAtWork'
  <2>1. \A r \in Readers : build'[r] = build[r]
    BY <1>1, <1>5, BuilderStays DEF Ingest, IngestStep
  <2>2. QED
    BY <1>2, <1>5, <2>1 DEF Ingest
<1>6. ASSUME NEW i \in Ingests, IngestCrash(i) PROVE SnapshotLockAtWork'
  <2>1. \A r \in Readers : build'[r] = build[r]
    BY <1>1, <1>6 DEF IngestCrash, CrashOf
  <2>2. QED
    BY <1>2, <1>6, <2>1 DEF IngestCrash, storeVars
<1>7. QED
  BY <1>3, <1>4, <1>5, <1>6, LockThreadKeeps DEF StoreNext

(* The snapshot lock is held by the one thread that builds or stores, and  *)
(* no thread builds without it: the threads of a server do not wait for    *)
(* one another in a circle, whoever crashes or times out.                  *)
THEOREM LockHeldAtWork == StoreSpec => []SnapshotLockAtWork
BY LockInit, LockKeeps, StoreFresh, PTL DEF StoreSpec
=============================================================================
