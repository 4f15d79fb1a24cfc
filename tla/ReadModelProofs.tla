---------------------------- MODULE ReadModelProofs ----------------------------
(***************************************************************************)
(* The publication of datasets is safe for any number of ingests, readers  *)
(* and versions: PublicationInv is inductive, and with it the properties   *)
(* of ReadModel hold.                                                      *)
(***************************************************************************)
EXTENDS ReadModelInv, TLAPS

(* What None is not, so that a file can be told from no file.              *)
LEMMA NoneFacts ==
  /\ None \notin Actors
  /\ None \notin Versions
  /\ Versions \subseteq Nat
  /\ 0 \in Versions
  /\ \A v \in Versions : v < MaxVersion => v + 1 \in Versions
BY ReadModelAssumption DEF Versions

LEMMA InitPublication == Init => PublicationInv
BY NoneFacts, ReadModelAssumption
   DEF Init, PublicationInv, TypeOK, PlaceInv, IndexInv, BuilderInv, Build,
       IdleBuild, Locked, Building

(* Build records of actors that rest or start.                             *)
LEMMA EndedFacts ==
  ASSUME NEW pc \in Resting \cup {"stat"}
  PROVE  Ended(pc) \in Build /\ Ended(pc).pc = pc
BY DEF Ended, IdleBuild, Build, Resting

LEMMA RenameFacts ==
  ASSUME NEW v \in Versions
  PROVE  LET c == [IdleBuild EXCEPT !.pc = "rename", !.version = v] IN
           c \in Build /\ c.pc = "rename" /\ c.version = v
BY DEF IdleBuild, Build

(* A step that publishes nothing and only takes actors out of the lock     *)
(* keeps the invariant: no builder is left without the lock.               *)
LEMMA LeavingKeeps ==
  ASSUME PublicationInv,
         UNCHANGED <<dataset, written, index, place>>,
         crashes' \in Nat,
         manifest' \in Versions \cup {None},
         lock' \in Actors \cup {None},
         build' \in [Actors -> Build],
         \A a \in Actors :
           \/ build'[a] = build[a]
           \/ /\ build'[a].pc \notin Locked \cup {"rename"}
              /\ build'[a].pc \in {"check", "fastmanifest", "lock"}
                   => build'[a].version \in Versions,
         \A a \in Actors : build'[a].pc \in Locked => lock' = lock
  PROVE  PublicationInv'
<1> USE NoneFacts DEF PublicationInv
<1>1. TypeOK'
  BY DEF TypeOK, Locked
<1>2. PlaceInv'
  BY DEF PlaceInv, TypeOK
<1>3. IndexInv'
  BY DEF IndexInv
<1>4. BuilderInv'
  BY DEF BuilderInv, Locked, Building
<1>5. QED
  BY <1>1, <1>2, <1>3, <1>4

LEMMA CallKeeps == ASSUME PublicationInv, NEW a \in Actors, Call(a) PROVE PublicationInv'
<1>1. build' = [build EXCEPT ![a] = Ended("stat")] /\ Ended("stat") \in Build
        /\ Ended("stat").pc = "stat"
  BY EndedFacts DEF Call
<1>2. QED
  BY <1>1, LeavingKeeps, NoneFacts
     DEF Call, PublicationInv, TypeOK, Locked, files, history

LEMMA StatKeeps == ASSUME PublicationInv, NEW a \in Actors, Stat(a) PROVE PublicationInv'
<1> DEFINE b == [build[a] EXCEPT !.pc = "check", !.version = dataset]
<1>1. build' = [build EXCEPT ![a] = b] /\ build[a] \in Build /\ dataset \in Versions
  BY DEF Stat, PublicationInv, TypeOK
<1>2. b \in Build /\ b.pc = "check" /\ b.version \in Versions
  BY <1>1 DEF Build
<1> HIDE DEF b
<1>3. QED
  BY <1>1, <1>2, LeavingKeeps, NoneFacts
     DEF Stat, PublicationInv, TypeOK, Locked, files, history

LEMMA CheckKeeps == ASSUME PublicationInv, NEW a \in Actors, Check(a) PROVE PublicationInv'
<1> DEFINE pc == IF index[build[a].version] # None THEN "fastmanifest" ELSE "lock"
           b == [build[a] EXCEPT !.pc = pc]
<1>1. build' = [build EXCEPT ![a] = b] /\ build[a] \in Build
        /\ build[a].version \in Versions
  BY DEF Check, Goes, PublicationInv, TypeOK
<1>2. pc \in {"fastmanifest", "lock"}
  OBVIOUS
<1> HIDE DEF pc
<1>3. b \in Build /\ b.pc \in {"fastmanifest", "lock"} /\ b.version \in Versions
  BY <1>1, <1>2 DEF Build
<1> HIDE DEF b
<1>4. QED
  BY <1>1, <1>3, LeavingKeeps, NoneFacts
     DEF Check, PublicationInv, TypeOK, Locked, files, history

LEMMA LockTimeoutKeeps ==
  ASSUME PublicationInv, NEW a \in Actors, LockTimeout(a) PROVE PublicationInv'
<1>1. build' = [build EXCEPT ![a] = Ended("raised")] /\ Ended("raised") \in Build
        /\ Ended("raised").pc = "raised"
  BY EndedFacts DEF LockTimeout, Resting
<1>2. QED
  BY <1>1, LeavingKeeps, NoneFacts
     DEF LockTimeout, PublicationInv, TypeOK, Locked, files, history

(* Who leaves the lock was alone in it.                                    *)
LEMMA WriteManifestKeeps ==
  ASSUME PublicationInv, NEW a \in Actors, WriteManifest(a) PROVE PublicationInv'
<1>1. build' = [build EXCEPT ![a] = Ended("returned")] /\ Ended("returned") \in Build
        /\ Ended("returned").pc = "returned"
  BY EndedFacts DEF WriteManifest, Resting
<1>2. \A c \in Actors : build'[c].pc \in Locked => lock' = lock
  BY <1>1 DEF WriteManifest, PublicationInv, TypeOK, BuilderInv, Locked
<1>3. manifest' \in Versions \cup {None}
  BY DEF WriteManifest, PublicationInv, TypeOK, Locked
<1>4. QED
  BY <1>1, <1>2, <1>3, LeavingKeeps, NoneFacts
     DEF WriteManifest, PublicationInv, TypeOK, Locked, history

LEMMA BuildFailsKeeps ==
  ASSUME PublicationInv, NEW a \in Actors, BuildFails(a) PROVE PublicationInv'
<1>1. build' = [build EXCEPT ![a] = Ended("raised")] /\ Ended("raised") \in Build
        /\ Ended("raised").pc = "raised"
  BY EndedFacts DEF BuildFails, Resting
<1>2. \A c \in Actors : build'[c].pc \in Locked => lock' = lock
  BY <1>1 DEF BuildFails, PublicationInv, TypeOK, BuilderInv, Locked
<1>3. QED
  BY <1>1, <1>2, LeavingKeeps, NoneFacts
     DEF BuildFails, PublicationInv, TypeOK, Locked, history

LEMMA CrashKeeps ==
  ASSUME PublicationInv, NEW actors, CrashOf(actors) PROVE PublicationInv'
<1>1. IdleBuild \in Build /\ IdleBuild.pc = "idle"
  BY DEF IdleBuild, Build
<1>2. QED
  BY <1>1, LeavingKeeps, NoneFacts
     DEF CrashOf, PublicationInv, TypeOK, Locked, files

----------------------------------------------------------------------------
(* The steps that publish or enter the lock, one conjunct at a time.       *)

LEMMA WriteTempKeeps ==
  ASSUME PublicationInv, NEW i \in Ingests, WriteTemp(i) PROVE PublicationInv'
<1> DEFINE b == [IdleBuild EXCEPT !.pc = "rename", !.version = written + 1]
<1>1. /\ written + 1 \in Versions
      /\ build' = [build EXCEPT ![i] = b]
      /\ written' = written + 1
      /\ i \in Actors
      /\ UNCHANGED <<dataset, index, manifest, lock, place, crashes>>
  BY NoneFacts DEF WriteTemp, PublicationInv, TypeOK, Actors, files, history
<1>2. b \in Build /\ b.pc = "rename" /\ b.version = written + 1
  BY <1>1, RenameFacts
<1> HIDE DEF b
<1> USE <1>1, <1>2, NoneFacts DEF PublicationInv, TypeOK
<1>3. TypeOK'
  BY DEF Locked
<1>4. PlaceInv'
  <2>1. /\ \A v \in Versions :
             /\ place'[v] <= place'[dataset']
             /\ place'[v] = place'[dataset'] => v = dataset'
             /\ v > written' => place'[v] = 0
        /\ place'[dataset'] > 0
    BY DEF PlaceInv
  <2>2. place[written + 1] = 0
    BY DEF PlaceInv
  <2>3. \A a \in Actors : a # i => build'[a] = build[a]
    OBVIOUS
  <2>4. build'[i] = b
    OBVIOUS
  <2>5. \A a \in Actors : a # i /\ build'[a].pc = "rename" =>
          /\ build'[a] = build[a]
          /\ place[build[a].version] = 0
          /\ build[a].version \in Nat
          /\ build[a].version <= written
    BY <2>3 DEF PlaceInv
  <2>6. ASSUME NEW a \in Actors, build'[a].pc = "rename"
        PROVE  place'[build'[a].version] = 0 /\ build'[a].version <= written'
    <3>1. place' = place /\ written' = written + 1 /\ written \in Nat
      OBVIOUS
    <3>2. CASE a = i
      BY <2>2, <2>4, <3>1, <3>2
    <3>3. CASE a # i
      <4>1. \A v \in Nat : v <= written => v <= written + 1
        BY <3>1
      <4>2. QED
        BY <2>5, <2>6, <3>1, <3>3, <4>1
    <3>4. QED
      BY <3>2, <3>3
  <2>7. \A a, c \in Actors : build'[a].pc = "rename" /\ build'[c].pc = "rename" =>
          a = c \/ build'[a].version # build'[c].version
    <3>1. \A a, c \in Actors : a # i /\ c # i
            /\ build'[a].pc = "rename" /\ build'[c].pc = "rename" =>
            a = c \/ build'[a].version # build'[c].version
      BY <2>3 DEF PlaceInv
    <3>2. \A v \in Nat : v <= written => v # written + 1
      OBVIOUS
    <3>3. QED
      BY <2>4, <2>5, <3>1, <3>2
  <2>8. QED
    BY <2>1, <2>6, <2>7 DEF PlaceInv
<1>5. IndexInv'
  BY DEF IndexInv
<1>6. BuilderInv'
  BY DEF BuilderInv, Locked, Building
<1>7. QED
  BY <1>3, <1>4, <1>5, <1>6

LEMMA RenameKeeps ==
  ASSUME PublicationInv, NEW i \in Ingests, Rename(i) PROVE PublicationInv'
<1> DEFINE w == build[i].version
<1>1. /\ build' = [build EXCEPT ![i] = Ended("stat")]
      /\ Ended("stat") \in Build
      /\ Ended("stat").pc = "stat"
      /\ i \in Actors
  BY EndedFacts DEF Rename, Actors
<1>2. /\ w \in Versions
      /\ place[w] = 0
      /\ w <= written
      /\ dataset' = w
      /\ place' = [place EXCEPT ![w] = place[dataset] + 1]
      /\ UNCHANGED <<written, index, manifest, lock, crashes>>
  BY <1>1 DEF Rename, PublicationInv, TypeOK, PlaceInv
<1>3. \A a \in Actors : a # i /\ build[a].pc = "rename" => build[a].version # w
  BY <1>1 DEF Rename, PublicationInv, PlaceInv
<1> HIDE DEF w
<1>4. place' \in [Versions -> Nat] /\ place'[w] = place[dataset] + 1
        /\ \A v \in Versions : v # w => place'[v] = place[v]
  BY <1>2 DEF PublicationInv, TypeOK
<1>5. \A v \in Versions : place[v] <= place[dataset]
        /\ place[v] \in Nat /\ place[dataset] \in Nat
  BY DEF PublicationInv, TypeOK, PlaceInv
<1>6. \A v \in Versions : place[v] <= place'[v]
  BY <1>2, <1>4, <1>5
<1>7. TypeOK'
  BY <1>1, <1>2, <1>4 DEF PublicationInv, TypeOK, Locked
<1>8. PlaceInv'
  <2>1. \A v \in Versions :
          /\ place'[v] <= place'[dataset']
          /\ place'[v] = place'[dataset'] => v = dataset'
          /\ v > written' => place'[v] = 0
    BY <1>2, <1>4, <1>5, NoneFacts DEF PublicationInv, TypeOK, PlaceInv
  <2>2. place'[dataset'] > 0
    BY <1>2, <1>4, <1>5
  <2>3. \A a \in Actors : build'[a].pc = "rename" =>
          /\ a # i
          /\ build'[a] = build[a]
          /\ build[a].version \in Versions \ {w}
    BY <1>1, <1>3 DEF PublicationInv, TypeOK
  <2>4. \A a \in Actors : build'[a].pc = "rename" =>
          place'[build'[a].version] = 0 /\ build'[a].version <= written'
    BY <2>3, <1>2, <1>4 DEF PublicationInv, PlaceInv
  <2>5. \A a, b \in Actors : build'[a].pc = "rename" /\ build'[b].pc = "rename" =>
          a = b \/ build'[a].version # build'[b].version
    BY <2>3 DEF PublicationInv, PlaceInv
  <2>6. QED
    BY <2>1, <2>2, <2>4, <2>5 DEF PlaceInv
<1>9. \A v \in Versions : index[v] # None =>
        v # w /\ index[v] \in Versions /\ place[v] <= place[index[v]] /\ 0 < place[v]
  BY <1>2 DEF PublicationInv, TypeOK, IndexInv
<1>10. IndexInv'
  BY <1>2, <1>4, <1>5, <1>6, <1>9 DEF IndexInv
<1>11. \A a \in Actors : build'[a].pc \in Locked =>
         /\ build'[a] = build[a]
         /\ build[a].version \in Versions \ {w}
         /\ lock = a
         /\ place[build[a].version] > 0
  BY <1>1, <1>2 DEF PublicationInv, TypeOK, BuilderInv, Locked
<1>12. BuilderInv'
  <2>1. ASSUME NEW a \in Actors, build'[a].pc = "publish"
        PROVE  place'[build'[a].version] <= place'[build'[a].content]
    <3>1. build'[a] = build[a] /\ build[a].version \in Versions \ {w}
      BY <2>1, <1>11 DEF Locked
    <3>2. build[a].content \in Versions
            /\ place[build[a].version] <= place[build[a].content]
      BY <2>1, <3>1 DEF PublicationInv, TypeOK, BuilderInv
    <3>3. QED
      BY <3>1, <3>2, <1>4, <1>5, <1>6
  <2>2. ASSUME NEW a \in Actors, build'[a].pc \in Building,
               NEW v \in Versions, index'[v] # None
        PROVE  place'[v] <= place'[build'[a].version]
    <3>1. build'[a] = build[a] /\ build[a].version \in Versions \ {w}
      BY <2>2, <1>11 DEF Locked, Building
    <3>2. index[v] # None /\ v # w
      BY <2>2, <1>2, <1>9
    <3>3. place[v] <= place[build[a].version]
      BY <2>2, <3>1, <3>2 DEF PublicationInv, BuilderInv
    <3>4. QED
      BY <3>1, <3>2, <3>3, <1>4
  <2>3. \A a \in Actors : build'[a].pc \in Locked =>
          lock' = a /\ place'[build'[a].version] > 0
    BY <1>11, <1>2, <1>4
  <2>4. QED
    BY <2>1, <2>2, <2>3 DEF BuilderInv
<1>13. QED
  BY <1>7, <1>8, <1>10, <1>12 DEF PublicationInv

(* Under the lock the dataset is looked at again: of the published         *)
(* versions it is the last, so no index is newer.                          *)
LEMMA AcquireKeeps ==
  ASSUME PublicationInv, NEW a \in Actors, Acquire(a) PROVE PublicationInv'
<1> DEFINE pc == IF index[dataset] # None THEN "manifest" ELSE "read"
           b == [build[a] EXCEPT !.pc = pc, !.version = dataset]
<1>1. /\ build' = [build EXCEPT ![a] = b]
      /\ build[a] \in Build
      /\ dataset \in Versions
      /\ lock = None /\ lock' = a
      /\ UNCHANGED <<dataset, index, manifest, written, place, crashes>>
  BY DEF Acquire, history, PublicationInv, TypeOK
<1>2. pc \in {"manifest", "read"}
  OBVIOUS
<1> HIDE DEF pc
<1>3. b \in Build /\ b.pc \in {"manifest", "read"} /\ b.version = dataset
  BY <1>1, <1>2 DEF Build, Locked
<1> HIDE DEF b
<1> USE <1>1, <1>3, NoneFacts DEF PublicationInv
<1>4. TypeOK'
  BY DEF TypeOK, Locked
<1>5. PlaceInv'
  BY DEF PlaceInv, TypeOK
<1>6. IndexInv'
  BY DEF IndexInv
<1>7. \A c \in Actors : c # a => build'[c] = build[c] /\ build[c].pc \notin Locked
  BY DEF BuilderInv, TypeOK
<1>8. build'[a] = b
  BY DEF TypeOK
<1>9. place[dataset] > 0 /\ \A v \in Versions : place[v] <= place[dataset]
  BY DEF PlaceInv
<1>10. BuilderInv'
  BY <1>7, <1>8, <1>9 DEF BuilderInv, Locked, Building
<1>11. QED
  BY <1>4, <1>5, <1>6, <1>10

(* What is read is the dataset as it is by now: not older than the version *)
(* the index will be named after.                                          *)
LEMMA ReadDatasetKeeps ==
  ASSUME PublicationInv, NEW a \in Actors, ReadDataset(a) PROVE PublicationInv'
<1> DEFINE b == [build[a] EXCEPT !.pc = "publish", !.content = dataset]
<1>1. /\ build' = [build EXCEPT ![a] = b]
      /\ build[a] \in Build /\ build[a].pc = "read"
      /\ build[a].version \in Versions
      /\ dataset \in Versions
      /\ UNCHANGED <<dataset, index, manifest, lock, written, place, crashes>>
  BY DEF ReadDataset, history, files, PublicationInv, TypeOK, Locked
<1>2. b \in Build /\ b.pc = "publish" /\ b.version = build[a].version
        /\ b.content = dataset
  BY <1>1 DEF Build, Locked
<1> HIDE DEF b
<1> USE <1>1, <1>2, NoneFacts DEF PublicationInv
<1>3. TypeOK'
  BY DEF TypeOK, Locked
<1>4. PlaceInv'
  BY DEF PlaceInv, TypeOK
<1>5. IndexInv'
  BY DEF IndexInv
<1>6. BuilderInv'
  BY DEF BuilderInv, Locked, Building, TypeOK, PlaceInv
<1>7. QED
  BY <1>3, <1>4, <1>5, <1>6

LEMMA PublishKeeps ==
  ASSUME PublicationInv, NEW a \in Actors, Publish(a) PROVE PublicationInv'
<1> DEFINE b == [build[a] EXCEPT !.pc = "cleanup"]
           w == build[a].version
<1>1. /\ build' = [build EXCEPT ![a] = b]
      /\ build[a] \in Build /\ build[a].pc = "publish"
      /\ w \in Versions /\ build[a].content \in Versions
      /\ index' = [index EXCEPT ![w] = build[a].content]
      /\ UNCHANGED <<dataset, manifest, lock, written, place, crashes>>
  BY DEF Publish, Goes, history, PublicationInv, TypeOK, Locked
<1>2. b \in Build /\ b.pc = "cleanup" /\ b.version = w /\ b.content = build[a].content
  BY <1>1 DEF Build, Locked
<1> HIDE DEF b
<1>3. /\ lock = a
      /\ 0 < place[w] /\ place[w] <= place[build[a].content]
      /\ \A v \in Versions : index[v] # None => place[v] <= place[w]
  BY <1>1 DEF PublicationInv, BuilderInv, Locked, Building
<1> HIDE DEF w
<1> USE <1>1, <1>2, <1>3, NoneFacts DEF PublicationInv
<1>4. TypeOK'
  BY DEF TypeOK, Locked
<1>5. PlaceInv'
  BY DEF PlaceInv, TypeOK
<1>6. IndexInv'
  BY DEF IndexInv, TypeOK
<1>7. \A c \in Actors : c # a => build'[c] = build[c] /\ build[c].pc \notin Locked
  BY DEF BuilderInv, TypeOK
<1>8. build'[a] = b
  BY DEF TypeOK
<1>9. \A v \in Versions : index'[v] # None => place[v] <= place[w]
  BY DEF TypeOK
<1>10. BuilderInv'
  BY <1>7, <1>8, <1>9 DEF BuilderInv, Locked, Building
<1>11. QED
  BY <1>4, <1>5, <1>6, <1>10

LEMMA CleanupKeeps ==
  ASSUME PublicationInv, NEW a \in Actors, Cleanup(a) PROVE PublicationInv'
<1> DEFINE b == [build[a] EXCEPT !.pc = "manifest"]
<1>1. /\ build' = [build EXCEPT ![a] = b]
      /\ build[a] \in Build /\ build[a].pc = "cleanup"
      /\ build[a].version \in Versions
      /\ index' \in [Versions -> Versions \cup {None}]
      /\ \A v \in Versions : index'[v] # None => index'[v] = index[v]
      /\ UNCHANGED <<dataset, manifest, lock, written, place, crashes>>
  BY DEF Cleanup, Goes, history, PublicationInv, TypeOK, Locked
<1>2. b \in Build /\ b.pc = "manifest" /\ b.version = build[a].version
  BY <1>1 DEF Build, Locked
<1> HIDE DEF b
<1> USE <1>1, <1>2, NoneFacts DEF PublicationInv
<1>3. TypeOK'
  BY DEF TypeOK, Locked
<1>4. PlaceInv'
  BY DEF PlaceInv, TypeOK
<1>5. IndexInv'
  BY DEF IndexInv
<1>6. BuilderInv'
  BY DEF BuilderInv, Locked, Building, TypeOK
<1>7. QED
  BY <1>3, <1>4, <1>5, <1>6

----------------------------------------------------------------------------
LEMMA StepKeeps == PublicationInv /\ [Next]_rmVars => PublicationInv'
<1> SUFFICES ASSUME PublicationInv, [Next]_rmVars PROVE PublicationInv'
  OBVIOUS
<1>1. CASE UNCHANGED rmVars
  BY <1>1 DEF rmVars, PublicationInv, TypeOK, PlaceInv, IndexInv, BuilderInv
<1>2. ASSUME NEW a \in Actors, Call(a) \/ Materialize(a) PROVE PublicationInv'
  BY <1>2, CallKeeps, StatKeeps, CheckKeeps, AcquireKeeps, LockTimeoutKeeps,
     ReadDatasetKeeps, PublishKeeps, CleanupKeeps, WriteManifestKeeps,
     BuildFailsKeeps
     DEF Materialize
<1>3. ASSUME NEW i \in Ingests, WriteTemp(i) \/ Rename(i) PROVE PublicationInv'
  BY <1>3, WriteTempKeeps, RenameKeeps
<1>4. ASSUME NEW actors \in Processes, CrashOf(actors) PROVE PublicationInv'
  BY <1>4, CrashKeeps
<1>5. QED
  BY <1>1, <1>2, <1>3, <1>4 DEF Next

(* The invariant of the publication holds in every behaviour of ingests    *)
(* and readers, whatever dies and fails.                                   *)
THEOREM PublicationSafe == Spec => []PublicationInv
BY InitPublication, StepKeeps, PTL DEF Spec

(* materialize_dataset_read_model keeps its files and its local variables  *)
(* within their types.                                                     *)
THEOREM ReadModelTyped == Spec => []TypeOK
<1>1. PublicationInv => TypeOK
  BY DEF PublicationInv
<1>2. QED
  BY <1>1, PublicationSafe, PTL

(* An index never holds rows of an older dataset than its name says.       *)
THEOREM IndexIsNotOlder == Spec => []IndexNotOlder
<1>1. PublicationInv => IndexNotOlder
  BY DEF PublicationInv, IndexInv, IndexNotOlder
<1>2. QED
  BY <1>1, PublicationSafe, PTL

(* The lock file lets one actor at a time build and clean up.              *)
THEOREM OnlyOneBuilder == Spec => []OneBuilder
<1>1. PublicationInv => OneBuilder
  BY DEF PublicationInv, BuilderInv, OneBuilder
<1>2. QED
  BY <1>1, PublicationSafe, PTL

(* The index of the dataset in place stays: no index is newer than the     *)
(* cleaner's, so one whose dataset is still in place is the cleaner's own. *)
LEMMA StepKeepsCurrent ==
  PublicationInv /\ [Next]_rmVars =>
    [index[dataset] # None => dataset' # dataset \/ index'[dataset] # None]_rmVars
<1> SUFFICES ASSUME PublicationInv, Next, index[dataset] # None, dataset' = dataset
             PROVE  index'[dataset] # None
  BY DEF Next, rmVars
<1>1. CASE UNCHANGED index
  BY <1>1
<1>2. ASSUME NEW a \in Actors, Publish(a) PROVE index'[dataset] # None
  BY <1>2, NoneFacts DEF Publish, PublicationInv, TypeOK, Locked
<1>3. ASSUME NEW a \in Actors, Cleanup(a) PROVE index'[dataset] # None
  <2>1. build[a].pc = "cleanup" /\ build[a].version \in Versions /\ dataset \in Versions
    BY <1>3 DEF Cleanup, PublicationInv, TypeOK, Locked
  <2>2. place[dataset] <= place[build[a].version]
    BY <2>1 DEF PublicationInv, BuilderInv, Building
  <2>3. build[a].version = dataset
    BY <2>1, <2>2 DEF PublicationInv, PlaceInv, TypeOK
  <2>4. QED
    BY <1>3, <2>1, <2>3 DEF Cleanup
<1>4. QED
  BY <1>1, <1>2, <1>3
     DEF Next, Call, Materialize, Stat, Check, Acquire, LockTimeout, ReadDataset,
         WriteManifest, BuildFails, WriteTemp, Rename, CrashOf, files

(* The cleanup of a late builder never removes the index of the dataset    *)
(* that is in place.                                                       *)
THEOREM CurrentIndexIsKept == Spec => CurrentIndexKept
BY PublicationSafe, StepKeepsCurrent, PTL DEF Spec, CurrentIndexKept
=============================================================================
