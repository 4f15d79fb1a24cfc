------------------------------- MODULE ReadModel -------------------------------
(***************************************************************************)
(* The read model of a published dataset: the dataset file, the SQLite     *)
(* index named after the modification time of the dataset it was built     *)
(* from, the manifest, the lock file, and materialize_dataset_read_model,  *)
(* which ingests and readers call at any time from several threads and     *)
(* processes.  One region is modelled; regions share nothing.              *)
(*                                                                         *)
(* A version is a dataset as an ingest has written it.  Versions are       *)
(* numbered by the modification times of their temporary files, which are  *)
(* not the order in which they are renamed into place.                     *)
(***************************************************************************)
EXTENDS Naturals

CONSTANTS
  Ingests,      \* threads and processes that run run_ingest_for_region
  Readers,      \* threads of the API server that query the dataset
  MaxVersion,   \* bound: versions 1..MaxVersion are published by ingests
  MaxCrashes,   \* bound: how often a process dies
  BuildFaults,  \* may the build of an index fail (a full disk)?
  None          \* no file, no lock holder

Actors == Ingests \cup Readers
Versions == 0..MaxVersion

ASSUME ReadModelAssumption ==
  /\ MaxVersion \in Nat
  /\ MaxCrashes \in Nat
  /\ BuildFaults \in BOOLEAN
  /\ Ingests \cap Readers = {}
  /\ None \notin Actors \cup Nat

VARIABLES
  dataset,   \* the version at the path of the dataset
  written,   \* how many versions ingests have written
  index,     \* index[v]: the version whose rows the index file of v holds
  manifest,  \* the version whose index the manifest names
  lock,      \* who has created the lock file
  build,     \* build[a]: where actor a is in its ingest and materialization
  crashes,   \* how often a process has died
  place      \* history: place[v]: the place of v in the order of publication

rmVars == <<dataset, written, index, manifest, lock, build, crashes, place>>
files == <<dataset, index, manifest, lock>>
history == <<crashes, place>>

(* version: the modification time that names the index; content: what has  *)
(* been read from the dataset file.                                        *)
Locked == {"read", "publish", "cleanup", "manifest"}
Build == [pc : {"idle", "rename", "stat", "check", "fastmanifest", "lock",
                "returned", "raised"} \cup Locked,
          version : Versions \cup {None}, content : Versions \cup {None}]
Resting == {"idle", "returned", "raised"}
IdleBuild == [pc |-> "idle", version |-> None, content |-> None]
Ended(pc) == [IdleBuild EXCEPT !.pc = pc]
Goes(a, pc) == build' = [build EXCEPT ![a].pc = pc]

Init ==
  /\ dataset = 0
  /\ written = 0
  /\ index = [v \in Versions |-> None]
  /\ manifest = None
  /\ lock = None
  /\ build = [a \in Actors |-> IdleBuild]
  /\ crashes = 0
  /\ place = [v \in Versions |-> IF v = 0 THEN 1 ELSE 0]

----------------------------------------------------------------------------
(* run_ingest_for_region: fetching and scoring change nothing; write_json  *)
(* writes a temporary file and renames it; then the index is built.        *)
WriteTemp(i) ==
  /\ build[i].pc \in Resting
  /\ written < MaxVersion
  /\ written' = written + 1
  /\ build' = [build EXCEPT ![i] = [IdleBuild EXCEPT !.pc = "rename", !.version = written']]
  /\ UNCHANGED <<files, history>>

Rename(i) ==
  /\ build[i].pc = "rename"
  /\ dataset' = build[i].version
  /\ place' = [place EXCEPT ![dataset'] = place[dataset] + 1]
  /\ build' = [build EXCEPT ![i] = Ended("stat")]
  /\ UNCHANGED <<written, index, manifest, lock, crashes>>

----------------------------------------------------------------------------
(* materialize_dataset_read_model.                                         *)
Call(a) ==
  /\ build[a].pc \in Resting
  /\ build' = [build EXCEPT ![a] = Ended("stat")]
  /\ UNCHANGED <<files, written, history>>

Stat(a) ==
  /\ build[a].pc = "stat"
  /\ build' = [build EXCEPT ![a] = [@ EXCEPT !.pc = "check", !.version = dataset]]
  /\ UNCHANGED <<files, written, history>>

(* Without the lock: an index that exists is only entered in the manifest. *)
Check(a) ==
  /\ build[a].pc = "check"
  /\ Goes(a, IF index[build[a].version] # None THEN "fastmanifest" ELSE "lock")
  /\ UNCHANGED <<files, written, history>>

(* _dataset_lock: the file is created exclusively; then stat and check     *)
(* once more.                                                              *)
(* Faulty variant: the version found before the lock is used.              *)
AcquireStale(a) ==
  /\ build[a].pc = "lock"
  /\ lock = None
  /\ lock' = a
  /\ Goes(a, IF index[build[a].version] # None THEN "manifest" ELSE "read")
  /\ UNCHANGED <<dataset, index, manifest, written, history>>

Acquire(a) ==
  /\ build[a].pc = "lock"
  /\ lock = None
  /\ lock' = a
  /\ build' = [build EXCEPT ![a] =
       [@ EXCEPT !.pc = IF index[dataset] # None THEN "manifest" ELSE "read",
                 !.version = dataset]]
  /\ UNCHANGED <<dataset, index, manifest, written, history>>

(* After 30 s TimeoutError is raised, whoever holds the lock, and even if  *)
(* its holder has died.                                                    *)
(* Faulty variant: a lock that is held for so long is taken over.          *)
LockTimeoutBreaks(a) ==
  /\ build[a].pc = "lock"
  /\ lock # None
  /\ lock' = a
  /\ build' = [build EXCEPT ![a] =
       [@ EXCEPT !.pc = IF index[dataset] # None THEN "manifest" ELSE "read",
                 !.version = dataset]]
  /\ UNCHANGED <<dataset, index, manifest, written, history>>

LockTimeout(a) ==
  /\ build[a].pc = "lock"
  /\ lock # None
  /\ build' = [build EXCEPT ![a] = Ended("raised")]
  /\ UNCHANGED <<files, written, history>>

ReadDataset(a) ==
  /\ build[a].pc = "read"
  /\ build' = [build EXCEPT ![a] = [@ EXCEPT !.pc = "publish", !.content = dataset]]
  /\ UNCHANGED <<files, written, history>>

(* The index is built in a temporary file, which is renamed.               *)
(* Faulty variant: it is named after the dataset as it is by now.          *)
PublishCurrent(a) ==
  /\ build[a].pc = "publish"
  /\ index' = [index EXCEPT ![dataset] = build[a].content]
  /\ Goes(a, "cleanup")
  /\ UNCHANGED <<dataset, manifest, lock, written, history>>

Publish(a) ==
  /\ build[a].pc = "publish"
  /\ index' = [index EXCEPT ![build[a].version] = build[a].content]
  /\ Goes(a, "cleanup")
  /\ UNCHANGED <<dataset, manifest, lock, written, history>>

(* _cleanup_old_indexes: one that cannot be unlinked is passed over.       *)
Cleanup(a) ==
  /\ build[a].pc = "cleanup"
  /\ \E left \in IF BuildFaults THEN SUBSET Versions ELSE {{}} :
       index' = [v \in Versions |-> IF v \in left \cup {build[a].version} THEN index[v] ELSE None]
  /\ Goes(a, "manifest")
  /\ UNCHANGED <<dataset, manifest, lock, written, history>>

(* _write_manifest, the last step; it ends the lock if there is one.       *)
WriteManifest(a) ==
  /\ build[a].pc \in {"fastmanifest", "manifest"}
  /\ manifest' = build[a].version
  /\ lock' = IF build[a].pc = "manifest" THEN None ELSE lock
  /\ build' = [build EXCEPT ![a] = Ended("returned")]
  /\ UNCHANGED <<dataset, index, written, history>>

(* An error while the lock is held removes the lock file.                  *)
BuildFails(a) ==
  /\ BuildFaults
  /\ build[a].pc \in Locked \cup {"fastmanifest"}
  /\ lock' = IF build[a].pc \in Locked THEN None ELSE lock
  /\ build' = [build EXCEPT ![a] = Ended("raised")]
  /\ UNCHANGED <<dataset, index, manifest, written, history>>

(* A process dies; its lock file stays and nobody will remove it.          *)
CrashOf(actors) ==
  /\ crashes < MaxCrashes
  /\ crashes' = crashes + 1
  /\ build' = [a \in Actors |-> IF a \in actors THEN IdleBuild ELSE build[a]]
  /\ UNCHANGED <<files, written, place>>

Materialize(a) ==
  \/ Stat(a) \/ Check(a)
  \/ Acquire(a) \/ LockTimeout(a)
  \/ ReadDataset(a) \/ Publish(a) \/ Cleanup(a)
  \/ WriteManifest(a) \/ BuildFails(a)

IngestStep(i) == WriteTemp(i) \/ Rename(i) \/ Materialize(i)
Processes == {{i} : i \in Ingests} \cup {Readers}

Next ==
  \/ \E a \in Actors : Call(a) \/ Materialize(a)
  \/ \E i \in Ingests : WriteTemp(i) \/ Rename(i)
  \/ \E actors \in Processes : CrashOf(actors)

Spec == Init /\ [][Next]_rmVars

----------------------------------------------------------------------------
TypeOK ==
  /\ dataset \in Versions
  /\ written \in Versions
  /\ index \in [Versions -> Versions \cup {None}]
  /\ manifest \in Versions \cup {None}
  /\ lock \in Actors \cup {None}
  /\ build \in [Actors -> Build]
  /\ \A a \in Actors :
       /\ build[a].pc \in {"rename", "check", "fastmanifest", "lock"} \cup Locked
            => build[a].version \in Versions
       /\ build[a].pc \in {"publish", "cleanup"} => build[a].content \in Versions
  /\ crashes \in Nat
  /\ place \in [Versions -> Nat]

(* An index never holds an older dataset than the one it is named after,   *)
(* although the name is taken from a stat and the rows from a later read.  *)
IndexNotOlder ==
  \A v \in Versions : index[v] # None => place[v] <= place[index[v]]

(* Only one actor at a time builds, publishes and cleans up.               *)
OneBuilder ==
  \A a, b \in Actors :
    build[a].pc \in Locked /\ build[b].pc \in Locked => a = b

(* Once the dataset has an index, nobody removes it before the dataset     *)
(* changes: the cleanup of a builder that is late only meets indexes of    *)
(* datasets that have been replaced.                                       *)
CurrentIndexKept ==
  [][index[dataset] # None => dataset' # dataset \/ index'[dataset] # None]_rmVars

(* test_ingest_publish.py: after an ingest the read model exists and       *)
(* "manifest["read_model_file"] == materialized_read_model.name".  When    *)
(* everybody has finished, without a crash or an error, the manifest names *)
(* an index that exists.                                                   *)
ManifestNamesIndex ==
  (\A a \in Actors : build[a].pc \in {"idle", "returned"}) /\ crashes = 0
    /\ manifest # None => index[manifest] # None
=============================================================================
