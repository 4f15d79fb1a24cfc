--------------------------- MODULE JobReceiptsProofs ---------------------------
(***************************************************************************)
(* A job that is reported as succeeded has published what it wrote, and    *)
(* readers have an index that is at least as new ever after: for any       *)
(* number of jobs, readers and versions.                                   *)
(***************************************************************************)
EXTENDS JobReceiptsInv, ReadModelProofs

LEMMA JobTypes ==
  /\ Jobs \subseteq Actors
  /\ Readers \cap Jobs = {}
  /\ None \notin Versions
BY NoneFacts, ReadModelAssumption DEF Jobs, Actors

LEMMA JobStepImplements == [JobsNext]_vars => [Next]_rmVars
<1> SUFFICES ASSUME JobsNext PROVE [Next]_rmVars
  BY DEF vars, rmVars
<1>1. CASE ReaderRuns
  BY <1>1 DEF ReaderRuns, Next, Actors, Processes
<1>2. ASSUME NEW j \in Jobs, JobStep(j) \/ GetJob(j) \/ JobCrash(j)
      PROVE  [Next]_rmVars
  <2>1. CASE WriteDataset(j) \/ Publishes(j) \/ JobCrash(j)
    BY <2>1 DEF WriteDataset, Publishes, JobCrash, Next, Jobs, Actors, Processes
  <2>2. CASE CreateReceipt(j) \/ FetchFails(j) \/ IngestEnds(j) \/ UpdateStatus(j)
               \/ StatementFails(j) \/ WriteFile(j) \/ WriteFileFails(j)
               \/ Respond(j) \/ GetJob(j)
    BY <2>2 DEF CreateReceipt, FetchFails, IngestEnds, UpdateStatus, StatementFails,
                WriteFile, WriteFileFails, Respond, GetJob
  <2>3. QED
    BY <1>2, <2>1, <2>2 DEF JobStep
<1>3. QED
  BY <1>1, <1>2 DEF JobsNext

----------------------------------------------------------------------------
(* What a step of the read model does to places and indexes.               *)

(* Places of published versions do not change, but for new ones.           *)
LEMMA PlacesStay ==
  ASSUME PublicationInv, [Next]_rmVars, NEW v \in Versions, place[v] > 0
  PROVE  place'[v] = place[v]
<1>1. CASE UNCHANGED place
  BY <1>1
<1>2. ASSUME NEW i \in Ingests, Rename(i) PROVE place'[v] = place[v]
  <2>1. place[build[i].version] = 0
    BY <1>2 DEF Rename, PublicationInv, PlaceInv, Actors
  <2>2. place' = [place EXCEPT ![build[i].version] = place[dataset] + 1]
    BY <1>2 DEF Rename
  <2>3. QED
    BY <2>1, <2>2 DEF PublicationInv, TypeOK
<1>3. QED
  BY <1>1, <1>2
     DEF Next, rmVars, Call, Materialize, Stat, Check, Acquire, LockTimeout,
         ReadDataset, Publish, Cleanup, WriteManifest, BuildFails, WriteTemp,
         CrashOf, history

LEMMA PublishedStays ==
  ASSUME PublicationInv, [Next]_rmVars, NEW v, Published(v)
  PROVE  Published(v)'
BY PlacesStay DEF Published

(* Only a cleanup removes an index, and it keeps the cleaner's own, which  *)
(* is not older than any other.                                            *)
LEMMA CoveredStays ==
  ASSUME PublicationInv, CleanupInv, [Next]_rmVars, NEW v, Published(v), Covered(v)
  PROVE  Covered(v)'
<1>1. PICK w \in Versions : index[w] # None /\ place[v] <= place[w]
  BY DEF Covered
<1>2. place[w] > 0 /\ place[v] \in Nat /\ place[w] \in Nat
  BY <1>1 DEF PublicationInv, TypeOK, IndexInv, Published
<1>3. place'[v] = place[v] /\ place'[w] = place[w]
  BY <1>2, PlacesStay DEF Published
<1>4. CASE UNCHANGED index
  BY <1>1, <1>3, <1>4 DEF Covered
<1>5. ASSUME NEW a \in Actors, Publish(a) PROVE Covered(v)'
  <2>1. index'[w] # None
    BY <1>1, <1>5, NoneFacts DEF Publish, PublicationInv, TypeOK, Locked
  <2>2. QED
    BY <1>1, <1>3, <2>1 DEF Covered
<1>6. ASSUME NEW a \in Actors, Cleanup(a) PROVE Covered(v)'
  <2> DEFINE u == build[a].version
  <2>1. /\ u \in Versions
        /\ index[u] # None
        /\ place[w] <= place[u]
        /\ UNCHANGED place
        /\ index'[u] = index[u]
    BY <1>1, <1>6
       DEF Cleanup, CleanupInv, PublicationInv, TypeOK, BuilderInv, Building, Locked,
           history
  <2>2. place[u] \in Nat
    BY <2>1 DEF PublicationInv, TypeOK
  <2>3. QED
    BY <1>1, <1>2, <2>1, <2>2 DEF Covered
<1>7. QED
  BY <1>4, <1>5, <1>6
     DEF Next, rmVars, Call, Materialize, Stat, Check, Acquire, LockTimeout,
         ReadDataset, WriteManifest, BuildFails, WriteTemp, Rename, CrashOf, files

LEMMA CleanupKept ==
  ASSUME PublicationInv, CleanupInv, [Next]_rmVars
  PROVE  CleanupInv'
<1> SUFFICES ASSUME NEW c \in Actors, build'[c].pc = "cleanup"
             PROVE  index'[build'[c].version] # None
  BY DEF CleanupInv
<1>1. ASSUME NEW a \in Actors, Publish(a) PROVE index'[build'[c].version] # None
  <2>1. c = a
    BY <1>1 DEF Publish, Goes, PublicationInv, TypeOK, BuilderInv, Locked
  <2>2. build'[a].version = build[a].version /\ build[a].version \in Versions
          /\ build[a].content \in Versions
    BY <1>1 DEF Publish, Goes, PublicationInv, TypeOK, Build, Locked
  <2>3. QED
    BY <1>1, <2>1, <2>2, NoneFacts DEF Publish, PublicationInv, TypeOK
<1>2. ASSUME NEW a \in Actors, Cleanup(a) PROVE index'[build'[c].version] # None
  <2>1. build'[a].pc = "manifest"
    BY <1>2 DEF Cleanup, Goes, PublicationInv, TypeOK, Build
  <2>2. c # a
    BY <2>1
  <2>3. build[c].pc = "cleanup"
    BY <1>2, <2>2 DEF Cleanup, Goes, PublicationInv, TypeOK
  <2>4. QED
    BY <1>2, <2>2, <2>3 DEF Cleanup, PublicationInv, BuilderInv, Locked
<1>3. ASSUME UNCHANGED index, build'[c] = build[c] PROVE index'[build'[c].version] # None
  BY <1>3 DEF CleanupInv
<1>4. ASSUME NEW a \in Actors, Call(a) \/ Stat(a) \/ Check(a) \/ Acquire(a)
        \/ LockTimeout(a) \/ ReadDataset(a) \/ WriteManifest(a) \/ BuildFails(a)
      PROVE  UNCHANGED index /\ build'[c] = build[c]
  BY <1>4 DEF Call, Stat, Check, Acquire, LockTimeout, ReadDataset, WriteManifest,
              BuildFails, Goes, Ended, IdleBuild, PublicationInv, TypeOK, Build, files
<1>5. ASSUME NEW i \in Ingests, WriteTemp(i) \/ Rename(i)
      PROVE  UNCHANGED index /\ build'[c] = build[c]
  BY <1>5 DEF WriteTemp, Rename, Ended, IdleBuild, PublicationInv, TypeOK, files
<1>6. ASSUME NEW actors, CrashOf(actors)
      PROVE  UNCHANGED index /\ build'[c] = build[c]
  BY <1>6 DEF CrashOf, IdleBuild, files
<1>7. CASE UNCHANGED rmVars
  BY <1>3, <1>7 DEF rmVars
<1>8. QED
  BY <1>1, <1>2, <1>3, <1>4, <1>5, <1>6, <1>7 DEF Next, Materialize

----------------------------------------------------------------------------
(* What a step leaves of the invariant of a job.                           *)

(* The ingest of a job whose builder does not move stays where it is.      *)
LEMMA RunStays ==
  ASSUME JobsInv, [Next]_rmVars, NEW j \in Jobs,
         build'[j] = build[j], job'[j] = job[j]
  PROVE  RunInv(j)'
<1> DEFINE v == job[j].wrote
           w == build[j].version
<1>1. RunInv(j) /\ PublicationInv /\ CleanupInv /\ j \in Actors
  BY JobTypes DEF JobsInv
<1>2. Published(v) => Published(v)' /\ place'[v] = place[v]
  BY <1>1, PublishedStays, PlacesStay DEF Published
<1>3. Published(v) /\ Covered(v) => Covered(v)'
  BY <1>1, CoveredStays
<1>4. ASSUME job[j].pc = "ingest", build[j].pc \in Holding
      PROVE  place'[v] <= place'[w]
  <2>1. w \in Versions /\ Published(v) /\ place[v] <= place[w]
    BY <1>1, <1>4 DEF RunInv, Holding, PublicationInv, TypeOK, Locked
  <2>2. place[w] > 0
    BY <2>1 DEF Published, PublicationInv, TypeOK, JobsInv
  <2>3. place'[w] = place[w]
    BY <1>1, <2>1, <2>2, PlacesStay
  <2>4. QED
    BY <1>2, <2>1, <2>3
<1>5. job[j].pc = "ingest" /\ build[j].pc \in {"stat", "lock"} \cup Holding \cup Indexed
        => Published(v)'
  BY <1>1, <1>2 DEF RunInv
<1>6. job[j].pc = "ingest" /\ build[j].pc \in Indexed => Covered(v)'
  BY <1>1, <1>3 DEF RunInv
<1>7. QED
  BY <1>1, <1>4, <1>5, <1>6 DEF RunInv, Published, Covered

(* What has been published and has an index keeps both.                    *)
LEMMA IndexedStays ==
  ASSUME JobsInv, [Next]_rmVars, NEW v, Published(v), Covered(v)
  PROVE  /\ v \in Versions
         /\ place'[v] > 0
         /\ \E w \in Versions : index'[w] # None /\ place'[v] <= place'[w]
<1>1. Published(v)' /\ Covered(v)'
  BY PublishedStays, CoveredStays DEF JobsInv
<1>2. QED
  BY <1>1 DEF Published, Covered

(* A job that does not move.                                               *)
LEMMA JobStays ==
  ASSUME JobsInv, [Next]_rmVars, NEW j \in Jobs, build'[j] = build[j], job'[j] = job[j],
         tx'[j] = tx[j], file'[j] = file[j], answer'[j] = answer[j]
  PROVE  RunInv(j)' /\ ReceiptInv(j)' /\ FileInv(j)'
<1>1. RunInv(j)' /\ FileInv(j)'
  BY RunStays DEF JobsInv, FileInv, FileOf
<1>2. Succeeded(j)' => Succeeded(j) /\ job'[j].pc \notin {"new", "ingest"}
  BY DEF Succeeded, JobsInv, ReceiptInv
<1>3. Succeeded(j)' => Published(job[j].wrote) /\ Covered(job[j].wrote)
  BY <1>2 DEF JobsInv, ReceiptInv
<1>4. ReceiptInv(j)'
  BY <1>2, <1>3, IndexedStays DEF ReceiptInv, Published, Covered
<1>5. QED
  BY <1>1, <1>4

(* The publication of the version of a job, step by step.                  *)
LEMMA PublishesKeeps ==
  ASSUME JobsInv, [Next]_rmVars, NEW j \in Jobs, Publishes(j)
  PROVE  RunInv(j)'
<1> DEFINE v == job[j].wrote
<1>1. /\ j \in Actors
      /\ RunInv(j) /\ PublicationInv /\ CleanupInv
      /\ job[j].pc = "ingest" /\ job' = job
  BY JobTypes DEF JobsInv, Publishes, jobVars
<1>2. Published(v) => Published(v)' /\ place'[v] = place[v]
  BY <1>1, PublishedStays, PlacesStay DEF Published
<1>3. Published(v) /\ Covered(v) => Covered(v)'
  BY <1>1, CoveredStays
<1>4. CASE Rename(j)
  <2>1. v = build[j].version /\ build[j].version \in Versions
    BY <1>1, <1>4 DEF Rename, RunInv, PublicationInv, TypeOK
  <2>2. Published(v)'
    BY <1>1, <1>4, <2>1 DEF Rename, Published, PublicationInv, TypeOK
  <2>3. build'[j].pc = "stat"
    BY <1>1, <1>4 DEF Rename, Ended, IdleBuild, PublicationInv, TypeOK
  <2>4. QED
    BY <1>1, <2>2, <2>3 DEF RunInv, Published, Holding, Indexed
<1>5. CASE Stat(j)
  <2>1. build'[j].pc = "check" /\ build'[j].version = dataset /\ UNCHANGED place
          /\ dataset \in Versions
    BY <1>1, <1>5 DEF Stat, PublicationInv, TypeOK, Build, history
  <2>2. Published(v)
    BY <1>1, <1>5 DEF Stat, RunInv
  <2>3. place[v] <= place[dataset]
    BY <1>1, <2>2 DEF Published, PublicationInv, PlaceInv
  <2>4. QED
    BY <1>1, <1>2, <2>1, <2>2, <2>3 DEF RunInv, Published, Holding, Indexed
<1>6. CASE Check(j)
  <2>1. Published(v) /\ place[v] <= place[build[j].version]
          /\ build[j].version \in Versions
    BY <1>1, <1>6 DEF Check, RunInv, Holding, PublicationInv, TypeOK
  <2>2. CASE index[build[j].version] # None
    <3>1. build'[j].pc = "fastmanifest"
      BY <1>1, <1>6, <2>2 DEF Check, Goes, PublicationInv, TypeOK, Build
    <3>2. Covered(v)
      BY <2>1, <2>2 DEF Covered
    <3>3. QED
      BY <1>1, <1>2, <1>3, <2>1, <3>1, <3>2
         DEF RunInv, Published, Covered, Holding, Indexed
  <2>3. CASE index[build[j].version] = None
    <3>1. build'[j].pc = "lock"
      BY <1>1, <1>6, <2>3 DEF Check, Goes, PublicationInv, TypeOK, Build
    <3>2. QED
      BY <1>1, <1>2, <2>1, <3>1 DEF RunInv, Published, Holding, Indexed
  <2>4. QED
    BY <2>2, <2>3
<1>7. CASE Acquire(j)
  <2>1. Published(v) /\ dataset \in Versions /\ build'[j].version = dataset
          /\ UNCHANGED place
    BY <1>1, <1>7 DEF Acquire, RunInv, PublicationInv, TypeOK, Build, history
  <2>2. place[v] <= place[dataset]
    BY <1>1, <2>1 DEF Published, PublicationInv, PlaceInv
  <2>3. CASE index[dataset] # None
    <3>1. build'[j].pc = "manifest"
      BY <1>1, <1>7, <2>3 DEF Acquire, PublicationInv, TypeOK, Build
    <3>2. Covered(v)
      BY <2>1, <2>2, <2>3 DEF Covered
    <3>3. QED
      BY <1>1, <1>2, <1>3, <2>1, <3>1, <3>2
         DEF RunInv, Published, Covered, Holding, Indexed
  <2>4. CASE index[dataset] = None
    <3>1. build'[j].pc = "read"
      BY <1>1, <1>7, <2>4 DEF Acquire, PublicationInv, TypeOK, Build
    <3>2. QED
      BY <1>1, <1>2, <2>1, <2>2, <3>1 DEF RunInv, Published, Holding, Indexed
  <2>5. QED
    BY <2>3, <2>4
<1>8. CASE ReadDataset(j)
  <2>1. build'[j].pc = "publish" /\ build'[j].version = build[j].version
          /\ UNCHANGED place
    BY <1>1, <1>8 DEF ReadDataset, PublicationInv, TypeOK, Build, history
  <2>2. Published(v) /\ place[v] <= place[build[j].version]
    BY <1>1, <1>8 DEF ReadDataset, RunInv, Holding
  <2>3. QED
    BY <1>1, <1>2, <2>1, <2>2 DEF RunInv, Published, Holding, Indexed
<1>9. CASE Publish(j)
  <2>1. build'[j].pc = "cleanup" /\ build[j].version \in Versions
          /\ build[j].content \in Versions
          /\ index' = [index EXCEPT ![build[j].version] = build[j].content]
          /\ UNCHANGED place
    BY <1>1, <1>9 DEF Publish, Goes, PublicationInv, TypeOK, Build, Locked, history
  <2>2. Published(v) /\ place[v] <= place[build[j].version]
    BY <1>1, <1>9 DEF Publish, RunInv, Holding
  <2>3. Covered(v)'
    BY <1>1, <2>1, <2>2, NoneFacts DEF Covered, PublicationInv, TypeOK
  <2>4. QED
    BY <1>1, <1>2, <2>1, <2>2, <2>3 DEF RunInv, Published, Covered, Holding, Indexed
<1>10. CASE Cleanup(j) \/ WriteManifest(j)
  <2>1. Published(v) /\ Covered(v)
    BY <1>1, <1>10 DEF Cleanup, WriteManifest, RunInv, Indexed
  <2>2. build'[j].pc \in {"manifest", "returned"}
    BY <1>1, <1>10 DEF Cleanup, WriteManifest, Goes, Ended, IdleBuild, PublicationInv,
                       TypeOK, Build
  <2>3. QED
    BY <1>1, <1>2, <1>3, <2>1, <2>2 DEF RunInv, Published, Covered, Holding, Indexed
<1>11. CASE LockTimeout(j) \/ BuildFails(j)
  <2>1. build'[j].pc = "raised"
    BY <1>1, <1>11 DEF LockTimeout, BuildFails, Ended, IdleBuild, PublicationInv, TypeOK
  <2>2. QED
    BY <1>1, <2>1 DEF RunInv, Holding, Indexed
<1>12. QED
  BY <1>4, <1>5, <1>6, <1>7, <1>8, <1>9, <1>10, <1>11 DEF Publishes, Materialize

----------------------------------------------------------------------------
(* The steps of a job.                                                     *)

(* A step of one job is none of another.                                   *)
LEMMA OthersStay ==
  ASSUME JobsInv, [Next]_rmVars, NEW j \in Jobs, JobStep(j) \/ GetJob(j) \/ JobCrash(j),
         NEW k \in Jobs, k # j
  PROVE  RunInv(k)' /\ ReceiptInv(k)' /\ FileInv(k)'
<1>1. /\ job \in [Jobs -> Job]
      /\ tx \in [Jobs -> Status \cup {None}]
      /\ file \in [Jobs -> {"succeeded", "failed", None}]
      /\ answer \in [Jobs -> {"succeeded", "failed", "error", None}]
      /\ build \in [Actors -> Build]
      /\ k \in Actors /\ j \in Actors
  BY JobTypes DEF JobsInv, JobsTypeOK, TypeOK
<1>2. build'[k] = build[k]
  <2>1. CASE WriteDataset(j)
    BY <1>1, <2>1 DEF WriteDataset, WriteTemp
  <2>2. CASE Publishes(j)
    BY <1>1, <2>2 DEF Publishes, Rename, Materialize, Stat, Check, Acquire, LockTimeout,
       ReadDataset, Publish, Cleanup, WriteManifest, BuildFails, Goes
  <2>3. CASE JobCrash(j)
    BY <1>1, <2>3 DEF JobCrash, CrashOf
  <2>4. QED
    BY <2>1, <2>2, <2>3
       DEF JobStep, CreateReceipt, FetchFails, IngestEnds, UpdateStatus, StatementFails,
           WriteFile, WriteFileFails, Respond, GetJob, rmVars
<1>3. /\ job'[k] = job[k] /\ tx'[k] = tx[k]
      /\ file'[k] = file[k] /\ answer'[k] = answer[k]
  BY <1>1
     DEF JobStep, CreateReceipt, FetchFails, WriteDataset, Publishes, IngestEnds,
         UpdateStatus, StatementFails, WriteFile, WriteFileFails, Respond, GetJob,
         JobCrash, JobGoes, Ends, jobVars
<1>4. QED
  BY <1>2, <1>3, JobStays

(* A step that is no ingest's: of what the job does with its receipt.      *)
LEMMA ReceiptStepKeeps ==
  ASSUME JobsInv, [Next]_rmVars, NEW j \in Jobs,
         \/ CreateReceipt(j) \/ FetchFails(j) \/ IngestEnds(j) \/ UpdateStatus(j)
         \/ StatementFails(j) \/ WriteFile(j) \/ WriteFileFails(j) \/ Respond(j)
  PROVE  RunInv(j)' /\ ReceiptInv(j)'
<1>1. /\ job \in [Jobs -> Job]
      /\ tx \in [Jobs -> Status \cup {None}]
      /\ file \in [Jobs -> {"succeeded", "failed", None}]
      /\ answer \in [Jobs -> {"succeeded", "failed", "error", None}]
      /\ RunInv(j) /\ ReceiptInv(j)
  BY DEF JobsInv, JobsTypeOK
<1>2. job'[j].wrote = job[j].wrote /\ UNCHANGED rmVars /\ j \in Jobs
  BY <1>1 DEF CreateReceipt, FetchFails, IngestEnds, UpdateStatus, StatementFails,
              WriteFile, WriteFileFails, Respond, JobGoes, Ends, Job
<1>3. CASE CreateReceipt(j)
  BY <1>1, <1>2, <1>3, NoneFacts
     DEF CreateReceipt, JobGoes, Job, RunInv, ReceiptInv, Succeeded, Published, Covered,
         Holding, Indexed, rmVars
<1>4. CASE FetchFails(j)
  BY <1>1, <1>2, <1>4
     DEF FetchFails, Ends, Job, RunInv, ReceiptInv, Succeeded, Published, Covered, rmVars
<1>5. CASE IngestEnds(j)
  <2>1. build[j].pc = "returned" => Published(job[j].wrote) /\ Covered(job[j].wrote)
    BY <1>1, <1>5 DEF IngestEnds, RunInv, Indexed
  <2>2. QED
    BY <1>1, <1>2, <1>5, <2>1
       DEF IngestEnds, Ends, Job, RunInv, ReceiptInv, Succeeded, Published, Covered, rmVars
<1>6. CASE UpdateStatus(j) \/ StatementFails(j) \/ WriteFile(j) \/ WriteFileFails(j)
           \/ Respond(j)
  <2>1. job'[j].pc \in {"file", "respond", "done"} /\ job[j].pc # "ingest"
    BY <1>1, <1>6 DEF UpdateStatus, StatementFails, WriteFile, WriteFileFails, Respond,
                      JobGoes, Ends, Job
  <2>2. Succeeded(j)' => Succeeded(j)
    BY <1>1, <1>6, JobReceiptsAssumption
       DEF Status, UpdateStatus, StatementFails, WriteFile, WriteFileFails, Respond, JobGoes,
           Ends, Job, Succeeded
  <2>3. /\ job'[j].pc = "file" => job'[j].outcome \in {"succeeded", "failed"}
        /\ job'[j].pc = "respond" => job'[j].outcome # "none"
    BY <1>1, <1>6 DEF UpdateStatus, StatementFails, WriteFile, WriteFileFails, Respond,
                      JobGoes, Ends, Job, RunInv
  <2>4. QED
    BY <1>1, <1>2, <2>1, <2>2, <2>3 DEF RunInv, ReceiptInv, Published, Covered, rmVars
<1>7. QED
  BY <1>3, <1>4, <1>5, <1>6

(* The steps of the ingest of a job, its crash, and the query of a client. *)
LEMMA IngestStepKeeps ==
  ASSUME JobsInv, [Next]_rmVars, NEW j \in Jobs,
         WriteDataset(j) \/ Publishes(j) \/ JobCrash(j) \/ GetJob(j)
  PROVE  RunInv(j)' /\ ReceiptInv(j)'
<1>1. /\ job \in [Jobs -> Job]
      /\ tx \in [Jobs -> Status \cup {None}]
      /\ build \in [Actors -> Build]
      /\ RunInv(j) /\ ReceiptInv(j)
      /\ j \in Actors
  BY JobTypes DEF JobsInv, JobsTypeOK, TypeOK
<1>2. CASE WriteDataset(j)
  <2>1. /\ job[j].pc = "ingest"
        /\ job'[j].pc = "ingest"
        /\ job'[j].wrote = written'
        /\ build'[j].pc = "rename"
        /\ build'[j].version = written'
    BY <1>1, <1>2 DEF WriteDataset, WriteTemp, IdleBuild, Job
  <2>2. ~Succeeded(j)'
    BY <1>1, <1>2, <2>1 DEF WriteDataset, Job, Succeeded, ReceiptInv
  <2>3. QED
    BY <2>1, <2>2 DEF RunInv, ReceiptInv, Holding, Indexed
<1>3. CASE Publishes(j)
  <2>1. job[j].pc = "ingest" /\ UNCHANGED jobVars
    BY <1>3 DEF Publishes
  <2>2. ~Succeeded(j)'
    BY <1>1, <2>1 DEF Succeeded, ReceiptInv, jobVars
  <2>3. RunInv(j)'
    BY <1>3, PublishesKeeps
  <2>4. QED
    BY <2>2, <2>3 DEF ReceiptInv
<1>4. CASE JobCrash(j)
  <2>1. /\ job'[j].pc \in {"new", "done", "lost"}
        /\ job[j].pc # "new" => job'[j].pc # "new"
        /\ job'[j].wrote = job[j].wrote
        /\ job'[j].outcome = job[j].outcome
    BY <1>1, <1>4 DEF JobCrash, Job
  <2>2. build'[j].pc = "idle"
    BY <1>1, <1>4 DEF JobCrash, CrashOf, IdleBuild
  <2>3. Succeeded(j)' => Succeeded(j)
    BY <1>1, <1>4, <2>1, JobReceiptsAssumption DEF JobCrash, Succeeded, Status
  <2>4. Succeeded(j)' => /\ job'[j].pc \notin {"new", "ingest"}
                         /\ Published(job[j].wrote) /\ Covered(job[j].wrote)
    BY <1>1, <2>1, <2>3 DEF ReceiptInv
  <2>5. ReceiptInv(j)'
    BY <2>1, <2>4, IndexedStays DEF ReceiptInv, Published, Covered
  <2>6. QED
    BY <2>1, <2>2, <2>5 DEF RunInv
<1>5. CASE GetJob(j)
  <2>1. UNCHANGED <<rmVars, job, tx, file, answer>>
    BY <1>5 DEF GetJob
  <2>2. QED
    BY <2>1, JobStays DEF rmVars
<1>6. QED
  BY <1>2, <1>3, <1>4, <1>5

(* The file copy says what the client is going to be told, or there is none. *)
LEMMA FileStepKeeps ==
  ASSUME JobsInv, NEW j \in Jobs, JobStep(j) \/ GetJob(j) \/ JobCrash(j)
  PROVE  FileInv(j)'
<1>1. /\ job \in [Jobs -> Job]
      /\ file \in [Jobs -> {"succeeded", "failed", None}]
      /\ answer \in [Jobs -> {"succeeded", "failed", "error", None}]
      /\ RunInv(j) /\ FileInv(j)
  BY DEF JobsInv, JobsTypeOK
<1>2. CASE CreateReceipt(j) \/ FetchFails(j) \/ WriteDataset(j) \/ Publishes(j)
           \/ IngestEnds(j) \/ UpdateStatus(j)
  <2>1. /\ job[j].pc \in {"new", "ingest", "update"}
        /\ UNCHANGED <<file, answer>>
    BY <1>2 DEF CreateReceipt, FetchFails, WriteDataset, Publishes, IngestEnds,
                UpdateStatus, jobVars
  <2>2. job'[j].pc \in {"ingest", "update", "file"}
    BY <1>1, <1>2 DEF CreateReceipt, FetchFails, WriteDataset, Publishes, IngestEnds,
                      UpdateStatus, JobGoes, Ends, Job, jobVars
  <2>3. QED
    BY <1>1, <2>1, <2>2 DEF FileInv
<1>3. CASE StatementFails(j) \/ WriteFileFails(j)
  <2>1. /\ job[j].pc \in {"new", "update", "file"}
        /\ UNCHANGED <<file, answer>>
    BY <1>3 DEF StatementFails, WriteFileFails
  <2>2. job'[j].pc = "respond" /\ job'[j].outcome = "error"
    BY <1>1, <1>3 DEF StatementFails, WriteFileFails, Ends, Job
  <2>3. QED
    BY <1>1, <2>1, <2>2 DEF FileInv, FileOf
<1>4. CASE WriteFile(j)
  <2>1. /\ job'[j].pc = "respond" /\ job'[j].outcome = job[j].outcome
        /\ UNCHANGED answer
    BY <1>1, <1>4 DEF WriteFile, JobGoes, Job
  <2>2. job[j].pc = "file" /\ job[j].outcome # "error"
    BY <1>1, <1>4 DEF WriteFile, RunInv
  <2>3. file'[j] = FileOf(job[j].outcome)
    BY <1>1, <1>4, <2>2 DEF WriteFile, FileInv, FileOf
  <2>4. QED
    BY <1>1, <2>1, <2>2, <2>3 DEF FileInv, FileOf
<1>5. CASE Respond(j)
  <2>1. /\ job'[j].pc = "done" /\ UNCHANGED file
        /\ answer'[j] = job[j].outcome
    BY <1>1, <1>5 DEF Respond, JobGoes, Job
  <2>2. QED
    BY <1>1, <1>5, <2>1 DEF Respond, FileInv, FileOf
<1>6. CASE GetJob(j)
  BY <1>1, <1>6 DEF GetJob, FileInv, FileOf
<1>7. CASE JobCrash(j)
  <2>1. UNCHANGED <<file, answer>>
    BY <1>7 DEF JobCrash
  <2>2. job'[j].pc = IF job[j].pc \in {"new", "done"} THEN job[j].pc ELSE "lost"
    BY <1>1, <1>7 DEF JobCrash, Job
  <2>3. QED
    BY <1>1, <2>1, <2>2 DEF FileInv, FileOf
<1>8. QED
  BY <1>2, <1>3, <1>4, <1>5, <1>6, <1>7 DEF JobStep

(* The receipts keep their types.                                          *)
LEMMA TypesKept ==
  ASSUME JobsInv, [Next]_rmVars, NEW j \in Jobs, JobStep(j) \/ GetJob(j) \/ JobCrash(j)
  PROVE  JobsTypeOK'
<1>1. /\ JobsTypeOK
      /\ RunInv(j)
      /\ TypeOK'
  BY StepKeeps DEF JobsInv, PublicationInv
<1>2. CASE WriteDataset(j)
  <2>1. written' \in Versions
    BY <1>1 DEF TypeOK
  <2>2. QED
    BY <1>1, <1>2, <2>1 DEF WriteDataset, JobsTypeOK, Job
<1>3. CASE UpdateStatus(j) \/ WriteFile(j)
  <2>1. job[j].outcome \in {"succeeded", "failed"} /\ {"succeeded", "failed"} \subseteq Status
    BY <1>1, <1>3 DEF UpdateStatus, WriteFile, RunInv, Status
  <2>2. job' \in [Jobs -> Job]
    <3>1. job' = [job EXCEPT ![j].pc = "file"] \/ job' = [job EXCEPT ![j].pc = "respond"]
      BY <1>3 DEF UpdateStatus, WriteFile, JobGoes
    <3>2. job[j] \in Job
      BY <1>1 DEF JobsTypeOK
    <3>3. [job[j] EXCEPT !.pc = "file"] \in Job /\ [job[j] EXCEPT !.pc = "respond"] \in Job
      BY <3>2 DEF Job
    <3>4. QED
      BY <1>1, <3>1, <3>3 DEF JobsTypeOK
  <2>3. tx' \in [Jobs -> Status \cup {None}]
    BY <1>1, <1>3, <2>1 DEF UpdateStatus, WriteFile, JobsTypeOK
  <2>4. file' \in [Jobs -> {"succeeded", "failed", None}]
    BY <1>1, <1>3, <2>1 DEF UpdateStatus, WriteFile, JobsTypeOK
  <2>5. QED
    BY <1>1, <1>3, <2>2, <2>3, <2>4 DEF UpdateStatus, WriteFile, JobsTypeOK
<1>4. CASE Respond(j)
  BY <1>1, <1>4 DEF Respond, JobGoes, JobsTypeOK, Job, RunInv
<1>5. CASE CreateReceipt(j) \/ FetchFails(j) \/ Publishes(j) \/ IngestEnds(j)
  <2>1. job' \in [Jobs -> Job]
    BY <1>1, <1>5 DEF CreateReceipt, FetchFails, Publishes, IngestEnds, JobGoes, Ends,
                      JobsTypeOK, Job, jobVars
  <2>2. tx' \in [Jobs -> Status \cup {None}]
    BY <1>1, <1>5 DEF CreateReceipt, FetchFails, Publishes, IngestEnds, JobsTypeOK,
                      Status, jobVars
  <2>3. UNCHANGED <<table, file, answer, seen>>
    BY <1>5 DEF CreateReceipt, FetchFails, Publishes, IngestEnds, jobVars
  <2>4. QED
    BY <1>1, <2>1, <2>2, <2>3 DEF JobsTypeOK
<1>6. CASE StatementFails(j) \/ WriteFileFails(j)
  <2>1. /\ job' = [job EXCEPT ![j].pc = "respond", ![j].outcome = "error"]
        /\ UNCHANGED <<tx, table, file, answer, seen>>
    BY <1>6 DEF StatementFails, WriteFileFails, Ends
  <2>2. job[j] \in Job
    BY <1>1 DEF JobsTypeOK
  <2>3. [job[j] EXCEPT !.pc = "respond", !.outcome = "error"] \in Job
    BY <2>2 DEF Job
  <2>4. job' \in [Jobs -> Job]
    BY <1>1, <2>1, <2>3 DEF JobsTypeOK
  <2>5. QED
    BY <1>1, <2>1, <2>4 DEF JobsTypeOK
<1>7. CASE JobCrash(j)
  <2>1. /\ job' = [job EXCEPT ![j].pc = IF @ \in {"new", "done"} THEN @ ELSE "lost"]
        /\ tx' = [tx EXCEPT ![j] = None]
        /\ UNCHANGED <<table, file, answer, seen>>
    BY <1>7 DEF JobCrash
  <2>2. job[j] \in Job
    BY <1>1 DEF JobsTypeOK
  <2>3. [job[j] EXCEPT !.pc = IF @ \in {"new", "done"} THEN @ ELSE "lost"] \in Job
    BY <2>2 DEF Job
  <2>4. job' \in [Jobs -> Job]
    BY <1>1, <2>1, <2>3 DEF JobsTypeOK
  <2>5. tx' \in [Jobs -> Status \cup {None}]
    BY <1>1, <2>1 DEF JobsTypeOK
  <2>6. UNCHANGED <<table, file, answer, seen>>
    BY <2>1
  <2>7. QED
    BY <1>1, <2>4, <2>5, <2>6 DEF JobsTypeOK
<1>8. CASE GetJob(j)
  <2>1. seen' \in [Jobs -> Status \cup {"missing", None}]
    BY <1>1, <1>8 DEF GetJob, JobsTypeOK
  <2>2. UNCHANGED <<job, tx, table, file, answer>>
    BY <1>8 DEF GetJob
  <2>3. QED
    BY <1>1, <2>1, <2>2 DEF JobsTypeOK
<1>9. QED
  BY <1>2, <1>3, <1>4, <1>5, <1>6, <1>7, <1>8 DEF JobStep

----------------------------------------------------------------------------
LEMMA InitJobs == JobsInit => JobsInv
<1> SUFFICES ASSUME JobsInit PROVE JobsInv
  OBVIOUS
<1>1. PublicationInv /\ CleanupInv
  BY InitPublication, JobReceiptsAssumption
     DEF JobsInit, Init, CleanupInv, IdleBuild
<1>2. JobsTypeOK
  BY <1>1 DEF JobsInit, JobsTypeOK, PublicationInv, NewJob, Job
<1>3. ASSUME NEW j \in Jobs PROVE RunInv(j) /\ ReceiptInv(j) /\ FileInv(j)
  BY JobTypes, JobReceiptsAssumption
     DEF JobsInit, Init, NewJob, IdleBuild, RunInv, ReceiptInv, FileInv, Succeeded, Status,
         Holding, Indexed
<1>4. QED
  BY <1>1, <1>2, <1>3 DEF JobsInv

LEMMA JobsStepKeeps == JobsInv /\ [JobsNext]_vars => JobsInv'
<1> SUFFICES ASSUME JobsInv, [JobsNext]_vars PROVE JobsInv'
  OBVIOUS
<1>1. [Next]_rmVars
  BY JobStepImplements
<1>2. PublicationInv' /\ CleanupInv'
  BY <1>1, StepKeeps, CleanupKept DEF JobsInv
<1>3. CASE ReaderRuns \/ UNCHANGED vars
  <2>1. UNCHANGED jobVars
    BY <1>3 DEF ReaderRuns, vars
  <2>2. JobsTypeOK'
    BY <1>2, <2>1 DEF JobsInv, JobsTypeOK, PublicationInv, jobVars
  <2>3. ASSUME NEW k \in Jobs PROVE build'[k] = build[k]
    <3>1. k \in Actors /\ k \notin Readers /\ build \in [Actors -> Build]
      BY JobTypes DEF JobsInv, PublicationInv, TypeOK
    <3>2. QED
      BY <1>3, <3>1
         DEF ReaderRuns, vars, rmVars, Call, Materialize, Stat, Check, Acquire, LockTimeout,
             ReadDataset, Publish, Cleanup, WriteManifest, BuildFails, CrashOf, Goes
  <2>4. ASSUME NEW k \in Jobs PROVE RunInv(k)' /\ ReceiptInv(k)' /\ FileInv(k)'
    BY <1>1, <2>1, <2>3, JobStays DEF jobVars
  <2>5. QED
    BY <1>2, <2>2, <2>4 DEF JobsInv
<1>4. ASSUME NEW j \in Jobs, JobStep(j) \/ GetJob(j) \/ JobCrash(j) PROVE JobsInv'
  <2>1. JobsTypeOK'
    BY <1>1, <1>4, TypesKept
  <2>2. RunInv(j)' /\ ReceiptInv(j)' /\ FileInv(j)'
    BY <1>1, <1>4, ReceiptStepKeeps, IngestStepKeeps, FileStepKeeps DEF JobStep
  <2>3. ASSUME NEW k \in Jobs PROVE RunInv(k)' /\ ReceiptInv(k)' /\ FileInv(k)'
    BY <1>1, <1>4, <2>2, OthersStay
  <2>4. QED
    BY <1>2, <2>1, <2>3 DEF JobsInv
<1>5. QED
  BY <1>3, <1>4 DEF JobsNext

(* The relation of receipts and publications holds in every behaviour.     *)
THEOREM JobsSafe == JobsSpec => []JobsInv
BY InitJobs, JobsStepKeeps, PTL DEF JobsSpec

(* Receipts, answers and local variables of the jobs keep their types.     *)
THEOREM JobsTyped == JobsSpec => []JobsTypeOK
<1>1. JobsInv => JobsTypeOK
  BY DEF JobsInv
<1>2. QED
  BY <1>1, JobsSafe, PTL

(* The ingest of a job that is reported as succeeded has been published,   *)
(* and readers have an index that is at least as new, then and ever after. *)
THEOREM SucceededIsIndexed == JobsSpec => []SucceededIndexed
<1>1. JobsInv => SucceededIndexed
  <2> SUFFICES ASSUME JobsInv, NEW j \in Jobs,
                      "succeeded" \in {answer[j], file[j], tx[j]}
               PROVE  /\ job[j].wrote # None
                      /\ \E v \in Versions : /\ index[v] # None
                                             /\ 0 < place[job[j].wrote]
                                             /\ place[job[j].wrote] <= place[v]
    BY DEF SucceededIndexed
  <2>1. Published(job[j].wrote) /\ Covered(job[j].wrote)
    BY DEF JobsInv, ReceiptInv, Succeeded
  <2>2. QED
    BY <2>1, JobTypes DEF Published, Covered, JobsInv, PublicationInv, TypeOK
<1>2. QED
  BY <1>1, JobsSafe, PTL

(* What a client is told of the end of its job is what the file copy says, *)
(* and one that is told of an error finds no copy: at every step, whatever *)
(* fails before the answer.                                                *)
THEOREM AnswersAgree == JobsSpec => []AnswerAgreesWithFile
<1>1. JobsInv => AnswerAgreesWithFile
  <2> SUFFICES ASSUME JobsInv, NEW j \in Jobs, answer[j] # None
               PROVE  file[j] = IF FsReceipts /\ answer[j] # "error" THEN answer[j] ELSE None
    BY DEF AnswerAgreesWithFile
  <2>1. FileInv(j)
    BY DEF JobsInv
  <2>2. QED
    BY <2>1 DEF FileInv, FileOf
<1>2. QED
  BY <1>1, JobsSafe, PTL

(* The jobs do to the files of the dataset only what ReadModel lets        *)
(* ingests and readers do: its theorems hold of a server with jobs.        *)
THEOREM JobsImplementReadModel == JobsSpec => Spec
BY JobStepImplements, PTL DEF JobsSpec, JobsInit, Spec
=============================================================================
