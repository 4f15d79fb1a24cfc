------------------------------ MODULE JobReceipts ------------------------------
(***************************************************************************)
(* Ingest jobs of POST /internal/jobs/ingest: IngestRunner.run writes a    *)
(* receipt before and after it runs an ingest, on the database connection  *)
(* of the request, and composes with the ingests and readers of ReadModel. *)
(* The transaction of a connection ends when the request does.             *)
(***************************************************************************)
EXTENDS ReadModel

CONSTANTS
  DbFaults,    \* may a statement fail?
  FsReceipts   \* WRITE_FS_RECEIPTS: is a copy written to the file system?

Status == {"queued", "running", "succeeded", "failed"}

ASSUME JobReceiptsAssumption ==
  /\ DbFaults \in BOOLEAN
  /\ FsReceipts \in BOOLEAN
  /\ None \notin Status

(* Every job is one ingest, in a process of the server.                    *)
Jobs == Ingests

VARIABLES
  job,     \* job[j]: where the request of job j is, and what its ingest did
  tx,      \* tx[j]: the receipt as the open transaction of the request has it
  table,   \* table[j]: the receipt in job_receipts, as others see it
  file,    \* file[j]: the receipt in the file system (None: none that can be parsed)
  answer,  \* answer[j]: what the client has been told
  seen     \* seen[j]: what GET /internal/jobs/{job_id} has last answered

jobVars == <<job, tx, table, file, answer, seen>>
vars == <<rmVars, jobVars>>

AllowedTransitions ==
  [s \in Status |-> CASE s = "queued" -> {"running"}
                      [] s = "running" -> {"succeeded", "failed"}
                      [] OTHER -> {}]

(* wrote: the version that the ingest of the job has written.              *)
Job == [pc : {"new", "ingest", "update", "file", "respond", "done", "lost"},
        outcome : {"none", "succeeded", "failed", "error"},
        wrote : Versions \cup {None}]
NewJob == [pc |-> "new", outcome |-> "none", wrote |-> None]

JobsInit ==
  /\ Init
  /\ job = [j \in Jobs |-> NewJob]
  /\ tx = [j \in Jobs |-> None]
  /\ table = [j \in Jobs |-> None]
  /\ file = [j \in Jobs |-> None]
  /\ answer = [j \in Jobs |-> None]
  /\ seen = [j \in Jobs |-> None]

JobGoes(j, pc) == job' = [job EXCEPT ![j].pc = pc]
Ends(j, pc, outcome) == job' = [job EXCEPT ![j].pc = pc, ![j].outcome = outcome]

----------------------------------------------------------------------------
(* IngestRunner.run.                                                       *)
CreateReceipt(j) ==
  /\ job[j].pc = "new"
  /\ tx' = [tx EXCEPT ![j] = "running"]
  /\ JobGoes(j, "ingest")
  /\ UNCHANGED <<rmVars, table, file, answer, seen>>

(* ingest_fn: it may fail before it has written anything, ...              *)
FetchFails(j) ==
  /\ job[j].pc = "ingest"
  /\ build[j].pc = "idle"
  /\ Ends(j, "update", "failed")
  /\ UNCHANGED <<rmVars, tx, table, file, answer, seen>>

(* ... writes the dataset ...                                              *)
WriteDataset(j) ==
  /\ job[j].pc = "ingest"
  /\ build[j].pc = "idle"
  /\ WriteTemp(j)
  /\ job' = [job EXCEPT ![j].wrote = written']
  /\ UNCHANGED <<tx, table, file, answer, seen>>

(* ... and renames and materializes it.                                    *)
Publishes(j) ==
  /\ job[j].pc = "ingest"
  /\ Rename(j) \/ Materialize(j)
  /\ UNCHANGED jobVars

(* Faulty variant: a failure after the dataset has been written is taken for *)
(* success.                                                                *)
IngestEndsAnyhow(j) ==
  /\ job[j].pc = "ingest"
  /\ build[j].pc \in {"returned", "raised"}
  /\ Ends(j, "update", "succeeded")
  /\ UNCHANGED <<rmVars, tx, table, file, answer, seen>>
IngestEnds(j) ==
  /\ job[j].pc = "ingest"
  /\ build[j].pc \in {"returned", "raised"}
  /\ Ends(j, "update", IF build[j].pc = "returned" THEN "succeeded" ELSE "failed")
  /\ UNCHANGED <<rmVars, tx, table, file, answer, seen>>

(* update_status: the transition must be allowed.                          *)
Allowed(j) == job[j].outcome \in AllowedTransitions[tx[j]]

UpdateStatus(j) ==
  /\ job[j].pc = "update"
  /\ Allowed(j)
  /\ tx' = [tx EXCEPT ![j] = job[j].outcome]
  /\ JobGoes(j, "file")
  /\ UNCHANGED <<rmVars, table, file, answer, seen>>

(* A statement fails, or the transition is refused: the exception leaves   *)
(* the runner.                                                             *)
StatementFails(j) ==
  /\ \/ job[j].pc = "new" /\ DbFaults
     \/ job[j].pc = "update" /\ (DbFaults \/ ~Allowed(j))
  /\ Ends(j, "respond", "error")
  /\ UNCHANGED <<rmVars, tx, table, file, answer, seen>>

(* maybe_write_fs_receipt.                                                 *)
WriteFile(j) ==
  /\ job[j].pc = "file"
  /\ file' = IF FsReceipts THEN [file EXCEPT ![j] = job[j].outcome] ELSE file
  /\ JobGoes(j, "respond")
  /\ UNCHANGED <<rmVars, tx, table, answer, seen>>

(* Faulty variant: the failure of the copy is swallowed.                   *)
WriteFileFailureSwallowed(j) ==
  /\ FsReceipts
  /\ job[j].pc = "file"
  /\ JobGoes(j, "respond")
  /\ UNCHANGED <<rmVars, tx, table, file, answer, seen>>
WriteFileFails(j) ==
  /\ FsReceipts
  /\ job[j].pc = "file"
  /\ Ends(j, "respond", "error")
  /\ UNCHANGED <<rmVars, tx, table, file, answer, seen>>

(* The client is answered, and the connection is closed without a commit,  *)
(* so its transaction is rolled back.                                      *)
Respond(j) ==
  /\ job[j].pc = "respond"
  /\ answer' = [answer EXCEPT ![j] = job[j].outcome]
  /\ tx' = [tx EXCEPT ![j] = None]
  /\ JobGoes(j, "done")
  /\ UNCHANGED <<rmVars, table, file, seen>>

(* GET /internal/jobs/{job_id}, by a client that has been given the id.    *)
GetJob(j) ==
  /\ answer[j] = "succeeded"
  /\ seen' = [seen EXCEPT ![j] = IF table[j] = None THEN "missing" ELSE table[j]]
  /\ UNCHANGED <<rmVars, job, tx, table, file, answer>>

(* The process of a job, or the one of the readers, dies.                  *)
JobCrash(j) ==
  /\ CrashOf({j})
  /\ job' = [job EXCEPT ![j].pc = IF @ \in {"new", "done"} THEN @ ELSE "lost"]
  /\ tx' = [tx EXCEPT ![j] = None]
  /\ UNCHANGED <<table, file, answer, seen>>

ReaderRuns ==
  /\ \/ \E r \in Readers : Call(r) \/ Materialize(r)
     \/ CrashOf(Readers)
  /\ UNCHANGED jobVars

JobStep(j) ==
  \/ CreateReceipt(j) \/ FetchFails(j) \/ WriteDataset(j) \/ Publishes(j)
  \/ IngestEnds(j) \/ UpdateStatus(j) \/ StatementFails(j)
  \/ WriteFile(j) \/ WriteFileFails(j) \/ Respond(j)

JobsNext ==
  \/ ReaderRuns
  \/ \E j \in Jobs : JobStep(j) \/ GetJob(j) \/ JobCrash(j)

JobsSpec == JobsInit /\ [][JobsNext]_vars

----------------------------------------------------------------------------
JobsTypeOK ==
  /\ TypeOK
  /\ job \in [Jobs -> Job]
  /\ tx \in [Jobs -> Status \cup {None}]
  /\ table \in [Jobs -> Status \cup {None}]
  /\ file \in [Jobs -> {"succeeded", "failed", None}]
  /\ answer \in [Jobs -> {"succeeded", "failed", "error", None}]
  /\ seen \in [Jobs -> Status \cup {"missing", None}]

(* A job that is reported as succeeded, to its client or in a file, has    *)
(* published what it wrote, and readers have an index that is at least as  *)
(* new: then and ever after, whatever other jobs replace and clean up.     *)
SucceededIndexed ==
  \A j \in Jobs :
    "succeeded" \in {answer[j], file[j], tx[j]} =>
      /\ job[j].wrote # None
      /\ \E v \in Versions :
           index[v] # None /\ 0 < place[job[j].wrote] /\ place[job[j].wrote] <= place[v]

(* A client that is told how its job has ended finds the same in the file   *)
(* copy, if copies are written, and one that is told of an error finds     *)
(* none: no copy outlives an answer that it contradicts, although the copy *)
(* is written after the status and before the answer, either of which may  *)
(* fail.                                                                   *)
AnswerAgreesWithFile ==
  \A j \in Jobs :
    answer[j] # None =>
      file[j] = IF FsReceipts /\ answer[j] # "error" THEN answer[j] ELSE None

(* jobs.py: "Trigger a manual ingest job and persist a deterministic job   *)
(* receipt."  Whoever asks for a job that has succeeded finds its receipt. *)
ReceiptPersisted == \A j \in Jobs : seen[j] # "missing"
=============================================================================
