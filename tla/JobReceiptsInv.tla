---------------------------- MODULE JobReceiptsInv ----------------------------
(***************************************************************************)
(* The inductive invariant of JobReceipts: how far the publication of the  *)
(* version that a job has written has come, and what its receipt says.     *)
(***************************************************************************)
EXTENDS JobReceipts, ReadModelInv

Published(v) == v \in Versions /\ place[v] > 0

(* Readers have an index that is not older than version v.                 *)
Covered(v) == \E w \in Versions : index[w] # None /\ place[v] <= place[w]

(* The builder that cleans up has published its own index.                 *)
CleanupInv ==
  \A a \in Actors : build[a].pc = "cleanup" => index[build[a].version] # None

(* Before the rename, after it, with a version at hand that is not older,  *)
(* and with an index.                                                      *)
Holding == {"check", "read", "publish"}
Indexed == {"cleanup", "manifest", "fastmanifest", "returned"}
RunInv(j) ==
  /\ job[j].pc = "new" => build[j].pc = "idle"
  /\ job[j].pc \in {"update", "file"} => job[j].outcome \in {"succeeded", "failed"}
  /\ job[j].pc = "respond" => job[j].outcome # "none"
  /\ job[j].pc = "ingest" /\ build[j].pc = "rename" => job[j].wrote = build[j].version
  /\ job[j].pc = "ingest" /\ build[j].pc \in {"stat", "lock"} \cup Holding \cup Indexed
       => Published(job[j].wrote)
  /\ job[j].pc = "ingest" /\ build[j].pc \in Holding
       => place[job[j].wrote] <= place[build[j].version]
  /\ job[j].pc = "ingest" /\ build[j].pc \in Indexed => Covered(job[j].wrote)

Succeeded(j) == "succeeded" \in {job[j].outcome, tx[j], file[j], answer[j]}
ReceiptInv(j) ==
  Succeeded(j) =>
    /\ job[j].pc \notin {"new", "ingest"}
    /\ Published(job[j].wrote)
    /\ Covered(job[j].wrote)

(* The file copy of a job that has not come to it, has passed it, or has   *)
(* been answered; a crash may leave one of a job that nobody hears of.     *)
FileOf(outcome) == IF FsReceipts /\ outcome # "error" THEN outcome ELSE None
FileInv(j) ==
  /\ job[j].pc \in {"new", "ingest", "update", "file"} => file[j] = None
  /\ job[j].pc = "respond" => file[j] = FileOf(job[j].outcome)
  /\ job[j].pc = "done" => file[j] = FileOf(answer[j])
  /\ job[j].pc # "done" => answer[j] = None

JobsInv ==
  /\ PublicationInv
  /\ JobsTypeOK
  /\ CleanupInv
  /\ \A j \in Jobs : RunInv(j) /\ ReceiptInv(j) /\ FileInv(j)
=============================================================================
