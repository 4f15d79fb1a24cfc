-------------------------------- MODULE Migrate --------------------------------
(***************************************************************************)
(* scripts/migrate.sh: applies the numbered SQL files that are not         *)
(* recorded yet, each in a session of its own and records it in another.   *)
(* A database that Docker has initialised from the same files has no       *)
(* record of them: the script then records them all without applying them. *)
(***************************************************************************)
EXTENDS Integers, FiniteSets

CONSTANTS
  Runs,       \* executions of the script
  LastFile,   \* the number of schema files; LastFile + 1 is the seed file
  Fragile,    \* files that fail when they are applied twice: CREATE TABLE
  Telling,    \* files whose tables tell that Docker has initialised the schema
  MaxKills,   \* bound: runs that are killed
  Together    \* may two runs overlap?

SchemaFiles == 1..LastFile
Seed == LastFile + 1
SqlFiles == 1..Seed

(* The seed updates the rows that are there; the tables that are looked    *)
(* for are not all of the first file.                                      *)
ASSUME MigrateAssumption ==
  /\ LastFile \in Nat \ {0}
  /\ Fragile \subseteq SchemaFiles
  /\ Telling \subseteq SchemaFiles /\ Telling \notin {{}, {1}}
  /\ MaxKills \in Nat
  /\ Together \in BOOLEAN

VARIABLES
  volume,     \* the files with which Docker has initialised the database
  applied,    \* files whose effects are in the database
  migrations, \* rows of public._migrations
  run,        \* run[m]: the execution m
  disturbed,  \* history: runs that were killed, began after a run that did not
              \* end well, or had another one beside them
  overlap     \* history: have two runs been active at once?

migrateVars == <<volume, applied, migrations, run, disturbed, overlap>>

Working == {"count", "detect", "baseline", "check", "apply", "record"}
Run == [pc : {"new", "done", "failed", "killed"} \cup Working,
        file : 1..(Seed + 1), seed : BOOLEAN, unrecorded : BOOLEAN]

MigrateInit ==
  /\ volume \in {{}} \cup {1..n : n \in SchemaFiles} \cup {SqlFiles}
  /\ applied = volume
  /\ migrations = {}
  /\ run = [m \in Runs |-> [pc |-> "new", file |-> 1, seed |-> FALSE, unrecorded |-> FALSE]]
  /\ disturbed = {}
  /\ overlap = FALSE

Active == {m \in Runs : run[m].pc \in Working}
Goto(m, pc, file) == run' = [run EXCEPT ![m].pc = pc, ![m].file = file]

StartRun(m, seed) ==
  /\ run[m].pc = "new"
  /\ Active = {} \/ Together
  /\ run' = [run EXCEPT ![m].pc = "count", ![m].seed = seed]
  /\ disturbed' = disturbed
       \cup (IF Active # {} THEN Active \cup {m} ELSE {})
       \cup (IF \E n \in Runs : run[n].pc \in {"failed", "killed"} THEN {m} ELSE {})
  /\ overlap' = (overlap \/ Active # {})
  /\ UNCHANGED <<volume, applied, migrations>>

CountRecorded(m) ==
  /\ run[m].pc = "count"
  /\ run' = [run EXCEPT ![m].pc = "detect", ![m].unrecorded = (migrations = {})]
  /\ UNCHANGED <<volume, applied, migrations, disturbed, overlap>>

DetectDocker(m) ==
  /\ run[m].pc = "detect"
  /\ Goto(m, IF run[m].unrecorded /\ Telling \subseteq applied THEN "baseline" ELSE "check", 1)
  /\ UNCHANGED <<volume, applied, migrations, disturbed, overlap>>

(* One row after the other, whether it is there or not.                    *)
Baseline(m) ==
  /\ run[m].pc = "baseline"
  /\ migrations' = migrations \cup {run[m].file}
  /\ IF run[m].file = LastFile THEN Goto(m, "check", 1)
     ELSE Goto(m, "baseline", run[m].file + 1)
  /\ UNCHANGED <<volume, applied, disturbed, overlap>>

(* The seed file is passed over unless it was asked for.                   *)
Wanted(m) == run[m].file \in SchemaFiles \/ run[m].seed

CheckFile(m) ==
  /\ run[m].pc = "check" /\ run[m].file \in SqlFiles
  /\ IF Wanted(m) /\ run[m].file \notin migrations THEN Goto(m, "apply", run[m].file)
     ELSE Goto(m, "check", run[m].file + 1)
  /\ UNCHANGED <<volume, applied, migrations, disturbed, overlap>>

Finish(m) ==
  /\ run[m].pc = "check" /\ run[m].file > Seed
  /\ Goto(m, "done", run[m].file)
  /\ UNCHANGED <<volume, applied, migrations, disturbed, overlap>>

(* One transaction; the script stops at the first error.                   *)
(* Faulty variant: without ON_ERROR_STOP the script goes on after an error. *)
ApplyFileUnstopped(m) ==
  /\ run[m].pc = "apply"
  /\ run[m].file \notin Fragile \cap applied
  /\ applied' \in {applied, applied \cup {run[m].file}}
  /\ Goto(m, "record", run[m].file)
  /\ UNCHANGED <<volume, migrations, disturbed, overlap>>
ApplyFile(m) ==
  /\ run[m].pc = "apply"
  /\ run[m].file \notin Fragile \cap applied
  /\ applied' = applied \cup {run[m].file}
  /\ Goto(m, "record", run[m].file)
  /\ UNCHANGED <<volume, migrations, disturbed, overlap>>

RecordFile(m) ==
  /\ run[m].pc = "record"
  /\ run[m].file \notin migrations
  /\ migrations' = migrations \cup {run[m].file}
  /\ Goto(m, "check", run[m].file + 1)
  /\ UNCHANGED <<volume, applied, disturbed, overlap>>

(* The table is there already, or the row is.                              *)
RunFails(m) ==
  /\ \/ run[m].pc = "apply" /\ run[m].file \in Fragile \cap applied
     \/ run[m].pc = "record" /\ run[m].file \in migrations
  /\ Goto(m, "failed", run[m].file)
  /\ UNCHANGED <<volume, applied, migrations, disturbed, overlap>>

RunKilled(m) ==
  /\ run[m].pc \in Working
  /\ Cardinality({n \in Runs : run[n].pc = "killed"}) < MaxKills
  /\ Goto(m, "killed", run[m].file)
  /\ disturbed' = disturbed \cup {m}
  /\ UNCHANGED <<volume, applied, migrations, overlap>>

MigrateNext ==
  \E m \in Runs :
    \/ \E seed \in BOOLEAN : StartRun(m, seed)
    \/ CountRecorded(m) \/ DetectDocker(m) \/ Baseline(m)
    \/ CheckFile(m) \/ ApplyFile(m) \/ RecordFile(m) \/ Finish(m)
    \/ RunFails(m) \/ RunKilled(m)

MigrateSpec == MigrateInit /\ [][MigrateNext]_migrateVars

----------------------------------------------------------------------------
(* Types of the migrations.                                                *)
MigrateTypeOK ==
  /\ volume \subseteq SqlFiles /\ applied \subseteq SqlFiles /\ migrations \subseteq SqlFiles
  /\ run \in [Runs -> Run]
  /\ disturbed \subseteq Runs /\ overlap \in BOOLEAN

(* What is recorded is applied, whichever runs are killed, unless the      *)
(* script has taken the volume of an older schema for one of the current   *)
(* schema; a run beside another one can make the same mistake with what    *)
(* that one has applied so far.                                            *)
RecordedApplied ==
  \/ migrations \subseteq applied
  \/ Telling \subseteq volume /\ ~(SchemaFiles \subseteq volume)
  \/ overlap

(* A run that ends well leaves no schema file unrecorded, and it does end  *)
(* well unless one was killed or failed before it, another one ran beside  *)
(* it, or the volume is that of a schema too old to be recognised.         *)
RunsEndWell ==
  \A m \in Runs :
    /\ run[m].pc = "done" => SchemaFiles \subseteq migrations
    /\ run[m].pc = "failed" =>
         m \in disturbed \/ (volume # {} /\ ~(Telling \subseteq volume))

(* The record of the migrations is true, and a run that ends well completes *)
(* it.                                                                      *)
MigrationsTrue == RecordedApplied /\ RunsEndWell
=============================================================================
