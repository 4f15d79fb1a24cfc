-------------------------------- MODULE Metrics --------------------------------
(***************************************************************************)
(* The HTTP counters: every request adds one to its total and to the       *)
(* bucket of its latency, in a SQLite table that all server processes      *)
(* share or, when that cannot be written, in counters of the process.  A   *)
(* snapshot reads the table and then adds the counters of its own process. *)
(***************************************************************************)
EXTENDS Integers, FiniteSets, Functions

CONSTANTS
  Workers,     \* the server processes
  Buckets,     \* latency buckets
  MaxRecords,  \* bound: recorded requests
  MaxRenewals  \* bound: restarts of processes

ASSUME MetricsAssumption ==
  /\ IsFiniteSet(Workers)
  /\ IsFiniteSet(Buckets) /\ "requests_total" \notin Buckets
  /\ MaxRecords \in Nat /\ MaxRenewals \in Nat

VARIABLES
  stored,    \* rows of the metrics table, by key
  fallback,  \* fallback[p]: the counters of process p
  snapshot,  \* snapshot[p]: the last snapshot that process p has begun
  recorded,  \* history: requests counted so far
  forgotten, \* history: counts that went with a process
  renewals   \* how often a process has restarted

metricsVars == <<stored, fallback, snapshot, recorded, forgotten, renewals>>

TotalKey == "requests_total"
CounterKeys == {TotalKey} \cup Buckets
Zeros == [k \in CounterKeys |-> 0]
PlusCounters(a, b) == [k \in CounterKeys |-> a[k] + b[k]]
Deltas(b) == [Zeros EXCEPT ![TotalKey] = 1, ![b] = 1]

(* atLeast: history, what the process could see when the snapshot began.   *)
Snapshots == [pc : {"none", "read", "done"}, counts : [CounterKeys -> Nat], atLeast : Nat]
NoSnapshot == [pc |-> "none", counts |-> Zeros, atLeast |-> 0]

MetricsInit ==
  /\ stored = Zeros
  /\ fallback = [p \in Workers |-> Zeros]
  /\ snapshot = [p \in Workers |-> NoSnapshot]
  /\ recorded = 0
  /\ forgotten = 0
  /\ renewals = 0

Recording ==
  /\ recorded < MaxRecords
  /\ recorded' = recorded + 1
  /\ UNCHANGED <<snapshot, forgotten, renewals>>

(* One transaction adds all the deltas of a request.                       *)
RecordStored(p, b) ==
  /\ Recording
  /\ stored' = PlusCounters(stored, Deltas(b))
  /\ UNCHANGED fallback

(* OSError or sqlite3.Error.                                               *)
RecordInProcess(p, b) ==
  /\ Recording
  /\ fallback' = [fallback EXCEPT ![p] = PlusCounters(@, Deltas(b))]
  /\ UNCHANGED stored

(* snapshot_http_metrics reads the table, or takes zeros when it cannot.   *)
SnapshotRead(p) ==
  /\ snapshot[p].pc # "read"
  /\ \E counts \in {stored, Zeros} :
       snapshot' = [snapshot EXCEPT ![p] = [pc |-> "read", counts |-> counts,
                      atLeast |-> counts[TotalKey] + fallback[p][TotalKey]]]
  /\ UNCHANGED <<stored, fallback, recorded, forgotten, renewals>>

(* Faulty variant: what is merged is written back to the process.          *)
SnapshotMergeInPlace(p) ==
  /\ snapshot[p].pc = "read"
  /\ snapshot' = [snapshot EXCEPT ![p].pc = "done",
                    ![p].counts = PlusCounters(@, fallback[p])]
  /\ fallback' = [fallback EXCEPT ![p] = PlusCounters(@, snapshot[p].counts)]
  /\ UNCHANGED <<stored, recorded, forgotten, renewals>>
SnapshotMerge(p) ==
  /\ snapshot[p].pc = "read"
  /\ snapshot' = [snapshot EXCEPT ![p].pc = "done",
                    ![p].counts = PlusCounters(@, fallback[p])]
  /\ UNCHANGED <<stored, fallback, recorded, forgotten, renewals>>

Renew(p) ==
  /\ renewals < MaxRenewals
  /\ renewals' = renewals + 1
  /\ fallback' = [fallback EXCEPT ![p] = Zeros]
  /\ snapshot' = [snapshot EXCEPT ![p] = NoSnapshot]
  /\ forgotten' = forgotten + fallback[p][TotalKey]
  /\ UNCHANGED <<stored, recorded>>

MetricsNext ==
  \E p \in Workers :
    \/ \E b \in Buckets : RecordStored(p, b) \/ RecordInProcess(p, b)
    \/ SnapshotRead(p) \/ SnapshotMerge(p) \/ Renew(p)

MetricsSpec == MetricsInit /\ [][MetricsNext]_metricsVars

----------------------------------------------------------------------------
(* Types of the counters.                                                  *)
MetricsTypeOK ==
  /\ stored \in [CounterKeys -> Nat]
  /\ fallback \in [Workers -> [CounterKeys -> Nat]]
  /\ snapshot \in [Workers -> Snapshots]
  /\ recorded \in Nat /\ forgotten \in Nat /\ renewals \in Nat

(* In every snapshot the latency buckets add up to the total, though it is *)
(* merged from two places that are read one after the other and written    *)
(* meanwhile.                                                              *)
SnapshotBalanced ==
  \A p \in Workers : snapshot[p].pc = "done" =>
    snapshot[p].counts[TotalKey] = SumFunctionOnSet(snapshot[p].counts, Buckets)

(* A snapshot never counts a request twice, and misses none that its       *)
(* process could see when it began; a request that is missing for good is  *)
(* one that a process took with it.                                        *)
SnapshotHonest ==
  /\ \A p \in Workers : snapshot[p].pc = "done" =>
       snapshot[p].counts[TotalKey] \in snapshot[p].atLeast..recorded
  /\ recorded = stored[TotalKey] + forgotten
                  + SumFunction([p \in Workers |-> fallback[p][TotalKey]])

(* A snapshot is balanced and honest.                                      *)
SnapshotTrue == SnapshotBalanced /\ SnapshotHonest
=============================================================================
