-------------------------- MODULE LiveSearchProofs ---------------------------
(***************************************************************************)
(* Theorems about LiveSearch for every value of its constants: its types,  *)
(* its safety properties from the inductive invariant of LiveSearchInv,    *)
(* what clients are told, and that every enrichment is accounted for.      *)
(***************************************************************************)
EXTENDS LiveSearchInv, FiniteSetTheorems, TLAPS

----------------------------------------------------------------------------
(* The helpers return what their names say.                                *)

LEMMA ApplyOsmType ==
  ASSUME NEW results \in Results, NEW osm \in Osm
  PROVE  ApplyOsm(results, osm) \in Results
  BY DEF ApplyOsm, Results, Osm, Verdict, OsmTier, MatchStatus

LEMMA ApplyBrandType ==
  ASSUME NEW results \in Results, NEW hits \in SUBSET Gyms
  PROVE  ApplyBrand(results, hits) \in Results
  BY DEF ApplyBrand, Results, MatchStatus

LEMMA SnapshotType ==
  ASSUME NEW probe \in CacheEntry \cup {None},
         NEW hits \in SUBSET Gyms, NEW shown \in SUBSET Gyms
  PROVE  Snapshot(probe, hits, shown) \in Results
<1> DEFINE confirmed == IF probe # None THEN ApplyOsm(TomTomOnly, probe.osm)
                                        ELSE TomTomOnly
<1>1. TomTomOnly \in Results
  BY DEF TomTomOnly, Results, MatchStatus
<1>2. confirmed \in Results
  BY <1>1, ApplyOsmType DEF CacheEntry
<1>3. ApplyBrand(confirmed, hits) \in Results
  BY <1>2, ApplyBrandType
<1>4. QED
  BY <1>3 DEF Snapshot, Results

LEMMA ReplacedType ==
  ASSUME NEW session \in Session, NEW results \in Results,
         NEW enrichment \in {"pending", "completed", "failed", "skipped"}
  PROVE  Replaced(session, results, enrichment) \in Session
<1>1. NextRevision(session) \in Nat
  BY DEF NextRevision, Session
<1>2. QED
  BY <1>1 DEF Replaced, Session

LEMMA RecordTypes ==
  /\ NewRequest \in Request /\ IdleTask \in Task /\ IdlePoll \in Poll
  /\ Unknown \in Reply /\ NotFound \in Reply
<1>1. NewRequest \in Request
  BY ConstantAssumption DEF NewRequest, Request, Query
<1>2. IdleTask \in Task
  BY DEF IdleTask, Task
<1>3. IdlePoll \in Poll
  BY DEF IdlePoll, Poll
<1>4. Unknown \in Reply /\ NotFound \in Reply
  BY DEF Unknown, NotFound, Reply
<1>5. QED
  BY <1>1, <1>2, <1>3, <1>4

LEMMA RequestType ==
  ASSUME NEW r \in Request, NEW pc \in {"respond", "done", "failed"} \cup Awaiting,
         NEW probe \in CacheEntry \cup {None}, NEW deadline \in Nat
  PROVE  /\ [r EXCEPT !.pc = pc] \in Request
         /\ [r EXCEPT !.pc = pc, !.deadline = deadline] \in Request
         /\ [r EXCEPT !.probe = probe] \in Request
         /\ [r EXCEPT !.pc = pc, !.probe = None, !.deadline = 0] \in Request
  BY DEF Request

LEMMA EndedTaskType ==
  ASSUME NEW pc \in {"idle", "done", "raised", "lost", "queued"}
  PROVE  EndedTask(pc) \in Task /\ EndedTask(pc).pc = pc
  BY RecordTypes DEF EndedTask, IdleTask, Task, Running

LEMMA SettleType ==
  ASSUME NEW owed \in {"nothing", "failure", "write_failure"},
         metrics \in [Counters -> Nat], Settle(owed)
  PROVE  metrics' \in [Counters -> Nat]
  BY DEF Settle, Count, Counters

LEMMA LoadTyped ==
  ASSUME TypeInv, NEW s \in Searches,
         NEW from \in {"load", "markload"}, NEW to \in {"replace", "markreplace"},
         from = "load" <=> to = "replace",
         LoadStep(s, from, to)
  PROVE  TypeInv'
<1> USE DEF TypeInv, TypeOK, ActorsOK, server, history
<1>1. CASE Load(s, from, to)
  BY ZenonT(60), <1>1 DEF Load, Unsettled, Loaded, TaskUnchanged, Task, Running, Marking
<1>2. CASE LoadGone(s, from)
  <2>1. files' \in [Searches -> Session \cup {None}]
    BY <1>2 DEF LoadGone, FilesAfterLoad, Unlink
  <2>2. metrics' \in [Counters -> Nat]
    BY <1>2, SettleType DEF LoadGone, Task
  <2>3. task' \in [Searches -> Task] /\ ActorsOK'
    BY <1>2 DEF LoadGone, EndedTask, IdleTask, TaskUnchanged, Task, Running, Marking
  <2>4. QED
    BY <1>2, <2>1, <2>2, <2>3 DEF LoadGone, TaskUnchanged
<1>3. CASE LoadUnreadable(s, from)
  <2>1. metrics' \in [Counters -> Nat]
    BY <1>3, SettleType DEF LoadUnreadable, Task
  <2>2. task' \in [Searches -> Task] /\ ActorsOK'
    BY <1>3 DEF LoadUnreadable, EndedTask, IdleTask, TaskUnchanged, Task, Running, Marking
  <2>3. QED
    BY <1>3, <2>1, <2>2 DEF LoadUnreadable, TaskUnchanged
<1>4. QED
  BY <1>1, <1>2, <1>3 DEF LoadStep

----------------------------------------------------------------------------
(* Every variable keeps its type, and every actor has what it needs.       *)

LEMMA InitTyped == Init => TypeInv
<1> SUFFICES ASSUME Init PROVE TypeInv
  OBVIOUS
<1>1. /\ req \in [Searches -> Request]
      /\ task \in [Searches -> Task]
      /\ poll \in [Clients -> Poll]
      /\ view \in [Clients -> [Searches -> Reply]]
  BY RecordTypes DEF Init
<1>2. /\ now \in Nat /\ up \in BOOLEAN /\ crashes \in Nat
      /\ cache \in [Keys -> CacheEntry \cup {None}]
      /\ files \in [Searches -> Session \cup {None}]
      /\ metrics \in [Counters -> Nat]
      /\ osmSeen \in [Searches -> CacheEntry \cup {None}]
      /\ orphaned \subseteq Searches /\ uncounted \subseteq Searches
  BY DEF Init
<1>3. ActorsOK
  BY DEF Init, ActorsOK, NewRequest, Awaiting, IdleTask, IdlePoll
<1>4. QED
  BY <1>1, <1>2, <1>3 DEF TypeInv, TypeOK

LEMMA StepTyped == TypeInv /\ [Next]_vars => TypeInv'
<1> SUFFICES ASSUME TypeInv, [Next]_vars PROVE TypeInv'
  OBVIOUS
<1> USE DEF TypeInv, TypeOK, ActorsOK, server, history
<1>d. Deadline \in Nat
  BY ConstantAssumption DEF Deadline
<1>1. CASE Tick
  BY <1>1 DEF Tick
<1>2. CASE Startup
  BY <1>2, ConstantAssumption DEF Startup, CacheEntry
<1>3. CASE Crash
  <2>1. req' \in [Searches -> Request]
    BY <1>3, RecordTypes DEF Crash, Request, Awaiting
  <2>2. task' \in [Searches -> Task]
    BY <1>3, EndedTaskType DEF Crash
  <2>3. poll' \in [Clients -> Poll]
    BY <1>3, RecordTypes DEF Crash
  <2>4. ActorsOK'
    BY <1>3 DEF Crash, NewRequest, Request, Awaiting, EndedTask, IdleTask, Task, Running,
                Marking, IdlePoll, Poll
  <2>5. now' \in Nat /\ crashes' \in Nat
    BY <1>3 DEF Crash
  <2>u. up' \in BOOLEAN
    BY <1>3 DEF Crash
  <2>6. orphaned' \subseteq Searches /\ uncounted' \subseteq Searches
    BY <1>3 DEF Crash
  <2>7. QED
    BY <1>3, <2>1, <2>2, <2>3, <2>4, <2>5, <2>u, <2>6 DEF Crash
<1>4. ASSUME NEW s \in Searches, NEW c \in Clients, NEW k \in Keys, NEW query \in Query,
             StartSearch(s, c, k, query)
      PROVE  TypeInv'
  BY <1>4, <1>d DEF StartSearch, Await, ReqUnchanged, NewRequest, Request, Awaiting
<1>5. ASSUME NEW s \in Searches, SearchFails(s)
      PROVE  TypeInv'
  <2>1. /\ [NewRequest EXCEPT !.pc = "failed"] \in Request
        /\ [NewRequest EXCEPT !.pc = "failed"].pc = "failed"
    BY RecordTypes DEF NewRequest, Request
  <2>2. req' = [req EXCEPT ![s] = [NewRequest EXCEPT !.pc = "failed"]]
    BY <1>5 DEF SearchFails
  <2>3. req' \in [Searches -> Request]
    BY <2>1, <2>2
  <2>4. ActorsOK'
    BY <1>5, <2>1, <2>2 DEF SearchFails, ReqUnchanged, Awaiting
  <2>5. QED
    BY <1>5, <2>3, <2>4 DEF SearchFails, ReqUnchanged
<1>6. ASSUME NEW s \in Searches, Geocoded(s)
      PROVE  TypeInv'
  <2> DEFINE probe == IF Fresh(cache[req[s].key]) THEN cache[req[s].key] ELSE None
             new == [[req[s] EXCEPT !.probe = probe] EXCEPT !.pc = "search",
                                                            !.deadline = Deadline]
  <2>1. probe \in CacheEntry \cup {None}
    BY DEF Request
  <2>2. new \in Request
    <3>1. [req[s] EXCEPT !.probe = probe] \in Request
      BY <2>1, RequestType DEF Awaiting
    <3>2. QED
      BY <1>d, <2>1, <3>1, RequestType DEF Awaiting
  <2>3. new.client = req[s].client
    BY DEF Request
  <2>4. req' = [req EXCEPT ![s] = new]
    BY <1>6 DEF Geocoded, Await
  <2>5. req' \in [Searches -> Request] /\ ActorsOK'
    BY <1>6, <2>2, <2>3, <2>4 DEF Geocoded, ReqUnchanged, Awaiting
  <2>6. QED
    BY <1>6, <2>5 DEF Geocoded, ReqUnchanged
<1>7. ASSUME NEW s \in Searches, GymsFound(s)
      PROVE  TypeInv'
  BY ZenonT(60), <1>7, <1>d DEF GymsFound, Await, ReqUnchanged, Request, Awaiting
<1>8. ASSUME NEW s \in Searches, NEW hits \in SUBSET Gyms, NEW shown \in SUBSET Gyms,
             CreateSession(s, hits, shown)
      PROVE  TypeInv'
  <2> DEFINE probe == req[s].probe
             session == [owner |-> req[s].client,
                         status |-> IF probe # None THEN "ready" ELSE "enriching",
                         enrichment |-> IF probe # None THEN "skipped" ELSE "pending",
                         revision |-> 0, created |-> now, expires |-> now + SessionTTL,
                         results |-> Snapshot(probe, hits, shown)]
  <2>1. probe \in CacheEntry \cup {None} /\ req[s].client \in Clients
    BY <1>8 DEF CreateSession, LastAwaitDone, Request, Awaiting
  <2>2. Snapshot(probe, hits, shown) \in Results
    BY <2>1, SnapshotType
  <2>3. session \in Session
    BY <2>1, <2>2, ConstantAssumption DEF Session
  <2>4. files' = [files EXCEPT ![s] = session]
    BY <1>8 DEF CreateSession
  <2>5. files' \in [Searches -> Session \cup {None}]
    BY <2>3, <2>4
  <2>6. req' \in [Searches -> Request] /\ ActorsOK'
    BY ZenonT(60), <1>8 DEF CreateSession, LastAwaitDone, Request, Awaiting, ReqUnchanged
  <2>7. metrics' \in [Counters -> Nat]
    BY <1>8 DEF CreateSession, Count, Counters
  <2>8. osmSeen' \in [Searches -> CacheEntry \cup {None}]
    BY <1>8, <2>1 DEF CreateSession
  <2>9. UNCHANGED <<now, up, crashes, cache, task, poll, view, orphaned, uncounted>>
    BY <1>8 DEF CreateSession, ReqUnchanged
  <2>10. QED
    BY <2>5, <2>6, <2>7, <2>8, <2>9
<1>9. ASSUME NEW s \in Searches, CreateFails(s)
      PROVE  TypeInv'
  <2>1. /\ [NewRequest EXCEPT !.pc = "failed"] \in Request
        /\ [NewRequest EXCEPT !.pc = "failed"].pc = "failed"
    BY RecordTypes DEF NewRequest, Request
  <2>2. req' = [req EXCEPT ![s] = [NewRequest EXCEPT !.pc = "failed"]]
    BY <1>9 DEF CreateFails
  <2>3. req' \in [Searches -> Request]
    BY <2>1, <2>2
  <2>4. ActorsOK'
    BY <1>9, <2>1, <2>2 DEF CreateFails, ReqUnchanged, Awaiting
  <2>5. QED
    BY <1>9, <2>3, <2>4 DEF CreateFails, ReqUnchanged
<1>10. ASSUME NEW s \in Searches, Respond(s)
       PROVE  TypeInv'
  <2>1. req' \in [Searches -> Request]
    <3> DEFINE new == [req[s] EXCEPT !.pc = "done", !.probe = None, !.deadline = 0]
    <3>1. new \in Request
      BY RequestType
    <3>2. req' = [req EXCEPT ![s] = new]
      BY <1>10 DEF Respond
    <3>3. QED
      BY <3>1, <3>2
  <2>2. task' \in [Searches -> Task]
    BY <1>10 DEF Respond, EndedTask, IdleTask, Task, Running, Marking
  <2>3. view' \in [Clients -> [Searches -> Reply]]
    <3> DEFINE reply == [status |-> IF req[s].probe # None THEN "ready" ELSE "enriching",
                         revision |-> 0]
    <3>1. req[s].client \in Clients /\ reply \in Reply
      BY <1>10 DEF Respond, Reply
    <3>2. view' = [view EXCEPT ![req[s].client][s] = reply]
      BY <1>10 DEF Respond
    <3>3. QED
      BY <3>1, <3>2
  <2>4. ActorsOK'
    BY <1>10 DEF Respond, Request, Awaiting, EndedTask, IdleTask, Task
  <2>5. QED
    BY <1>10, <2>1, <2>2, <2>3, <2>4 DEF Respond
<1>11. ASSUME NEW s \in Searches, NEW osm \in Osm, Fetched(s, osm)
       PROVE  TypeInv'
  <2> DEFINE new == [task[s] EXCEPT !.pc = "cache", !.osm = osm]
  <2>1. task[s] \in Task
    OBVIOUS
  <2>2. new \in Task
    BY <2>1 DEF Task, Running
  <2>3. task' = [task EXCEPT ![s] = new]
    BY <1>11 DEF Fetched
  <2> HIDE DEF new
  <2>4. task' \in [Searches -> Task]
    BY <2>2, <2>3
  <2>5. QED
    BY <1>11, <2>4 DEF Fetched, TaskUnchanged
<1>12. ASSUME NEW s \in Searches, FetchFails(s)
       PROVE  TypeInv'
  BY <1>12 DEF FetchFails, TaskUnchanged, Task, Running, Marking
<1>13. ASSUME NEW s \in Searches, CacheWritten(s)
       PROVE  TypeInv'
  <2>1. cache' \in [Keys -> CacheEntry \cup {None}]
    BY <1>13 DEF CacheWritten, CacheEntry, Request
  <2>2. task' \in [Searches -> Task] /\ ActorsOK'
    BY <1>13 DEF CacheWritten, TaskGoes, TaskUnchanged, Task, Running, Marking
  <2>3. metrics' \in [Counters -> Nat]
    BY <1>13 DEF CacheWritten, Count, Counters
  <2>4. QED
    BY <1>13, <2>1, <2>2, <2>3 DEF CacheWritten, TaskUnchanged
<1>14. ASSUME NEW s \in Searches, CacheWriteFails(s)
       PROVE  TypeInv'
  BY ZenonT(60), <1>14 DEF CacheWriteFails, TaskUnchanged, Task, Running, Marking
<1>15. ASSUME NEW s \in Searches, LoadStep(s, "load", "replace")
       PROVE  TypeInv'
  BY <1>15, LoadTyped
<1>16. ASSUME NEW s \in Searches, Enrich(s)
       PROVE  TypeInv'
  <2> DEFINE snap == task[s].snap
             new == Replaced(snap, ApplyOsm(snap.results, task[s].osm), "completed")
  <2>1. snap \in Session /\ task[s].osm \in Osm
    BY <1>16 DEF Enrich
  <2>2. ApplyOsm(snap.results, task[s].osm) \in Results
    BY <2>1, ApplyOsmType DEF Session
  <2>3. new \in Session
    BY <2>1, <2>2, ReplacedType
  <2>4. files' \in [Searches -> Session \cup {None}]
    <3>1. files' = [files EXCEPT ![s] = new]
      BY <1>16 DEF Enrich
    <3>2. QED
      BY <2>3, <3>1
  <2>5. osmSeen' \in [Searches -> CacheEntry \cup {None}]
    BY <1>16, <2>1 DEF Enrich, CacheEntry
  <2>6. task' \in [Searches -> Task] /\ ActorsOK'
    BY <1>16 DEF Enrich, EndedTask, IdleTask, TaskUnchanged, Task, Running, Marking
  <2>7. QED
    BY <1>16, <2>4, <2>5, <2>6 DEF Enrich, TaskUnchanged
<1>17. ASSUME NEW s \in Searches, EnrichFails(s)
       PROVE  TypeInv'
  BY ZenonT(60), <1>17 DEF EnrichFails, TaskUnchanged, Task, Running, Marking
<1>18. ASSUME NEW s \in Searches, LoadStep(s, "markload", "markreplace")
       PROVE  TypeInv'
  BY <1>18, LoadTyped
<1>19. ASSUME NEW s \in Searches, MarkFailed(s)
       PROVE  TypeInv'
  <2> DEFINE snap == task[s].snap
             new == Replaced(snap, snap.results, "failed")
  <2>1. snap \in Session
    BY <1>19 DEF MarkFailed
  <2>2. new \in Session
    BY <2>1, ReplacedType DEF Session
  <2>3. files' \in [Searches -> Session \cup {None}]
    <3>1. files' = [files EXCEPT ![s] = new]
      BY <1>19 DEF MarkFailed
    <3>2. QED
      BY <2>2, <3>1
  <2>4. task' \in [Searches -> Task] /\ ActorsOK'
    BY <1>19 DEF MarkFailed, EndedTask, IdleTask, TaskUnchanged, Task, Running, Marking
  <2>5. metrics' \in [Counters -> Nat]
    BY <1>19, SettleType DEF MarkFailed, Task
  <2>6. QED
    BY <1>19, <2>3, <2>4, <2>5 DEF MarkFailed, TaskUnchanged
<1>20. ASSUME NEW s \in Searches, MarkRaises(s)
       PROVE  TypeInv'
  BY <1>20 DEF MarkRaises, EndedTask, IdleTask, TaskUnchanged, Task, Running, Marking
<1>21. ASSUME NEW c \in Clients, NEW s \in Searches, PollRead(c, s)
       PROVE  TypeInv'
  <2>1. poll' \in [Clients -> Poll]
    BY <1>21 DEF PollRead, Poll
  <2>2. ActorsOK'
    BY <1>21 DEF PollRead, Poll
  <2>3. QED
    BY <1>21, <2>1, <2>2 DEF PollRead
<1>22. ASSUME NEW c \in Clients, PollFinish(c)
       PROVE  TypeInv'
  <2> DEFINE s == poll[c].id
             snap == poll[c].snap
  <2>1. s \in Searches /\ snap \in Session \cup {None}
    BY <1>22 DEF PollFinish, Poll
  <2>2. files' \in [Searches -> Session \cup {None}]
    BY <1>22, <2>1 DEF PollFinish, Unlink
  <2>3. snap # None => ReplyOf(snap) \in Reply
    BY <2>1 DEF ReplyOf, Reply, Session
  <2>4. view' \in [Clients -> [Searches -> Reply]]
    <3>1. PICK reply \in Reply : view' = [view EXCEPT ![c][s] = reply]
      BY <1>22, <2>3 DEF PollFinish, NotFound, Reply
    <3>2. QED
      BY <2>1, <3>1
  <2>5. poll' \in [Clients -> Poll] /\ ActorsOK'
    BY <1>22 DEF PollFinish, IdlePoll, Poll
  <2>6. QED
    BY <1>22, <2>2, <2>4, <2>5 DEF PollFinish
<1>23. CASE UNCHANGED vars
  BY <1>23 DEF vars
<1> HIDE DEF TypeInv
<1>24. QED
  BY <1>1, <1>2, <1>3, <1>4, <1>5, <1>6, <1>7, <1>8, <1>9, <1>10, <1>11, <1>12, <1>13,
     <1>14, <1>15, <1>16, <1>17, <1>18, <1>19, <1>20, <1>21, <1>22, <1>23
  DEF Next, RequestStep, TaskStep

(* Type correctness: no step of a handler, a task, a poll or a crash gives *)
(* a variable a value outside its type (it holds of the code's records as  *)
(* modelled in Request, Task, Session and CacheEntry).                     *)
THEOREM TypeCorrect == Spec => []TypeOK
<1>1. Init => TypeInv
  BY InitTyped
<1>2. TypeInv /\ [Next]_vars => TypeInv'
  BY StepTyped
<1>3. TypeInv => TypeOK
  BY DEF TypeInv
<1>4. QED
  BY <1>1, <1>2, <1>3, PTL DEF Spec

----------------------------------------------------------------------------
(* The safety properties, from the inductive invariant of LiveSearchInv.   *)

(* What the proofs need to know of the records the actions build.          *)
NewVersion(new, session, results, enrichment) ==
  /\ new \in Session
  /\ new.status = "ready" /\ new.enrichment = enrichment
  /\ new.revision = session.revision + 1
  /\ new.owner = session.owner
  /\ new.created = session.created /\ new.expires = session.expires
  /\ new.results = results

LEMMA ReplacedFields ==
  ASSUME NEW session \in Session, NEW results \in Results,
         NEW enrichment \in {"pending", "completed", "failed", "skipped"}
  PROVE  NewVersion(Replaced(session, results, enrichment), session, results, enrichment)
<1>1. NextRevision(session) = session.revision + 1
  BY DEF NextRevision
<1>2. Replaced(session, results, enrichment) \in Session
  BY ReplacedType
<1> HIDE DEF NextRevision
<1>3. QED
  BY <1>1, <1>2 DEF NewVersion, Replaced, Session

LEMMA EndedTaskFields ==
  ASSUME NEW pc \in {"idle", "done", "raised", "lost", "queued"}
  PROVE  EndedTask(pc).pc = pc /\ EndedTask(pc).owes = "nothing"
  BY DEF EndedTask, IdleTask

LEMMA StringFacts ==
  /\ "new" \notin Awaiting /\ "respond" \notin Awaiting
  /\ "done" \notin Awaiting /\ "failed" \notin Awaiting
  /\ "idle" \notin Running /\ "done" \notin Running /\ "raised" \notin Running
  /\ "lost" \notin Running
  BY DEF Awaiting, Running, Marking

(* A handler that has not created its session yet moves on.                *)
LEMMA HandlerMoves ==
  ASSUME TypeInv, TypeInv', SessionInv, NEW s \in Searches, NEW r \in Request,
         req[s].pc \notin {"respond", "done"}, r.pc \notin {"respond", "done"},
         req' = [req EXCEPT ![s] = r],
         UNCHANGED <<now, files, task, poll, osmSeen>>
  PROVE  SessionInv'
<1> USE DEF SessionInv, TypeInv, TypeOK, ActorsOK
<1>1. StoredSessionsCoherent'
  BY DEF StoredSessionsCoherent, Coherent, NoOsmTier
<1>2. HandlerInv'
  BY DEF HandlerInv
<1>3. TaskInv'
  BY DEF HandlerInv, TaskInv, Running, Marking, Replacing, Unsettled, Coherent, NoOsmTier, Expired
<1>4. PollInv'
  BY DEF PollInv, SameSession, Replacing, Expired
<1>5. QED
  BY <1>1, <1>2, <1>3, <1>4

(* A running task moves to a step in which it has not loaded its session.  *)
LEMMA TaskMoves ==
  ASSUME TypeInv, TypeInv', SessionInv, NEW s \in Searches, NEW t \in Task,
         task[s].pc \in Running, t.pc \in Running \ {"replace", "markreplace"},
         task' = [task EXCEPT ![s] = t],
         UNCHANGED <<now, files, req, poll, osmSeen>>
  PROVE  SessionInv'
<1> USE DEF SessionInv, TypeInv, TypeOK, ActorsOK
<1>1. StoredSessionsCoherent'
  BY DEF StoredSessionsCoherent, Coherent, NoOsmTier
<1>2. HandlerInv'
  BY StringFacts DEF HandlerInv, TaskInv
<1>3. TaskInv'
  BY DEF TaskInv, Replacing, Unsettled, Coherent, NoOsmTier, Expired
<1>4. PollInv'
  BY DEF PollInv, SameSession, Replacing, Expired
<1>5. QED
  BY <1>1, <1>2, <1>3, <1>4

(* A running task ends and leaves its session alone, or finds it expired.  *)
LEMMA TaskEnds ==
  ASSUME TypeInv, TypeInv', SessionInv, NEW s \in Searches,
         NEW pc \in {"done", "raised"},
         task[s].pc \in Running, task' = [task EXCEPT ![s] = EndedTask(pc)],
         files' = files \/ files' = FilesAfterLoad(s),
         UNCHANGED <<now, req, poll, osmSeen>>
  PROVE  SessionInv'
<1> USE DEF SessionInv, TypeInv, TypeOK, ActorsOK
<1>f. \A t \in Searches : files'[t] = files[t]
                             \/ (files'[t] = None /\ Expired(files[t]) /\ t = s)
  BY DEF FilesAfterLoad, Unlink
<1>t. task'[s].pc \notin Running /\ \A t \in Searches \ {s} : task'[t] = task[t]
  BY EndedTaskFields, StringFacts
<1>1. StoredSessionsCoherent'
  BY <1>f DEF StoredSessionsCoherent, Coherent, NoOsmTier
<1>2. HandlerInv'
  BY <1>f, StringFacts DEF HandlerInv, TaskInv
<1>3. TaskInv'
  BY <1>f, <1>t DEF TaskInv, Replacing, Unsettled, Coherent, NoOsmTier, Expired
<1>4. PollInv'
  BY <1>f, <1>t DEF PollInv, SameSession, Replacing, Expired, Running, Marking
<1>5. QED
  BY <1>1, <1>2, <1>3, <1>4

(* A running task loads its session, which is pending.                     *)
LEMMA TaskLoads ==
  ASSUME TypeInv, TypeInv', SessionInv, NEW s \in Searches,
         NEW from \in {"load", "markload"}, NEW to \in {"replace", "markreplace"},
         Load(s, from, to)
  PROVE  SessionInv'
<1> USE DEF SessionInv, TypeInv, TypeOK, ActorsOK
<1>l. Unsettled(files[s]) /\ task'[s].snap = files[s] /\ task'[s].pc = to
  BY DEF Load, Loaded, Unsettled, Task, Running, Marking
<1>t. /\ task[s].pc = from /\ \A t \in Searches \ {s} : task'[t] = task[t]
      /\ UNCHANGED <<now, files, req, poll, osmSeen>>
  BY DEF Load, TaskUnchanged, history
<1>1. StoredSessionsCoherent'
  BY <1>t DEF StoredSessionsCoherent, Coherent, NoOsmTier
<1>2. HandlerInv'
  BY <1>t DEF HandlerInv, TaskInv, Running, Marking
<1>c. Coherent(files[s]) /\ NoOsmTier(files[s])
  BY <1>l, <1>t DEF StoredSessionsCoherent, TaskInv, Running, Marking, Unsettled
<1>3. TaskInv'
  <2> SUFFICES ASSUME NEW t \in Searches, task'[t].pc \in Running
               PROVE  /\ req[t].pc = "done"
                      /\ osmSeen[t] = None
                      /\ files[t] # None => Unsettled(files[t])
                      /\ task'[t].pc \in {"replace", "markreplace"} =>
                           LET snap == task'[t].snap
                           IN /\ Unsettled(snap) /\ Coherent(snap) /\ NoOsmTier(snap)
                              /\ files[t] = snap \/ (files[t] = None /\ Expired(snap))
    BY <1>t DEF TaskInv, Replacing, Unsettled, Coherent, NoOsmTier, Expired
  <2>1. CASE t = s
    BY <2>1, <1>l, <1>t, <1>c DEF TaskInv, Running, Marking, Unsettled
  <2>2. CASE t # s
    BY <2>2, <1>t DEF TaskInv, Replacing
  <2>3. QED
    BY <2>1, <2>2
<1>4. PollInv'
  <2> SUFFICES ASSUME NEW c \in Clients, poll[c].pc = "read", poll[c].snap # None
               PROVE  LET t == poll[c].id
                          snap == poll[c].snap
                      IN /\ req[t].pc = "done"
                         /\ files[t] # None => SameSession(files[t], snap)
                         /\ files[t] = None => Expired(snap)
                         /\ task'[t].pc \in {"replace", "markreplace"} =>
                              SameSession(task'[t].snap, snap)
                         /\ snap.status = "enriching" => snap.revision = 0
                         /\ snap.status = "ready" =>
                              task'[t].pc \notin Running /\ files[t] \in {None, snap}
    BY <1>t DEF PollInv, SameSession, Replacing, Expired
  <2>1. poll[c].id \in Searches
    OBVIOUS
  <2>2. CASE poll[c].id = s
    BY <2>2, <1>l, <1>t DEF PollInv, Running, Marking, Unsettled
  <2>3. CASE poll[c].id # s
    BY <2>1, <2>3, <1>t DEF PollInv, Replacing
  <2>4. QED
    BY <2>2, <2>3
<1>5. QED
  BY <1>1, <1>2, <1>3, <1>4

(* A running task replaces its session by a settled version of what it has *)
(* loaded, and ends.                                                       *)
LEMMA TaskReplaces ==
  ASSUME TypeInv, TypeInv', SessionInv, NEW s \in Searches, Replacing(s),
         NEW results \in Results, NEW enrichment \in {"completed", "failed"},
         files' = [files EXCEPT ![s] = Replaced(task[s].snap, results, enrichment)],
         task' = [task EXCEPT ![s] = EndedTask("done")],
         enrichment = "failed" => results = task[s].snap.results /\ UNCHANGED osmSeen,
         enrichment = "completed" =>
           \E e \in CacheEntry : osmSeen' = [osmSeen EXCEPT ![s] = e],
         UNCHANGED <<now, req, poll>>
  PROVE  SessionInv'
<1> USE DEF SessionInv, TypeInv, TypeOK, ActorsOK
<1>s. /\ task[s].snap \in Session /\ task[s].pc \in Running
      /\ Unsettled(task[s].snap) /\ Coherent(task[s].snap) /\ NoOsmTier(task[s].snap)
      /\ files[s] = task[s].snap \/ (files[s] = None /\ Expired(task[s].snap))
      /\ req[s].pc = "done" /\ osmSeen[s] = None
  BY DEF TaskInv, Replacing, Running, Marking, Coherent
<1>n. LET new == files'[s]
      IN /\ new \in Session /\ new # None
         /\ new.status = "ready" /\ new.enrichment = enrichment
         /\ new.revision = task[s].snap.revision + 1
         /\ SameSession(new, task[s].snap)
         /\ new.created = task[s].snap.created
         /\ new.results = results
  <2>1. files'[s] = Replaced(task[s].snap, results, enrichment)
    OBVIOUS
  <2>2. NewVersion(Replaced(task[s].snap, results, enrichment), task[s].snap, results, enrichment)
    BY <1>s, ReplacedFields
  <2>3. NewVersion(files'[s], task[s].snap, results, enrichment)
    BY <2>1, <2>2
  <2>4. QED
    BY <2>3, NoneAssumption DEF NewVersion, SameSession
<1>o. \A t \in Searches \ {s} : /\ files'[t] = files[t] /\ task'[t] = task[t]
                                /\ osmSeen'[t] = osmSeen[t]
  OBVIOUS
<1>t. task'[s].pc = "done"
  BY EndedTaskFields
<1>c. Coherent(files'[s])
  BY <1>s, <1>n DEF Coherent, Unsettled, SameSession, Session
<1>1. StoredSessionsCoherent'
  <2> SUFFICES ASSUME NEW t \in Searches, files'[t] # None
               PROVE  /\ Coherent(files'[t])
                      /\ osmSeen'[t] = None <=> files'[t].enrichment \in {"pending", "failed"}
                      /\ osmSeen'[t] = None => NoOsmTier(files'[t])
    BY DEF StoredSessionsCoherent, Coherent, NoOsmTier
  <2>1. CASE t # s
    BY <2>1, <1>o DEF StoredSessionsCoherent
  <2>2. CASE t = s /\ enrichment = "failed"
    BY <2>2, <1>s, <1>n, <1>c DEF NoOsmTier
  <2>3. CASE t = s /\ enrichment = "completed"
    BY <2>3, <1>n, <1>c, NoneAssumption
  <2>4. QED
    BY <2>1, <2>2, <2>3
<1>2. HandlerInv'
  BY <1>s, <1>o DEF HandlerInv
<1>3. TaskInv'
  BY <1>s, <1>o, <1>t, StringFacts
  DEF TaskInv, Replacing, Unsettled, Coherent, NoOsmTier, Expired
<1>4. PollInv'
  BY <1>s, <1>n, <1>o, <1>t, StringFacts
  DEF PollInv, SameSession, Replacing, Expired, Unsettled
<1>5. QED
  BY <1>1, <1>2, <1>3, <1>4

(* A new session is stored by its handler.                                 *)
LEMMA SessionCreated ==
  ASSUME TypeInv, TypeInv', SessionInv,
         NEW s \in Searches, NEW hits \in SUBSET Gyms, NEW shown \in SUBSET Gyms,
         CreateSession(s, hits, shown)
  PROVE  SessionInv'
<1> USE DEF SessionInv, TypeInv, TypeOK, ActorsOK
<1>a. /\ req[s].pc \in Awaiting /\ req'[s].pc = "respond" /\ req'[s].probe = req[s].probe
      /\ req[s].probe \in CacheEntry \cup {None}
  BY DEF CreateSession, LastAwaitDone, Awaiting, Request
<1>b. /\ files[s] = None /\ task[s].pc = "idle"
  BY <1>a, StringFacts DEF HandlerInv
<1>n. LET new == files'[s]
      IN /\ new # None
         /\ new.status = IF req[s].probe # None THEN "ready" ELSE "enriching"
         /\ new.enrichment = IF req[s].probe # None THEN "skipped" ELSE "pending"
         /\ new.revision = 0 /\ new.expires = new.created + SessionTTL
         /\ new.results = Snapshot(req[s].probe, hits, shown)
  <2>1. files'[s] # None
    <3>1. files'[s].revision = 0 /\ files'[s] \in Session \cup {None}
      BY DEF CreateSession
    <3> DEFINE new == [owner |-> req[s].client,
                  status |-> IF req[s].probe # None THEN "ready" ELSE "enriching",
                  enrichment |-> IF req[s].probe # None THEN "skipped" ELSE "pending",
                  revision |-> 0, created |-> now, expires |-> now + SessionTTL,
                  results |-> Snapshot(req[s].probe, hits, shown)]
    <3>2. files'[s] = new
      BY DEF CreateSession
    <3>3. Snapshot(req[s].probe, hits, shown) \in Results
      BY <1>a, SnapshotType
    <3>4. new \in Session
      BY <1>a, <3>3, ConstantAssumption DEF Session, Awaiting
    <3> HIDE DEF new
    <3>5. QED
      BY <3>2, <3>4, NoneAssumption
  <2>2. QED
    BY <2>1 DEF CreateSession
<1>o. /\ \A t \in Searches \ {s} : /\ files'[t] = files[t] /\ req'[t] = req[t]
                                   /\ osmSeen'[t] = osmSeen[t]
      /\ osmSeen'[s] = req[s].probe
      /\ UNCHANGED <<now, task, poll>>
  BY DEF CreateSession, ReqUnchanged
<1>c. osmSeen'[s] = None => NoOsmTier(files'[s])
  BY <1>n, <1>o DEF NoOsmTier, Snapshot, TomTomOnly, ApplyBrand
<1>1. StoredSessionsCoherent'
  <2> SUFFICES ASSUME NEW t \in Searches, files'[t] # None
               PROVE  /\ Coherent(files'[t])
                      /\ osmSeen'[t] = None <=> files'[t].enrichment \in {"pending", "failed"}
                      /\ osmSeen'[t] = None => NoOsmTier(files'[t])
    BY DEF StoredSessionsCoherent, Coherent, NoOsmTier
  <2>1. CASE t # s
    BY <2>1, <1>o DEF StoredSessionsCoherent
  <2>2. CASE t = s
    BY <2>2, <1>n, <1>o, <1>c DEF Coherent
  <2>3. QED
    BY <2>1, <2>2
<1>2. HandlerInv'
  BY <1>a, <1>b, <1>n, <1>o DEF HandlerInv
<1>3. TaskInv'
  BY <1>b, <1>o, StringFacts DEF TaskInv, Replacing, Unsettled, Coherent, NoOsmTier, Expired
<1>4. PollInv'
  BY <1>a, <1>o, StringFacts DEF PollInv, SameSession, Replacing, Expired, HandlerInv
<1>5. QED
  BY <1>1, <1>2, <1>3, <1>4

(* A handler responds; the task of a pending session is queued.            *)
LEMMA HandlerResponds ==
  ASSUME TypeInv, TypeInv', SessionInv, NEW s \in Searches, Respond(s)
  PROVE  SessionInv'
<1> USE DEF SessionInv, TypeInv, TypeOK, ActorsOK
<1>a. /\ req[s].pc = "respond" /\ req'[s].pc = "done"
      /\ \A t \in Searches \ {s} : req'[t] = req[t] /\ task'[t] = task[t]
      /\ task'[s].pc = IF req[s].probe # None THEN "idle" ELSE "queued"
      /\ UNCHANGED <<now, files, poll, osmSeen>>
  BY EndedTaskFields DEF Respond, HandlerInv, Request, history
<1>b. /\ files[s] # None /\ files[s].revision = 0
      /\ files[s].status = IF req[s].probe # None THEN "ready" ELSE "enriching"
      /\ task[s].pc = "idle"
  BY <1>a DEF HandlerInv
<1>1. StoredSessionsCoherent'
  BY <1>a DEF StoredSessionsCoherent, Coherent, NoOsmTier
<1>2. HandlerInv'
  BY <1>a DEF HandlerInv
<1>3. TaskInv'
  <2> SUFFICES ASSUME NEW t \in Searches, task'[t].pc \in Running
               PROVE  /\ req'[t].pc = "done"
                      /\ osmSeen[t] = None
                      /\ files[t] # None => Unsettled(files[t])
                      /\ task'[t].pc \in {"replace", "markreplace"} =>
                           LET snap == task'[t].snap
                           IN /\ Unsettled(snap) /\ Coherent(snap) /\ NoOsmTier(snap)
                              /\ files[t] = snap \/ (files[t] = None /\ Expired(snap))
    BY <1>a DEF TaskInv, Replacing, Unsettled, Coherent, NoOsmTier, Expired
  <2>1. CASE t = s
    BY <2>1, <1>a, <1>b, StringFacts DEF StoredSessionsCoherent, Coherent, Unsettled
  <2>2. CASE t # s
    BY <2>2, <1>a DEF TaskInv, Replacing
  <2>3. QED
    BY <2>1, <2>2
<1>p. \A c \in Clients : poll[c].pc = "read" => poll[c].id \in Searches \ {s}
  BY <1>a DEF PollInv
<1>4. PollInv'
  BY <1>a, <1>p DEF PollInv, SameSession, Replacing, Expired
<1>5. QED
  BY <1>1, <1>2, <1>3, <1>4

(* A poll reads the session file (or fails to), then answers: it unlinks   *)
(* the file when the version it has read is expired.                       *)
LEMMA PollReads ==
  ASSUME TypeInv, TypeInv', SessionInv, NEW c \in Clients, NEW s \in Searches,
         PollRead(c, s)
  PROVE  SessionInv'
<1> USE DEF SessionInv, TypeInv, TypeOK, ActorsOK
<1>a. /\ poll'[c].pc = "read" /\ poll'[c].id = s /\ poll'[c].snap \in {None, files[s]}
      /\ req[s].pc = "done"
      /\ \A d \in Clients \ {c} : poll'[d] = poll[d]
      /\ UNCHANGED <<now, files, req, task, osmSeen>>
  BY DEF PollRead, history
<1>1. StoredSessionsCoherent'
  BY <1>a DEF StoredSessionsCoherent, Coherent, NoOsmTier
<1>2. HandlerInv'
  BY <1>a DEF HandlerInv
<1>3. TaskInv'
  BY <1>a DEF TaskInv, Replacing, Unsettled, Coherent, NoOsmTier, Expired
<1>4. PollInv'
  <2> SUFFICES ASSUME NEW d \in Clients, poll'[d].pc = "read"
               PROVE  LET t == poll'[d].id
                          snap == poll'[d].snap
                      IN /\ req[t].pc = "done"
                         /\ snap # None =>
                              /\ files[t] # None => SameSession(files[t], snap)
                              /\ files[t] = None => Expired(snap)
                              /\ Replacing(t) => SameSession(task[t].snap, snap)
                              /\ snap.status = "enriching" => snap.revision = 0
                              /\ snap.status = "ready" =>
                                   task[t].pc \notin Running /\ files[t] \in {None, snap}
    BY <1>a DEF PollInv, SameSession, Replacing, Expired
  <2>1. CASE d = c
    <3>1. Replacing(s) /\ files[s] # None => files[s] = task[s].snap
      BY DEF TaskInv, Replacing, Running, Marking
    <3>2. files[s] # None /\ files[s].status = "ready" => task[s].pc \notin Running
      BY DEF TaskInv, Unsettled
    <3>3. files[s] # None /\ files[s].status = "enriching" => files[s].revision = 0
      BY DEF StoredSessionsCoherent, Coherent
    <3>4. QED
      BY <2>1, <1>a, <3>1, <3>2, <3>3 DEF SameSession
  <2>2. CASE d # c
    BY <2>2, <1>a DEF PollInv
  <2>3. QED
    BY <2>1, <2>2
<1>5. QED
  BY <1>1, <1>2, <1>3, <1>4

LEMMA PollFinishes ==
  ASSUME TypeInv, TypeInv', SessionInv, NEW c \in Clients, PollFinish(c)
  PROVE  SessionInv'
<1> USE DEF SessionInv, TypeInv, TypeOK, ActorsOK
<1>a. /\ poll'[c].pc = "idle"
      /\ \A d \in Clients \ {c} : poll'[d] = poll[d]
      /\ poll[c].pc = "read" /\ poll[c].id \in Searches
      /\ UNCHANGED <<now, req, task, osmSeen>>
  BY DEF PollFinish, IdlePoll, history
<1>f. \A t \in Searches :
        \/ files'[t] = files[t]
        \/ files'[t] = None /\ Expired(files[t]) /\ req[t].pc = "done"
  <2>1. poll[c].snap # None /\ Expired(poll[c].snap) /\ files[poll[c].id] # None
          => Expired(files[poll[c].id])
    BY <1>a DEF PollInv, SameSession, Expired
  <2>2. req[poll[c].id].pc = "done"
    BY <1>a DEF PollInv
  <2>3. QED
    BY <1>a, <2>1, <2>2 DEF PollFinish, Unlink
<1>g. \A d \in Clients : poll'[d].pc = "read" => poll'[d] = poll[d]
  BY <1>a
<1>1. StoredSessionsCoherent'
  BY <1>a, <1>f DEF StoredSessionsCoherent, Coherent, NoOsmTier
<1>2. HandlerInv'
  BY <1>a, <1>f DEF HandlerInv
<1>3. TaskInv'
  BY <1>a, <1>f DEF TaskInv, Replacing, Unsettled, Coherent, NoOsmTier, Expired
<1>4. PollInv'
  <2> SUFFICES ASSUME NEW d \in Clients, poll'[d].pc = "read"
               PROVE  LET t == poll[d].id
                          snap == poll[d].snap
                      IN /\ req[t].pc = "done"
                         /\ snap # None =>
                              /\ files'[t] # None => SameSession(files'[t], snap)
                              /\ files'[t] = None => Expired(snap)
                              /\ Replacing(t) => SameSession(task[t].snap, snap)
                              /\ snap.status = "enriching" => snap.revision = 0
                              /\ snap.status = "ready" =>
                                   task[t].pc \notin Running /\ files'[t] \in {None, snap}
    BY <1>a, <1>g DEF PollInv, SameSession, Replacing, Expired
  <2>1. poll[d].pc = "read" /\ poll[d].id \in Searches
    BY <1>a
  <2>2. CASE files'[poll[d].id] = files[poll[d].id]
    BY <2>1, <2>2 DEF PollInv
  <2>3. CASE files'[poll[d].id] = None /\ Expired(files[poll[d].id])
    <3>1. files[poll[d].id] # None /\ poll[d].snap # None => Expired(poll[d].snap)
      BY <2>1, <2>3 DEF PollInv, SameSession, Expired
    <3>2. QED
      BY <2>1, <2>3, <3>1 DEF PollInv
  <2>4. QED
    BY <1>f, <2>1, <2>2, <2>3
<1>5. QED
  BY <1>1, <1>2, <1>3, <1>4

(* Time passes: what has expired stays expired.                            *)
LEMMA TimePasses ==
  ASSUME TypeInv, TypeInv', SessionInv, Tick
  PROVE  SessionInv'
<1> USE DEF SessionInv, TypeInv, TypeOK, ActorsOK
<1>a. now' = now + 1 /\ UNCHANGED <<files, req, task, poll, osmSeen>>
  BY DEF Tick, history
<1>e. \A f \in Session : Expired(f) => f.expires <= now'
  BY <1>a DEF Expired, Session
<1>1. StoredSessionsCoherent'
  BY <1>a DEF StoredSessionsCoherent, Coherent, NoOsmTier
<1>2. HandlerInv'
  BY <1>a DEF HandlerInv
<1>3. TaskInv'
  <2> SUFFICES ASSUME NEW s \in Searches, task[s].pc \in Running
               PROVE  /\ req[s].pc = "done"
                      /\ osmSeen[s] = None
                      /\ files[s] # None => Unsettled(files[s])
                      /\ Replacing(s) =>
                           LET snap == task[s].snap
                           IN /\ Unsettled(snap) /\ Coherent(snap) /\ NoOsmTier(snap)
                              /\ files[s] = snap \/ (files[s] = None /\ snap.expires <= now')
    BY <1>a DEF TaskInv, Replacing, Unsettled, Coherent, NoOsmTier, Expired
  <2>1. Replacing(s) => task[s].snap \in Session
    BY DEF Replacing
  <2>2. QED
    BY <1>e, <2>1 DEF TaskInv
<1>4. PollInv'
  <2> SUFFICES ASSUME NEW c \in Clients, poll[c].pc = "read"
               PROVE  LET s == poll[c].id
                          snap == poll[c].snap
                      IN /\ req[s].pc = "done"
                         /\ snap # None =>
                              /\ files[s] # None => SameSession(files[s], snap)
                              /\ files[s] = None => snap.expires <= now'
                              /\ Replacing(s) => SameSession(task[s].snap, snap)
                              /\ snap.status = "enriching" => snap.revision = 0
                              /\ snap.status = "ready" =>
                                   task[s].pc \notin Running /\ files[s] \in {None, snap}
    BY <1>a DEF PollInv, SameSession, Replacing, Expired
  <2>1. poll[c].snap \in Session \cup {None}
    BY DEF Poll
  <2>2. QED
    BY <1>e, <2>1 DEF PollInv
<1>5. QED
  BY <1>1, <1>2, <1>3, <1>4

(* The server dies: nobody runs any more, the files stay.                  *)
LEMMA ServerDies ==
  ASSUME TypeInv, TypeInv', SessionInv, Crash
  PROVE  SessionInv'
<1> USE DEF SessionInv, TypeInv, TypeOK, ActorsOK
<1>a. UNCHANGED <<now, files, osmSeen>>
  BY DEF Crash
<1>r. \A s \in Searches :
        /\ req'[s].pc # "respond"
        /\ req'[s].pc = "done" <=> req[s].pc \in {"respond", "done"}
  BY DEF Crash, NewRequest, Awaiting
<1>t. \A s \in Searches :
        task'[s].pc \notin Running /\ (task[s].pc = "idle" => task'[s].pc = "idle")
  <2>1. \A s \in Searches :
          task'[s] = IF task[s].pc \in Running THEN EndedTask("lost") ELSE task[s]
    BY DEF Crash
  <2>2. QED
    BY <2>1, EndedTaskFields, StringFacts
<1>p. \A c \in Clients : poll'[c].pc = "idle"
  BY DEF Crash, IdlePoll
<1>1. StoredSessionsCoherent'
  BY <1>a DEF StoredSessionsCoherent, Coherent, NoOsmTier
<1>2. HandlerInv'
  BY <1>a, <1>r, <1>t DEF HandlerInv
<1>3. TaskInv'
  BY <1>t DEF TaskInv
<1>4. PollInv'
  BY <1>p DEF PollInv
<1>5. QED
  BY <1>1, <1>2, <1>3, <1>4

LEMMA InitSession == Init => SessionInv
  BY StringFacts DEF Init, SessionInv, StoredSessionsCoherent, HandlerInv, TaskInv, PollInv, NewRequest,
     IdleTask, IdlePoll

LEMMA LoadStepSession ==
  ASSUME TypeInv, TypeInv', SessionInv, NEW s \in Searches,
         NEW from \in {"load", "markload"}, NEW to \in {"replace", "markreplace"},
         LoadStep(s, from, to)
  PROVE  SessionInv'
<1>1. CASE Load(s, from, to)
  BY <1>1, TaskLoads
<1>2. CASE LoadGone(s, from)
  <2>1. task[s].pc \in Running
    BY <1>2 DEF LoadGone, Running, Marking
  <2>2. QED
    BY <1>2, <2>1, TaskEnds DEF LoadGone, TaskUnchanged, history
<1>3. CASE LoadUnreadable(s, from)
  <2>1. task[s].pc \in Running
    BY <1>3 DEF LoadUnreadable, Running, Marking
  <2>2. QED
    BY <1>3, <2>1, TaskEnds DEF LoadUnreadable, TaskUnchanged
<1>4. QED
  BY <1>1, <1>2, <1>3 DEF LoadStep

LEMMA StepSession == TypeInv /\ TypeInv' /\ SessionInv /\ [Next]_vars => SessionInv'
<1> SUFFICES ASSUME TypeInv, TypeInv', SessionInv, [Next]_vars PROVE SessionInv'
  OBVIOUS
<1> USE DEF server, history
<1>1. CASE Tick
  BY <1>1, TimePasses
<1>2. ASSUME UNCHANGED <<now, files, req, task, poll, osmSeen>>
      PROVE  SessionInv'
  BY <1>2 DEF SessionInv, StoredSessionsCoherent, Coherent, NoOsmTier, HandlerInv, TaskInv,
     PollInv, SameSession, Replacing, Unsettled, Expired
<1>3. CASE Startup
  BY <1>2, <1>3 DEF Startup
<1>4. CASE Crash
  BY <1>4, ServerDies
<1>5. ASSUME NEW s \in Searches, NEW c \in Clients, NEW k \in Keys, NEW query \in Query,
             StartSearch(s, c, k, query)
      PROVE  SessionInv'
  <2>1. req'[s] \in Request /\ req'[s].pc = "geocode" /\ req' = [req EXCEPT ![s] = req'[s]]
    BY <1>5 DEF StartSearch, Await, TypeInv, TypeOK, NewRequest
  <2>2. UNCHANGED <<now, files, task, poll, osmSeen>> /\ req[s].pc = "new"
    BY <1>5 DEF StartSearch, ReqUnchanged
  <2>3. QED
    BY <2>1, <2>2, HandlerMoves
<1>6. ASSUME NEW s \in Searches, SearchFails(s) \/ CreateFails(s)
      PROVE  SessionInv'
  <2>1. req'[s] \in Request /\ req'[s].pc = "failed" /\ req' = [req EXCEPT ![s] = req'[s]]
    BY <1>6 DEF SearchFails, CreateFails, TypeInv, TypeOK, NewRequest
  <2>2. UNCHANGED <<now, files, task, poll, osmSeen>> /\ req[s].pc \in Awaiting
    BY <1>6 DEF SearchFails, CreateFails, LastAwaitDone, Awaiting, ReqUnchanged
  <2>3. QED
    BY <2>1, <2>2, StringFacts, HandlerMoves
<1>7. ASSUME NEW s \in Searches, Geocoded(s) \/ GymsFound(s)
      PROVE  SessionInv'
  <2>1. req'[s] \in Request /\ req' = [req EXCEPT ![s] = req'[s]]
    BY <1>7 DEF Geocoded, GymsFound, Await, TypeInv, TypeOK
  <2>2. req'[s].pc \in {"search", "brand"}
    <3>1. CASE Geocoded(s)
      <4>1. /\ req'[s] = [[req[s] EXCEPT !.probe = IF Fresh(cache[req[s].key])
                                                THEN cache[req[s].key] ELSE None]
                           EXCEPT !.pc = "search", !.deadline = Deadline]
            /\ req[s] \in Request
        BY <3>1 DEF Geocoded, Await, TypeInv, TypeOK
      <4>2. QED
        BY <4>1 DEF Request
    <3>2. CASE GymsFound(s)
      BY <3>2 DEF GymsFound, Await, TypeInv, TypeOK, Request
    <3>3. QED
      BY <1>7, <3>1, <3>2
  <2>3. UNCHANGED <<now, files, task, poll, osmSeen>> /\ req[s].pc \in Awaiting
    BY <1>7 DEF Geocoded, GymsFound, Awaiting, ReqUnchanged
  <2>4. QED
    BY <2>1, <2>2, <2>3, StringFacts, HandlerMoves
<1>8. ASSUME NEW s \in Searches, NEW hits \in SUBSET Gyms, NEW shown \in SUBSET Gyms,
             CreateSession(s, hits, shown)
      PROVE  SessionInv'
  BY <1>8, SessionCreated
<1>9. ASSUME NEW s \in Searches, Respond(s)
      PROVE  SessionInv'
  BY <1>9, HandlerResponds
<1>10. ASSUME NEW s \in Searches,
              \/ \E osm \in Osm : Fetched(s, osm)
              \/ FetchFails(s) \/ CacheWritten(s) \/ CacheWriteFails(s) \/ EnrichFails(s)
       PROVE  SessionInv'
  <2>1. task'[s] \in Task /\ task' = [task EXCEPT ![s] = task'[s]]
    BY <1>10 DEF Fetched, FetchFails, CacheWritten, CacheWriteFails, EnrichFails, TaskGoes,
       TypeInv, TypeOK
  <2>2. task[s].pc \in Running /\ task'[s].pc \in {"cache", "load", "markload"}
    <3> USE DEF TypeInv, TypeOK, Task, Running, Marking
    <3>1. CASE \E osm \in Osm : Fetched(s, osm)
      BY <3>1 DEF Fetched
    <3>2. CASE FetchFails(s)
      BY <3>2 DEF FetchFails
    <3>3. CASE CacheWritten(s)
      BY <3>3 DEF CacheWritten, TaskGoes
    <3>4. CASE CacheWriteFails(s)
      BY <3>4 DEF CacheWriteFails
    <3>5. CASE EnrichFails(s)
      BY <3>5 DEF EnrichFails
    <3>6. QED
      BY <1>10, <3>1, <3>2, <3>3, <3>4, <3>5
  <2>3. UNCHANGED <<now, files, req, poll, osmSeen>>
    BY <1>10 DEF Fetched, FetchFails, CacheWritten, CacheWriteFails, EnrichFails, TaskUnchanged
  <2>4. task'[s].pc \in Running \ {"replace", "markreplace"}
    BY <2>2 DEF Running, Marking
  <2>5. QED
    BY <2>1, <2>2, <2>3, <2>4, TaskMoves
<1>11. ASSUME NEW s \in Searches,
              LoadStep(s, "load", "replace") \/ LoadStep(s, "markload", "markreplace")
       PROVE  SessionInv'
  BY <1>11, LoadStepSession
<1>12. ASSUME NEW s \in Searches, Enrich(s)
       PROVE  SessionInv'
  <2> DEFINE results == ApplyOsm(task[s].snap.results, task[s].osm)
             entry == [at |-> now, osm |-> task[s].osm]
  <2>1. task[s].snap \in Session /\ task[s].osm \in Osm /\ now \in Nat /\ Replacing(s)
    BY <1>12 DEF Enrich, Replacing, TypeInv, TypeOK, ActorsOK
  <2>2. results \in Results
    BY <2>1, ApplyOsmType DEF Session
  <2>3. entry \in CacheEntry
    BY <2>1 DEF CacheEntry
  <2>4. /\ files' = [files EXCEPT ![s] = Replaced(task[s].snap, results, "completed")]
        /\ task' = [task EXCEPT ![s] = EndedTask("done")]
        /\ osmSeen' = [osmSeen EXCEPT ![s] = entry]
        /\ UNCHANGED <<now, req, poll>>
    BY <1>12 DEF Enrich, TaskUnchanged
  <2> HIDE DEF results, entry
  <2>5. QED
    BY <2>1, <2>2, <2>3, <2>4, TaskReplaces
<1>13. ASSUME NEW s \in Searches, MarkFailed(s)
       PROVE  SessionInv'
  <2>1. task[s].snap \in Session /\ Replacing(s)
    BY <1>13 DEF MarkFailed, Replacing, TypeInv, TypeOK, ActorsOK
  <2>2. task[s].snap.results \in Results
    BY <2>1 DEF Session
  <2>3. /\ files' = [files EXCEPT ![s] = Replaced(task[s].snap, task[s].snap.results, "failed")]
        /\ task' = [task EXCEPT ![s] = EndedTask("done")]
        /\ UNCHANGED <<now, req, poll, osmSeen>>
    BY <1>13 DEF MarkFailed, TaskUnchanged
  <2>4. QED
    BY <2>1, <2>2, <2>3, TaskReplaces
<1>14. ASSUME NEW s \in Searches, MarkRaises(s)
       PROVE  SessionInv'
  <2>1. task[s].pc \in Running
    BY <1>14 DEF MarkRaises, Running, Marking
  <2>2. QED
    BY <1>14, <2>1, TaskEnds DEF MarkRaises, TaskUnchanged
<1>15. ASSUME NEW c \in Clients, NEW s \in Searches, PollRead(c, s)
       PROVE  SessionInv'
  BY <1>15, PollReads
<1>16. ASSUME NEW c \in Clients, PollFinish(c)
       PROVE  SessionInv'
  BY <1>16, PollFinishes
<1>17. CASE UNCHANGED vars
  BY <1>2, <1>17 DEF vars
<1>18. QED
  BY <1>1, <1>3, <1>4, <1>5, <1>6, <1>7, <1>8, <1>9, <1>10, <1>11, <1>12, <1>13, <1>14,
     <1>15, <1>16, <1>17
  DEF Next, RequestStep, TaskStep

LEMMA SessionInvariant == Spec => [](TypeInv /\ SessionInv)
<1>1. Init => TypeInv /\ SessionInv
  BY InitTyped, InitSession
<1>2. TypeInv /\ SessionInv /\ [Next]_vars => (TypeInv /\ SessionInv)'
  BY StepTyped, StepSession
<1>3. QED
  BY <1>1, <1>2, PTL DEF Spec

(* Stored sessions are coherent in every state: the task replaces each at  *)
(* most once, and a pending or failed one shows no OSM data.               *)
THEOREM SessionsCoherent == Spec => []StoredSessionsCoherent
<1>1. TypeInv /\ SessionInv => StoredSessionsCoherent
  BY DEF SessionInv
<1>2. QED
  BY <1>1, SessionInvariant, PTL

----------------------------------------------------------------------------
(* What a step can do to a session: nothing, remove it once expired, have  *)
(* its task replace it, or have its handler create it.                     *)

Opened(s) == req[s].pc \in {"respond", "done"}
Kept(s) ==
  /\ files'[s] = files[s]
  /\ Opened(s)' <=> Opened(s)
  /\ osmSeen'[s] = osmSeen[s]
  /\ now' \in {now, now + 1}
Removed(s) ==
  /\ files[s] # None /\ Expired(files[s]) /\ files'[s] = None
  /\ UNCHANGED <<now, req, osmSeen>>
Settled(s) ==
  /\ Replacing(s)
  /\ \E results \in Results, enrichment \in {"completed", "failed"} :
       /\ NewVersion(files'[s], task[s].snap, results, enrichment)
       /\ enrichment = "completed" =>
            /\ task[s].osm \in Osm
            /\ results = ApplyOsm(task[s].snap.results, task[s].osm)
            /\ osmSeen'[s].osm = task[s].osm
       /\ enrichment = "failed" => osmSeen'[s] = osmSeen[s]
  /\ UNCHANGED <<now, req>>
Created(s) ==
  /\ req[s].pc \in {"search", "brand"} /\ req'[s].pc = "respond"
  /\ files[s] = None /\ files'[s] \in Session
  /\ files'[s].revision = 0
  /\ files'[s].enrichment = IF req[s].probe # None THEN "skipped" ELSE "pending"
  /\ files'[s].owner = req[s].client
  /\ files'[s].created = now /\ files'[s].expires = now + SessionTTL
  /\ osmSeen'[s] = req[s].probe
  /\ \E hits \in SUBSET Gyms : \E shown \in SUBSET Gyms :
       files'[s].results = Snapshot(req[s].probe, hits, shown)
  /\ UNCHANGED now

LEMMA ReplaceSettles ==
  ASSUME TypeInv, SessionInv, NEW s \in Searches, NEW t \in Searches,
         Enrich(t) \/ MarkFailed(t)
  PROVE  IF s = t THEN Settled(s) ELSE Kept(s)
<1> DEFINE results == IF task[t].pc = "replace" THEN ApplyOsm(task[t].snap.results, task[t].osm)
                                                ELSE task[t].snap.results
           enrichment == IF task[t].pc = "replace" THEN "completed" ELSE "failed"
<1>1. /\ task[t].snap \in Session /\ Replacing(t)
      /\ task[t].pc = "replace" => task[t].osm \in Osm
  BY DEF Enrich, MarkFailed, Replacing, TypeInv, TypeOK, ActorsOK
<1>2. results \in Results
  BY <1>1, ApplyOsmType DEF Session
<1>3. /\ files' = [files EXCEPT ![t] = Replaced(task[t].snap, results, enrichment)]
      /\ UNCHANGED <<now, req>>
      /\ osmSeen' = IF task[t].pc = "replace"
                    THEN [osmSeen EXCEPT ![t] = [at |-> now, osm |-> task[t].osm]]
                    ELSE osmSeen
  BY DEF Enrich, MarkFailed, TaskUnchanged, history
<1>4. /\ enrichment \in {"completed", "failed"}
      /\ enrichment = "completed" =>
           task[t].pc = "replace" /\ results = ApplyOsm(task[t].snap.results, task[t].osm)
      /\ enrichment = "failed" => task[t].pc # "replace"
  OBVIOUS
<1>5. NewVersion(Replaced(task[t].snap, results, enrichment), task[t].snap, results, enrichment)
  BY <1>1, <1>2, <1>4, ReplacedFields
<1>6. /\ files \in [Searches -> Session \cup {None}]
      /\ osmSeen \in [Searches -> CacheEntry \cup {None}]
  BY DEF TypeInv, TypeOK
<1> HIDE DEF results, enrichment
<1>7. CASE s # t
  BY <1>3, <1>6, <1>7 DEF Kept, Opened
<1>8. CASE s = t
  <2>1. files'[s] = Replaced(task[t].snap, results, enrichment)
    BY <1>3, <1>6, <1>8
  <2>2. NewVersion(files'[s], task[s].snap, results, enrichment)
    BY <1>5, <1>8, <2>1
  <2>3. /\ enrichment = "completed" =>
            /\ task[s].osm \in Osm
            /\ results = ApplyOsm(task[s].snap.results, task[s].osm)
            /\ osmSeen'[s].osm = task[s].osm
        /\ enrichment = "failed" => osmSeen'[s] = osmSeen[s]
    BY <1>1, <1>3, <1>4, <1>6, <1>8
  <2>4. QED
    BY <1>1, <1>2, <1>3, <1>4, <1>8, <2>2, <2>3 DEF Settled
<1>9. QED
  BY <1>7, <1>8

LEMMA SessionSteps ==
  ASSUME TypeInv, TypeInv', SessionInv, [Next]_vars, NEW s \in Searches
  PROVE  Kept(s) \/ Removed(s) \/ Settled(s) \/ Created(s)
<1> USE DEF server, history, TypeInv, TypeOK
<1>1. CASE Tick \/ Startup \/ UNCHANGED vars
  BY <1>1 DEF Tick, Startup, vars, Kept, Opened
<1>2. CASE Crash
  BY <1>2 DEF Crash, Kept, Opened, NewRequest, Awaiting
<1>3. ASSUME NEW t \in Searches, NEW c \in Clients, NEW k \in Keys, NEW query \in Query,
             StartSearch(t, c, k, query)
      PROVE  Kept(s)
  BY <1>3 DEF StartSearch, Await, NewRequest, ReqUnchanged, Kept, Opened
<1>4. ASSUME NEW t \in Searches, SearchFails(t) \/ CreateFails(t)
      PROVE  Kept(s)
  BY ZenonT(60), <1>4 DEF SearchFails, CreateFails, LastAwaitDone, NewRequest, ReqUnchanged, Kept, Opened
<1>5. ASSUME NEW t \in Searches, Geocoded(t)
      PROVE  Kept(s)
  <2>1. /\ req[t].pc = "geocode" /\ UNCHANGED <<now, files, osmSeen>>
        /\ req' = [req EXCEPT ![t] = [[req[t] EXCEPT !.probe = IF Fresh(cache[req[t].key])
                                                THEN cache[req[t].key] ELSE None]
                           EXCEPT !.pc = "search", !.deadline = Deadline]]
    BY <1>5 DEF Geocoded, Await, ReqUnchanged
  <2>2. QED
    BY <2>1 DEF Kept, Opened, Request
<1>6. ASSUME NEW t \in Searches, GymsFound(t)
      PROVE  Kept(s)
  BY <1>6 DEF GymsFound, Await, ReqUnchanged, Kept, Opened, Request
<1>7. ASSUME NEW t \in Searches, NEW hits \in SUBSET Gyms, NEW shown \in SUBSET Gyms,
             CreateSession(t, hits, shown)
      PROVE  Kept(s) \/ Created(s)
  <2>1. /\ req[t].pc \in {"search", "brand"} /\ req'[t].pc = "respond"
        /\ \A u \in Searches \ {t} : /\ req'[u] = req[u] /\ files'[u] = files[u]
                                      /\ osmSeen'[u] = osmSeen[u]
        /\ osmSeen'[t] = req[t].probe
        /\ now' = now
    BY <1>7 DEF CreateSession, LastAwaitDone, ReqUnchanged, Request
  <2>2. /\ files'[t].revision = 0 /\ files'[t].created = now
        /\ files'[t].enrichment = IF req[t].probe # None THEN "skipped" ELSE "pending"
        /\ files'[t].owner = req[t].client
        /\ files'[t].expires = now + SessionTTL
        /\ files'[t].results = Snapshot(req[t].probe, hits, shown)
    BY <1>7 DEF CreateSession
  <2>3. files[t] = None
    BY <2>1 DEF SessionInv, HandlerInv
  <2>4. files'[t] \in Session
    <3>1. SessionInv'
      BY StepSession
    <3>2. files'[t] # None
      BY <2>1, <3>1 DEF SessionInv, HandlerInv
    <3>3. QED
      BY <3>2
  <2>5. CASE s # t
    BY <2>1, <2>5 DEF Kept, Opened
  <2>6. CASE s = t
    BY <2>1, <2>2, <2>3, <2>4, <2>6 DEF Created
  <2>7. QED
    BY <2>5, <2>6
<1>8. ASSUME NEW t \in Searches, Respond(t)
      PROVE  Kept(s)
  BY <1>8 DEF Respond, Kept, Opened, Request
<1>9. ASSUME NEW t \in Searches,
             \/ \E osm \in Osm : Fetched(t, osm)
             \/ FetchFails(t) \/ CacheWritten(t) \/ CacheWriteFails(t) \/ EnrichFails(t)
             \/ MarkRaises(t)
      PROVE  Kept(s)
  BY <1>9 DEF Fetched, FetchFails, CacheWritten, CacheWriteFails, EnrichFails, MarkRaises,
     TaskUnchanged, Kept, Opened
<1>10. ASSUME NEW t \in Searches, NEW from, NEW to, LoadStep(t, from, to)
       PROVE  Kept(s) \/ Removed(s)
  BY <1>10 DEF LoadStep, Load, LoadGone, LoadUnreadable, FilesAfterLoad, Unlink,
     TaskUnchanged, Kept, Removed, Opened
<1>11. ASSUME NEW t \in Searches, Enrich(t) \/ MarkFailed(t)
       PROVE  Kept(s) \/ Settled(s)
  BY <1>11, ReplaceSettles
<1>12. ASSUME NEW c \in Clients, NEW t \in Searches, PollRead(c, t)
       PROVE  Kept(s)
  BY <1>12 DEF PollRead, Kept, Opened
<1>13. ASSUME NEW c \in Clients, PollFinish(c)
       PROVE  Kept(s) \/ Removed(s)
  <2> DEFINE t == poll[c].id
             snap == poll[c].snap
  <2>1. poll[c].pc = "read" /\ t \in Searches
    BY <1>13 DEF PollFinish, ActorsOK
  <2>2. snap # None /\ Expired(snap) /\ files[t] # None => Expired(files[t])
    BY <2>1 DEF SessionInv, PollInv, SameSession, Expired
  <2>3. /\ files' = files \/ files' = (IF snap # None /\ Expired(snap) THEN Unlink(t) ELSE files)
        /\ UNCHANGED <<now, req, osmSeen>>
    BY <1>13 DEF PollFinish
  <2>4. QED
    BY <2>1, <2>2, <2>3 DEF Unlink, Kept, Removed, Opened
<1>14. QED
  BY <1>1, <1>2, <1>3, <1>4, <1>5, <1>6, <1>7, <1>8, <1>9, <1>10, <1>11, <1>12, <1>13
  DEF Next, RequestStep, TaskStep

(* A session file goes away only once it has expired.                      *)
THEOREM KeptUntilExpiry == Spec => SessionsKeptUntilExpiry
<1>1. TypeInv /\ TypeInv' /\ SessionInv /\ [Next]_vars
        => [\A s \in Searches :
              files[s] # None /\ files'[s] = None => files[s].expires <= now]_vars
  BY SessionSteps, NoneAssumption
  DEF Kept, Removed, Settled, Created, NewVersion, Expired
<1>2. QED
  BY <1>1, SessionInvariant, PTL DEF Spec, SessionsKeptUntilExpiry

----------------------------------------------------------------------------
(* The sessions that can be retrieved implement SessionContract.           *)

VersionOf(session) ==
  CASE session.enrichment = "pending" -> Contract!Pending
    [] session.enrichment = "skipped" -> Contract!Skipped
    [] session.enrichment = "completed" -> Contract!Completed
    [] session.enrichment = "failed" -> Contract!Failed

VisibleAsStored ==
  \A s \in Searches :
    /\ ~Opened(s) => Visible(s) = Contract!New
    /\ Opened(s) /\ (files[s] # None => Expired(files[s])) => Visible(s) = Contract!Gone
    /\ Opened(s) /\ files[s] # None /\ ~Expired(files[s]) => Visible(s) = VersionOf(files[s])

LEMMA VisibleFile == TypeInv /\ SessionInv => VisibleAsStored
<1> SUFFICES ASSUME TypeInv, SessionInv, NEW s \in Searches
             PROVE  /\ ~Opened(s) => Visible(s) = Contract!New
                    /\ Opened(s) /\ (files[s] # None => Expired(files[s]))
                         => Visible(s) = Contract!Gone
                    /\ Opened(s) /\ files[s] # None /\ ~Expired(files[s])
                         => Visible(s) = VersionOf(files[s])
  BY DEF VisibleAsStored
<1> USE DEF TypeInv, TypeOK, SessionInv
<1>1. ~Opened(s) => Visible(s) = Contract!New
  BY DEF Opened, HandlerInv, Visible, Loaded, Contract!New
<1>2. Opened(s) /\ (files[s] # None => Expired(files[s])) => Visible(s) = Contract!Gone
  BY DEF Opened, Visible, Loaded, Contract!Gone
<1>3. ASSUME Opened(s), files[s] # None, ~Expired(files[s])
      PROVE  Visible(s) = VersionOf(files[s])
  <2>1. Coherent(files[s]) /\ files[s] \in Session
    BY <1>3 DEF StoredSessionsCoherent
  <2>2. Visible(s) = [status |-> files[s].status, enrichment |-> files[s].enrichment,
                      revision |-> files[s].revision]
    BY <1>3 DEF Visible, Loaded
  <2>3. QED
    BY <2>1, <2>2 DEF VersionOf, Coherent, Session, Contract!Pending, Contract!Skipped,
       Contract!Completed, Contract!Failed
<1>4. QED
  BY <1>1, <1>2, <1>3

LEMMA VisibleSteps ==
  ASSUME TypeInv, TypeInv', SessionInv, SessionInv', [Next]_vars, NEW s \in Searches
  PROVE  \/ Visible(s)' = Visible(s)
         \/ Visible(s) = Contract!New /\ Visible(s)' \in {Contract!Pending, Contract!Skipped}
         \/ Visible(s) = Contract!Pending
            /\ Visible(s)' \in {Contract!Completed, Contract!Failed}
         \/ /\ Visible(s) \in {Contract!Pending, Contract!Skipped,
                               Contract!Completed, Contract!Failed}
            /\ Visible(s)' = Contract!Gone
<1>1. VisibleAsStored /\ VisibleAsStored'
  BY VisibleFile, PTL
<1>2. /\ files[s] \in Session \cup {None} /\ files'[s] \in Session \cup {None}
      /\ now \in Nat /\ now' \in Nat
  BY DEF TypeInv, TypeOK
<1>3. files[s] # None => VersionOf(files[s]) \in {Contract!Pending, Contract!Skipped,
                               Contract!Completed, Contract!Failed}
  BY <1>2 DEF VersionOf, Session
<1>4. files[s] # None => Opened(s)
  BY DEF SessionInv, HandlerInv, Opened
<1>5. CASE Kept(s)
  <2>1. files[s] # None /\ Expired(files[s]) => Expired(files[s])'
    BY <1>2, <1>5 DEF Kept, Expired, Session
  <2>2. QED
    BY <1>1, <1>3, <1>5, <2>1 DEF Kept, VisibleAsStored
<1>6. CASE Removed(s)
  BY <1>1, <1>4, <1>6 DEF Removed, VisibleAsStored, Opened
<1>7. CASE Settled(s)
  <2>1. /\ Opened(s) /\ Opened(s)' /\ now' = now
        /\ files[s] = task[s].snap \/ (files[s] = None /\ Expired(task[s].snap))
        /\ Unsettled(task[s].snap) /\ Coherent(task[s].snap)
    BY <1>7 DEF Settled, SessionInv, TaskInv, Replacing, Running, Marking, Opened, Coherent
  <2>2. /\ files'[s] # None /\ files'[s].enrichment \in {"completed", "failed"}
        /\ files'[s].expires = task[s].snap.expires
    BY <1>7, NoneAssumption DEF Settled, NewVersion
  <2>3. files[s] # None => VersionOf(files[s]) = Contract!Pending
    BY <2>1 DEF VersionOf, Unsettled, Coherent
  <2>4. VersionOf(files'[s]) \in {Contract!Completed, Contract!Failed}
    BY <2>2 DEF VersionOf
  <2>5. (VersionOf(files[s]))' = VersionOf(files'[s])
    BY DEF VersionOf
  <2>6. Expired(files[s])' <=> Expired(task[s].snap)
    BY <2>1, <2>2 DEF Expired
  <2>7. CASE Expired(task[s].snap)
    BY <1>1, <2>1, <2>6, <2>7 DEF VisibleAsStored
  <2>8. CASE ~Expired(task[s].snap)
    <3>1. files[s] # None /\ ~Expired(files[s])
      BY <2>1, <2>8, NoneAssumption, <1>7 DEF Settled, TypeInv, ActorsOK, Replacing
    <3>2. Visible(s) = Contract!Pending
      BY <1>1, <2>1, <2>3, <3>1 DEF VisibleAsStored
    <3>3. Visible(s)' = VersionOf(files'[s])
      BY <1>1, <2>1, <2>2, <2>5, <2>6, <2>8 DEF VisibleAsStored
    <3>4. QED
      BY <2>4, <3>2, <3>3
  <2>9. QED
    BY <2>7, <2>8
<1>8. CASE Created(s)
  <2>1. /\ ~Opened(s) /\ Opened(s)' /\ now' = now
        /\ files'[s] # None /\ files'[s].enrichment \in {"pending", "skipped"}
        /\ files'[s].expires = now + SessionTTL
    BY <1>8, NoneAssumption DEF Created, Opened
  <2>2. ~Expired(files[s])'
    BY <1>2, <2>1, ConstantAssumption DEF Expired
  <2>3. VersionOf(files'[s]) \in {Contract!Pending, Contract!Skipped}
    BY <2>1 DEF VersionOf
  <2>4. QED
    BY <1>1, <2>1, <2>2, <2>3 DEF VisibleAsStored
<1>9. QED
  BY <1>5, <1>6, <1>7, <1>8, SessionSteps

(* The session store implements its contract: a session opens pending or   *)
(* skipped, is settled at most once by a new revision, and once it cannot  *)
(* be retrieved it never comes back, although the task may write the file  *)
(* of a session that has expired and been unlinked in the meantime.        *)
THEOREM StoreImplementsContract == Spec => ImplementsContract
<1> DEFINE shown == [s \in Searches |-> Visible(s)]
<1>1. Init => Contract!Init
  BY DEF Init, Contract!Init, Contract!New, Visible, Loaded, NewRequest
<1>2. TypeInv /\ TypeInv' /\ SessionInv /\ SessionInv' /\ [Next]_vars
        => [Contract!Next]_shown
  <2> SUFFICES ASSUME TypeInv, TypeInv', SessionInv, SessionInv', [Next]_vars
               PROVE  Contract!Next
    OBVIOUS
  <2>1. \A s \in Searches : shown[s] = Visible(s) /\ shown'[s] = Visible(s)'
    OBVIOUS
  <2>2. ASSUME NEW s \in Searches
        PROVE  \/ shown'[s] = shown[s]
               \/ Contract!Open(s) \/ Contract!Settle(s) \/ Contract!Close(s)
    BY <2>1, VisibleSteps DEF Contract!Open, Contract!Settle, Contract!Close
  <2>3. shown' = [s \in Searches |-> shown'[s]]
    OBVIOUS
  <2>4. QED
    BY <2>2, <2>3 DEF Contract!Next
<1>3. QED
  BY <1>1, <1>2, SessionInvariant, PTL DEF Spec, ImplementsContract, Contract!Spec

----------------------------------------------------------------------------
(* Pending sessions.                                                       *)

Worker(s) == req[s].pc = "respond" \/ task[s].pc \in Running \/ s \in orphaned

(* The task of a pending session ends only when it has settled or removed  *)
(* it, or with s among the orphaned; the handler hands over to the task.   *)
LEMMA WorkerSteps ==
  ASSUME TypeInv, TypeInv', SessionInv, [Next]_vars, NEW s \in Searches,
         Pending(s), files'[s] = files[s], Worker(s)
  PROVE  Worker(s)'
<1> USE DEF server, history, TypeInv, TypeOK, Worker
<1>1. CASE Tick \/ Startup \/ UNCHANGED vars
  BY <1>1 DEF Tick, Startup, vars
<1>2. CASE Crash
  BY <1>2 DEF Crash
<1>3. ASSUME NEW t \in Searches, NEW c \in Clients, NEW k \in Keys, NEW query \in Query,
             StartSearch(t, c, k, query)
      PROVE  Worker(s)'
  BY <1>3 DEF StartSearch, Await, ReqUnchanged
<1>4. ASSUME NEW t \in Searches, SearchFails(t) \/ CreateFails(t)
      PROVE  Worker(s)'
  BY <1>4 DEF SearchFails, CreateFails, LastAwaitDone, ReqUnchanged
<1>5. ASSUME NEW t \in Searches, Geocoded(t) \/ GymsFound(t)
      PROVE  Worker(s)'
  BY <1>5 DEF Geocoded, GymsFound, Await, ReqUnchanged
<1>6. ASSUME NEW t \in Searches, NEW hits \in SUBSET Gyms, NEW shown \in SUBSET Gyms,
             CreateSession(t, hits, shown)
      PROVE  Worker(s)'
  BY <1>6 DEF CreateSession, LastAwaitDone, ReqUnchanged
<1>7. ASSUME NEW t \in Searches, Respond(t)
      PROVE  Worker(s)'
  <2>1. t = s => req[t].probe = None
    BY <1>7 DEF Respond, SessionInv, HandlerInv, Pending
  <2>2. /\ task' = IF req[t].probe # None THEN task ELSE [task EXCEPT ![t] = EndedTask("queued")]
        /\ \A u \in Searches \ {t} : req'[u] = req[u]
        /\ req[t].pc = "respond" /\ orphaned' = orphaned
    BY <1>7 DEF Respond
  <2>3. EndedTask("queued").pc \in Running
    BY EndedTaskFields DEF Running
  <2>4. QED
    BY <2>1, <2>2, <2>3
<1>8. ASSUME NEW t \in Searches,
             \/ \E osm \in Osm : Fetched(t, osm)
             \/ FetchFails(t) \/ CacheWriteFails(t) \/ EnrichFails(t)
      PROVE  Worker(s)'
  <2>1. \E u \in Task : task' = [task EXCEPT ![t] = u]
    <3>1. task'[t] \in Task
      OBVIOUS
    <3>2. task' = [task EXCEPT ![t] = task'[t]]
      BY <1>8 DEF Fetched, FetchFails, CacheWriteFails, EnrichFails
    <3>3. QED
      BY <3>1, <3>2
  <2>2. task'[t].pc \in {"cache", "markload"}
    <3> USE DEF Task, Running, Marking
    <3>1. CASE \E osm \in Osm : Fetched(t, osm)
      BY <3>1 DEF Fetched
    <3>2. CASE FetchFails(t)
      BY <3>2 DEF FetchFails
    <3>3. CASE CacheWriteFails(t)
      BY <3>3 DEF CacheWriteFails
    <3>4. CASE EnrichFails(t)
      BY <3>4 DEF EnrichFails
    <3>5. QED
      BY <1>8, <3>1, <3>2, <3>3, <3>4
  <2>3. req' = req /\ orphaned' = orphaned
    BY <1>8 DEF Fetched, FetchFails, CacheWriteFails, EnrichFails, TaskUnchanged
  <2>4. QED
    BY <2>1, <2>2, <2>3 DEF Running, Marking
<1>9. ASSUME NEW t \in Searches, CacheWritten(t)
      PROVE  Worker(s)'
  BY <1>9 DEF CacheWritten, TaskGoes, TaskUnchanged, Running, Marking, Task
<1>10. ASSUME NEW t \in Searches, NEW from, NEW to \in Running, LoadStep(t, from, to)
       PROVE  Worker(s)'
  <2>1. CASE Load(t, from, to)
    BY <2>1 DEF Load, TaskUnchanged, Running, Marking, Task
  <2>2. CASE LoadGone(t, from)
    BY <2>2 DEF LoadGone, Loaded, FilesAfterLoad, Unlink, Unsettled, Pending, TaskUnchanged
  <2>3. CASE LoadUnreadable(t, from)
    BY <2>3 DEF LoadUnreadable, TaskUnchanged
  <2>4. QED
    BY <1>10, <2>1, <2>2, <2>3 DEF LoadStep
<1>11. ASSUME NEW t \in Searches, Enrich(t) \/ MarkFailed(t)
       PROVE  Worker(s)'
  <2>1. t # s
    <3>1. Settled(s) => files'[s].status = "ready"
      BY DEF Settled, NewVersion
    <3>2. QED
      BY <1>11, <3>1, ReplaceSettles DEF Pending
  <2>2. QED
    BY <1>11, <2>1 DEF Enrich, MarkFailed, TaskUnchanged
<1>12. ASSUME NEW t \in Searches, MarkRaises(t)
       PROVE  Worker(s)'
  BY <1>12 DEF MarkRaises, TaskUnchanged
<1>13. ASSUME NEW c \in Clients, NEW t \in Searches, PollRead(c, t) \/ PollFinish(c)
       PROVE  Worker(s)'
  BY <1>13 DEF PollRead, PollFinish
<1>14. QED
  BY <1>1, <1>2, <1>3, <1>4, <1>5, <1>6, <1>7, <1>8, <1>9, <1>10, <1>11, <1>12, <1>13
  DEF Next, RequestStep, TaskStep, Running, Marking

LEMMA StepPending ==
  TypeInv /\ TypeInv' /\ SessionInv /\ PendingHasWorker /\ [Next]_vars => PendingHasWorker'
<1> SUFFICES ASSUME TypeInv, TypeInv', SessionInv, PendingHasWorker, [Next]_vars,
                    NEW s \in Searches, Pending(s)'
             PROVE  Worker(s)'
  BY DEF PendingHasWorker, Worker, Pending
<1>1. CASE Kept(s)
  BY <1>1, WorkerSteps DEF Kept, PendingHasWorker, Pending, Worker
<1>2. CASE Removed(s)
  BY <1>2 DEF Removed, Pending
<1>3. CASE Settled(s)
  BY <1>3 DEF Settled, NewVersion, Pending
<1>4. CASE Created(s)
  BY <1>4 DEF Created, Worker
<1>5. QED
  BY <1>1, <1>2, <1>3, <1>4, SessionSteps

(* A session stays pending only with a handler that will queue its task,   *)
(* with its task running, or after a fault nobody repairs.                 *)
THEOREM PendingWorked == Spec => []PendingHasWorker
<1>1. Init => PendingHasWorker
  BY DEF Init, PendingHasWorker, Pending
<1>2. QED
  BY <1>1, StepPending, SessionInvariant, PTL DEF Spec

----------------------------------------------------------------------------
(* The OSM data of a session: how old it may be, and what it supports.     *)

AgeInv == DataAgeInv /\ SkippedDataAgeBounded

LEMMA StepDeadlines ==
  ASSUME TypeInv, TypeInv', DataAgeInv, [Next]_vars
  PROVE  DataAgeInv'
<1> USE DEF server, history, TypeInv, TypeOK, Awaiting
<1>n. \A s \in Searches : req[s].deadline \in Nat /\ req[s].probe \in CacheEntry \cup {None}
  BY DEF Request
<1>1. CASE Tick
  BY <1>1, <1>n DEF Tick, DataAgeInv
<1>2. ASSUME UNCHANGED <<now, req>>
      PROVE  DataAgeInv'
  BY <1>2 DEF DataAgeInv
<1>3. ASSUME NEW s \in Searches, now' = now, req'[s].pc \notin Awaiting,
             \A t \in Searches \ {s} : req'[t] = req[t]
      PROVE  DataAgeInv'
  BY <1>3 DEF DataAgeInv
<1>m. ASSUME NEW s \in Searches, now' = now, \A t \in Searches \ {s} : req'[t] = req[t],
             now <= req'[s].deadline,
             req'[s].probe # None /\ req'[s].pc \in {"search", "brand"} =>
               req'[s].deadline < req'[s].probe.at + CacheTTL
                 + (IF req'[s].pc = "search" THEN UpstreamTimeout ELSE 2 * UpstreamTimeout)
      PROVE  DataAgeInv'
  BY <1>m DEF DataAgeInv
<1>u. UpstreamTimeout \in Nat /\ CacheTTL \in Nat /\ now \in Nat
  BY ConstantAssumption
<1>4. CASE Startup \/ UNCHANGED vars
  BY <1>2, <1>4 DEF Startup, vars
<1>5. CASE Crash
  BY <1>5 DEF Crash, DataAgeInv, NewRequest
<1>6. ASSUME NEW s \in Searches, NEW c \in Clients, NEW k \in Keys, NEW query \in Query,
             StartSearch(s, c, k, query)
      PROVE  DataAgeInv'
  <2>1. /\ req'[s].pc = "geocode" /\ req'[s].deadline = now + UpstreamTimeout
        /\ \A t \in Searches \ {s} : req'[t] = req[t]
        /\ now' = now
    BY <1>6 DEF StartSearch, Await, Deadline, NewRequest, ReqUnchanged
  <2>2. now <= now + UpstreamTimeout
    BY <1>u
  <2>3. QED
    BY <1>m, <2>1, <2>2
<1>7. ASSUME NEW s \in Searches, Geocoded(s)
      PROVE  DataAgeInv'
  <2> DEFINE entry == cache[req[s].key]
             probe == IF Fresh(entry) THEN entry ELSE None
  <2>1. /\ req'[s].pc = "search" /\ req'[s].deadline = now + UpstreamTimeout
        /\ req'[s].probe = probe
        /\ \A t \in Searches \ {s} : req'[t] = req[t]
        /\ now' = now
    <3>1. req[s] \in Request
      OBVIOUS
    <3>2. req' = [req EXCEPT ![s] = [[req[s] EXCEPT !.probe = probe]
                           EXCEPT !.pc = "search", !.deadline = Deadline]]
          /\ now' = now
      BY <1>7 DEF Geocoded, Await, ReqUnchanged
    <3>3. Deadline = now + UpstreamTimeout
      BY DEF Deadline
    <3> HIDE DEF probe
    <3>4. QED
      BY <3>1, <3>2, <3>3 DEF Request
  <2>2. probe # None => now - probe.at < CacheTTL /\ probe.at \in Nat
    <3>1. req[s].key \in Keys
      BY DEF Request
    <3>2. QED
      BY <3>1 DEF Fresh, CacheEntry
  <2> HIDE DEF probe
  <2>3. /\ now <= now + UpstreamTimeout
        /\ probe # None => now + UpstreamTimeout < probe.at + CacheTTL + UpstreamTimeout
    BY <1>u, <2>2
  <2>4. QED
    BY <1>m, <2>1, <2>3
<1>8. ASSUME NEW s \in Searches, GymsFound(s)
      PROVE  DataAgeInv'
  <2>1. /\ req[s].pc = "search"
        /\ req'[s].pc = "brand" /\ req'[s].deadline = now + UpstreamTimeout
        /\ req'[s].probe = req[s].probe
        /\ \A t \in Searches \ {s} : req'[t] = req[t]
        /\ now' = now
    BY <1>8 DEF GymsFound, Await, Deadline, ReqUnchanged, Request
  <2>2. req[s].probe # None => req[s].probe.at \in Nat
    BY <1>n DEF CacheEntry
  <2>3. now <= req[s].deadline
    BY <2>1 DEF DataAgeInv
  <2>4. req[s].probe # None => req[s].deadline < req[s].probe.at + CacheTTL + UpstreamTimeout
    BY <2>1 DEF DataAgeInv
  <2>5. /\ now <= now + UpstreamTimeout
        /\ req[s].probe # None =>
             now + UpstreamTimeout < req[s].probe.at + CacheTTL + 2 * UpstreamTimeout
    BY <1>n, <1>u, <2>2, <2>3, <2>4
  <2>6. QED
    BY <1>m, <2>1, <2>5
<1>9. ASSUME NEW s \in Searches,
             \/ SearchFails(s) \/ CreateFails(s) \/ Respond(s)
             \/ \E hits \in SUBSET Gyms : \E shown \in SUBSET Gyms : CreateSession(s, hits, shown)
      PROVE  DataAgeInv'
  <2>1. now' = now /\ \A t \in Searches \ {s} : req'[t] = req[t]
    BY <1>9 DEF SearchFails, CreateFails, Respond, CreateSession, ReqUnchanged
  <2>2. req'[s].pc \in {"failed", "done", "respond"}
    <3>1. CASE SearchFails(s) \/ CreateFails(s)
      BY <3>1 DEF SearchFails, CreateFails, NewRequest
    <3>2. CASE Respond(s)
      BY <3>2 DEF Respond, Request
    <3>3. CASE \E hits \in SUBSET Gyms : \E shown \in SUBSET Gyms : CreateSession(s, hits, shown)
      BY <3>3 DEF CreateSession, Request
    <3>4. QED
      BY <1>9, <3>1, <3>2, <3>3
  <2>3. QED
    BY <1>3, <2>1, <2>2
<1>10. ASSUME NEW s \in Searches, TaskStep(s)
       PROVE  DataAgeInv'
  BY <1>2, <1>10 DEF TaskStep, Fetched, FetchFails, CacheWritten, CacheWriteFails, LoadStep,
     Load, LoadGone, LoadUnreadable, Enrich, EnrichFails, MarkFailed, MarkRaises, TaskUnchanged
<1>11. ASSUME NEW c \in Clients,
              PollFinish(c) \/ \E s \in Searches : PollRead(c, s)
       PROVE  DataAgeInv'
  BY <1>2, <1>11 DEF PollRead, PollFinish
<1>12. QED
  BY <1>1, <1>4, <1>5, <1>6, <1>7, <1>8, <1>9, <1>10, <1>11 DEF Next, RequestStep

LEMMA StepAge ==
  TypeInv /\ TypeInv' /\ SessionInv /\ AgeInv /\ [Next]_vars => AgeInv'
<1> SUFFICES ASSUME TypeInv, TypeInv', SessionInv, AgeInv, [Next]_vars PROVE AgeInv'
  OBVIOUS
<1>1. DataAgeInv'
  BY StepDeadlines DEF AgeInv
<1>2. SkippedDataAgeBounded'
  <2> SUFFICES ASSUME NEW s \in Searches, files'[s] # None, files'[s].enrichment = "skipped"
               PROVE  files'[s].created < osmSeen'[s].at + CacheTTL + 2 * UpstreamTimeout
    BY DEF SkippedDataAgeBounded
  <2>1. CASE Kept(s)
    BY <2>1 DEF Kept, AgeInv, SkippedDataAgeBounded
  <2>2. CASE Removed(s) \/ Settled(s)
    BY <2>2 DEF Removed, Settled, NewVersion
  <2>3. CASE Created(s)
    <3>1. /\ req[s].pc \in {"search", "brand"} /\ files'[s].created = now
          /\ req[s].probe # None /\ osmSeen'[s] = req[s].probe
      BY <2>3 DEF Created
    <3>2. /\ now <= req[s].deadline
          /\ req[s].deadline < req[s].probe.at + CacheTTL
                + (IF req[s].pc = "search" THEN UpstreamTimeout ELSE 2 * UpstreamTimeout)
      BY <3>1 DEF AgeInv, DataAgeInv, Awaiting
    <3>3. now \in Nat /\ req[s].deadline \in Nat /\ req[s].probe.at \in Nat
      BY <3>1 DEF TypeInv, TypeOK, Request, CacheEntry
    <3>4. QED
      BY <3>1, <3>2, <3>3, ConstantAssumption
  <2>4. QED
    BY <2>1, <2>2, <2>3, SessionSteps
<1>3. QED
  BY <1>1, <1>2 DEF AgeInv

(* A session served from the cache carries OSM data that was fresh when it *)
(* was probed, and so not older than the TTL and two upstream timeouts.    *)
THEOREM DataAgeBounded == Spec => []SkippedDataAgeBounded
<1>1. Init => AgeInv
  BY DEF Init, AgeInv, DataAgeInv, SkippedDataAgeBounded, NewRequest, Awaiting
<1>2. AgeInv => SkippedDataAgeBounded
  BY DEF AgeInv
<1>3. QED
  BY <1>1, <1>2, StepAge, SessionInvariant, PTL DEF Spec

(* What OSM data says about the results it was applied to.                 *)
Supports(osm, results) ==
  \A g \in Gyms :
    /\ results[g] = "osm_confirmed" => osm[g] = "exact"
    /\ results[g] = "osm_nearby" => osm[g] = "near"
    /\ results[g] = "tomtom_only" => osm[g] = "none"

LEMMA ApplyOsmSupports ==
  ASSUME NEW results \in Results, NEW osm \in Osm,
         \A g \in Gyms : results[g] \notin {"osm_nearby", "osm_confirmed"}
  PROVE  Supports(osm, ApplyOsm(results, osm))
  BY DEF Supports, ApplyOsm, OsmTier, Results, Osm, Verdict, MatchStatus

LEMMA SnapshotSupports ==
  ASSUME NEW probe \in CacheEntry, NEW hits \in SUBSET Gyms, NEW shown \in SUBSET Gyms
  PROVE  /\ Supports(probe.osm, Snapshot(probe, hits, shown))
         /\ \A g \in Gyms : Snapshot(probe, hits, shown)[g] = "tomtom_corroborated"
                             => probe.osm[g] = "none"
<1>1. probe # None /\ probe.osm \in Osm
  BY NoneAssumption DEF CacheEntry
<1>2. QED
  BY <1>1 DEF Supports, Snapshot, ApplyBrand, ApplyOsm, TomTomOnly, OsmTier, Osm, Verdict

LEMMA StepProvenance ==
  TypeInv /\ TypeInv' /\ SessionInv /\ ProvenanceSupported /\ [Next]_vars
    => ProvenanceSupported'
<1> DEFINE Prov(f, osm) ==
      Supports(osm, f.results)
        /\ (f.enrichment = "skipped" =>
              \A g \in Gyms : f.results[g] = "tomtom_corroborated" => osm[g] = "none")
<1> SUFFICES ASSUME TypeInv, TypeInv', SessionInv, ProvenanceSupported, [Next]_vars,
                    NEW s \in Searches, files'[s] # None, osmSeen'[s] # None
             PROVE  Prov(files'[s], osmSeen'[s].osm)
  BY DEF ProvenanceSupported, Supports
<1>1. CASE Kept(s)
  BY <1>1 DEF Kept, ProvenanceSupported, Supports
<1>2. CASE Removed(s)
  BY <1>2 DEF Removed
<1>3. CASE Settled(s)
  <2>1. /\ task[s].snap \in Session /\ NoOsmTier(task[s].snap) /\ osmSeen[s] = None
    BY <1>3 DEF Settled, SessionInv, TaskInv, Replacing, Running, Marking, TypeInv, ActorsOK
  <2>2. PICK results \in Results, enrichment \in {"completed", "failed"} :
          /\ NewVersion(files'[s], task[s].snap, results, enrichment)
          /\ enrichment = "completed" =>
               /\ task[s].osm \in Osm
               /\ results = ApplyOsm(task[s].snap.results, task[s].osm)
               /\ osmSeen'[s].osm = task[s].osm
          /\ enrichment = "failed" => osmSeen'[s] = osmSeen[s]
    BY <1>3 DEF Settled
  <2>3. enrichment = "completed"
    BY <2>1, <2>2
  <2>4. files'[s].results = ApplyOsm(task[s].snap.results, task[s].osm)
        /\ files'[s].enrichment = "completed"
    BY <2>2, <2>3 DEF NewVersion
  <2>5. Supports(task[s].osm, ApplyOsm(task[s].snap.results, task[s].osm))
    <3>1. /\ task[s].snap.results \in Results
          /\ \A g \in Gyms : task[s].snap.results[g] \notin {"osm_nearby", "osm_confirmed"}
      BY <2>1 DEF Session, NoOsmTier
    <3>2. QED
      BY <2>2, <2>3, <3>1, ApplyOsmSupports
  <2>6. QED
    BY <2>2, <2>3, <2>4, <2>5
<1>4. CASE Created(s)
  <2>1. PICK hits \in SUBSET Gyms, shown \in SUBSET Gyms :
          files'[s].results = Snapshot(req[s].probe, hits, shown)
    BY <1>4 DEF Created
  <2>2. osmSeen'[s] = req[s].probe /\ req[s].probe \in CacheEntry
    BY <1>4 DEF Created, TypeInv, TypeOK, Request
  <2>3. QED
    BY <2>1, <2>2, SnapshotSupports
<1>5. QED
  BY <1>1, <1>2, <1>3, <1>4, SessionSteps

(* The provenance of a settled session is what the OSM data applied to it  *)
(* supports, whatever other searches write to the cache in the meantime.   *)
THEOREM ProvenanceIsSupported == Spec => []ProvenanceSupported
<1>1. Init => ProvenanceSupported
  BY DEF Init, ProvenanceSupported
<1>2. QED
  BY <1>1, StepProvenance, SessionInvariant, PTL DEF Spec

----------------------------------------------------------------------------
(* What clients are told of a session never goes back, provided that the   *)
(* files of sessions can be read.                                          *)

(* What a step does to the actors of a session.                            *)
ActorStep(s) ==
  /\ req[s].pc = "done" => req'[s].pc = "done"
  /\ req[s].pc = "done" /\ task[s].pc \notin Running => task'[s].pc \notin Running
  /\ task'[s].pc \in {"replace", "markreplace"} =>
       \/ Replacing(s) /\ task'[s].snap = task[s].snap
       \/ task'[s].snap = files[s]

LEMMA RequestOnly ==
  ASSUME TypeInv, NEW t \in Searches, RequestStep(t), ~Respond(t)
  PROVE  /\ req[t].pc \in Awaiting /\ UNCHANGED <<task, view, poll>>
         /\ \A u \in Searches \ {t} : req'[u] = req[u]
<1> USE DEF TypeInv, TypeOK, Awaiting, ReqUnchanged
<1>1. CASE SearchFails(t) \/ CreateFails(t)
  BY <1>1 DEF SearchFails, CreateFails, LastAwaitDone
<1>2. CASE Geocoded(t) \/ GymsFound(t)
  BY <1>2 DEF Geocoded, GymsFound, Await
<1>3. CASE \E hits \in SUBSET Gyms : \E shown \in SUBSET Gyms : CreateSession(t, hits, shown)
  BY <1>3 DEF CreateSession, LastAwaitDone
<1>4. QED
  BY <1>1, <1>2, <1>3 DEF RequestStep

LEMMA TaskOnly ==
  ASSUME TypeInv, NEW t \in Searches, TaskStep(t)
  PROVE  /\ task[t].pc \in Running /\ UNCHANGED <<req, view, poll>>
         /\ \A u \in Searches \ {t} : task'[u] = task[u]
<1> USE DEF TypeInv, TypeOK, Running, Marking, TaskUnchanged
<1>1. CASE \/ \E osm \in Osm : Fetched(t, osm)
           \/ FetchFails(t) \/ CacheWritten(t) \/ CacheWriteFails(t) \/ EnrichFails(t)
  BY <1>1 DEF Fetched, FetchFails, CacheWritten, CacheWriteFails, EnrichFails, TaskGoes
<1>2. ASSUME NEW from \in {"load", "markload"}, NEW to \in {"replace", "markreplace"},
             LoadStep(t, from, to)
      PROVE  /\ task[t].pc \in Running /\ UNCHANGED <<req, view, poll>>
             /\ \A u \in Searches \ {t} : task'[u] = task[u]
  BY <1>2 DEF LoadStep, Load, LoadGone, LoadUnreadable
<1>3. CASE Enrich(t) \/ MarkFailed(t) \/ MarkRaises(t)
  BY <1>3 DEF Enrich, MarkFailed, MarkRaises
<1>4. QED
  BY <1>1, <1>2, <1>3 DEF TaskStep

(* The only way into a replacing step is a load.                           *)
LEMMA TaskReplacing ==
  ASSUME TypeInv, NEW t \in Searches, TaskStep(t), task'[t].pc \in {"replace", "markreplace"}
  PROVE  task'[t].snap = files[t]
<1> USE DEF TypeInv, TypeOK, Task, Running, Marking
<1>1. CASE \E osm \in Osm : Fetched(t, osm)
  BY <1>1 DEF Fetched
<1>2. CASE FetchFails(t)
  BY <1>2 DEF FetchFails
<1>3. CASE CacheWritten(t)
  BY <1>3 DEF CacheWritten, TaskGoes
<1>4. CASE CacheWriteFails(t)
  BY <1>4 DEF CacheWriteFails
<1>5. ASSUME NEW from \in {"load", "markload"}, NEW to \in {"replace", "markreplace"},
             LoadStep(t, from, to)
      PROVE  task'[t].snap = files[t]
  <2>1. CASE Load(t, from, to)
    BY <2>1 DEF Load, Loaded, Unsettled
  <2>2. CASE LoadGone(t, from) \/ LoadUnreadable(t, from)
    <3>1. task'[t] = EndedTask("done")
      BY <2>2 DEF LoadGone, LoadUnreadable
    <3>2. QED
      BY <3>1, EndedTaskFields
  <2>3. QED
    BY <1>5, <2>1, <2>2 DEF LoadStep
<1>6. CASE EnrichFails(t)
  BY <1>6 DEF EnrichFails
<1>7. CASE Enrich(t) \/ MarkFailed(t) \/ MarkRaises(t)
  BY <1>7, EndedTaskFields DEF Enrich, MarkFailed, MarkRaises
<1>8. QED
  BY <1>1, <1>2, <1>3, <1>4, <1>5, <1>6, <1>7 DEF TaskStep

LEMMA ActorSteps ==
  ASSUME TypeInv, SessionInv, [Next]_vars, NEW s \in Searches
  PROVE  ActorStep(s)
<1> USE DEF ActorStep, TypeInv, TypeOK, server, history
<1>1. ASSUME UNCHANGED <<req, task>>
      PROVE  ActorStep(s)
  BY <1>1 DEF Replacing
<1>2. CASE Tick \/ Startup \/ UNCHANGED vars
  BY <1>1, <1>2 DEF Tick, Startup, vars
<1>3. CASE Crash
  <2>1. /\ req[s].pc = "done" => req'[s] = req[s]
        /\ task'[s] = IF task[s].pc \in Running THEN EndedTask("lost") ELSE task[s]
    BY <1>3 DEF Crash, Awaiting
  <2>2. QED
    BY <2>1, EndedTaskFields, StringFacts DEF Running, Marking
<1>4. ASSUME NEW t \in Searches, NEW c \in Clients, NEW k \in Keys, NEW query \in Query,
             StartSearch(t, c, k, query)
      PROVE  ActorStep(s)
  BY <1>4 DEF StartSearch, Await, ReqUnchanged, Replacing
<1>5. ASSUME NEW t \in Searches, RequestStep(t), ~Respond(t)
      PROVE  ActorStep(s)
  BY <1>5, RequestOnly, StringFacts DEF Replacing
<1>6. ASSUME NEW t \in Searches, Respond(t)
      PROVE  ActorStep(s)
  <2>1. /\ req[t].pc = "respond"
        /\ \A u \in Searches \ {t} : req'[u] = req[u] /\ task'[u] = task[u]
        /\ task'[t] = IF req[t].probe # None THEN task[t] ELSE EndedTask("queued")
    BY <1>6 DEF Respond
  <2>2. QED
    BY <2>1, EndedTaskFields DEF Replacing
<1>7. ASSUME NEW t \in Searches, TaskStep(t)
      PROVE  ActorStep(s)
  BY <1>7, TaskOnly, TaskReplacing DEF Replacing
<1>8. ASSUME NEW c \in Clients, PollFinish(c) \/ \E t \in Searches : PollRead(c, t)
      PROVE  ActorStep(s)
  BY <1>1, <1>8 DEF PollFinish, PollRead
<1>9. QED
  BY <1>2, <1>3, <1>4, <1>5, <1>6, <1>7, <1>8 DEF Next

(* What a step does to what a client has read and been told.               *)
NewRead(c) ==
  poll'[c].id \in Searches /\ poll'[c].snap = files[poll'[c].id] /\ req[poll'[c].id].pc = "done"
Told(c, s) ==
  \/ Polling(c, s) /\ PollFinish(c)
  \/ c = req[s].client /\ Respond(s)

LEMMA ClientSteps ==
  ASSUME TypeInv, ~ReadFaults, [Next]_vars, NEW c \in Clients, NEW s \in Searches
  PROVE  /\ poll'[c] = poll[c] \/ poll'[c].pc = "idle" \/ NewRead(c)
         /\ view'[c][s] = view[c][s] \/ Told(c, s)
<1> DEFINE Goal == /\ poll'[c] = poll[c] \/ poll'[c].pc = "idle" \/ NewRead(c)
                   /\ view'[c][s] = view[c][s] \/ Told(c, s)
<1> USE DEF TypeInv, TypeOK, server, history
<1>1. ASSUME UNCHANGED <<poll, view>>
      PROVE  Goal
  BY <1>1
<1>2. CASE Tick \/ Startup \/ UNCHANGED vars
  BY <1>1, <1>2 DEF Tick, Startup, vars
<1>3. CASE Crash
  BY <1>3 DEF Crash, IdlePoll
<1>4. ASSUME NEW t \in Searches, NEW d \in Clients, NEW k \in Keys, NEW query \in Query,
             StartSearch(t, d, k, query)
      PROVE  Goal
  BY <1>1, <1>4 DEF StartSearch, ReqUnchanged
<1>5. ASSUME NEW t \in Searches, RequestStep(t), ~Respond(t)
      PROVE  Goal
  BY <1>1, <1>5, RequestOnly
<1>6. ASSUME NEW t \in Searches, Respond(t)
      PROVE  Goal
  BY <1>6 DEF Respond, Told
<1>7. ASSUME NEW t \in Searches, TaskStep(t)
      PROVE  Goal
  BY <1>1, <1>7, TaskOnly
<1>8. ASSUME NEW d \in Clients, PollFinish(d)
      PROVE  Goal
  <2>1. poll'[c] = poll[c] \/ poll'[c].pc = "idle"
    BY <1>8 DEF PollFinish, IdlePoll
  <2>2. view'[c][s] = view[c][s] \/ (d = c /\ poll[c].id = s)
    BY <1>8 DEF PollFinish
  <2>3. poll[d].pc = "read"
    BY <1>8 DEF PollFinish
  <2>4. QED
    BY <1>8, <2>1, <2>2, <2>3 DEF Told, Polling
<1>9. ASSUME NEW d \in Clients, NEW t \in Searches, PollRead(d, t)
      PROVE  Goal
  BY <1>9 DEF PollRead, NewRead
<1>10. QED
  BY <1>2, <1>3, <1>4, <1>5, <1>6, <1>7, <1>8, <1>9 DEF Next

(* A session closed to a client stays so: what is still in flight for it   *)
(* is another version of the same session.                                 *)
LEMMA ClosedSteps ==
  ASSUME TypeInv, TypeInv', SessionInv, [Next]_vars, NEW c \in Clients, NEW s \in Searches,
         req[s].pc = "done", Closed(c, s)
  PROVE  Closed(c, s)'
<1> USE DEF Closed, ClosedTo
<1>t. /\ files[s] \in Session \cup {None} /\ files'[s] \in Session \cup {None}
      /\ Replacing(s) => task[s].snap \in Session
      /\ now \in Nat /\ now' \in Nat
  BY DEF TypeInv, TypeOK, ActorsOK, Replacing
<1>a. Replacing(s)' => \/ Replacing(s) /\ task'[s].snap = task[s].snap
                      \/ task'[s].snap = files[s]
  BY ActorSteps DEF ActorStep, Replacing
<1>e. ASSUME NEW f \in Session, now' \in {now, now + 1}, Expired(f)
      PROVE  Expired(f)'
  BY <1>t, <1>e DEF Expired, Session
<1>1. CASE Kept(s)
  BY <1>1, <1>t, <1>a, <1>e DEF Kept, Expired, Session
<1>2. CASE Removed(s)
  BY <1>2, <1>t, <1>a DEF Removed, Expired
<1>3. CASE Settled(s)
  <2>1. /\ files'[s].owner = task[s].snap.owner /\ files'[s].expires = task[s].snap.expires
        /\ Replacing(s) /\ now' = now /\ task[s].snap # None
    BY <1>3, <1>t, NoneAssumption DEF Settled, NewVersion
  <2>2. ClosedTo(c, files[s])' /\ (files[s] # None => files[s].owner # c \/ files[s].expires <= now')
    BY <2>1, <1>t DEF Expired
  <2>3. task[s].snap.owner # c \/ task[s].snap.expires <= now'
    BY <2>1 DEF Expired
  <2>4. QED
    BY <1>a, <2>1, <2>2, <2>3 DEF Expired
<1>4. CASE Created(s)
  BY <1>4 DEF Created
<1>5. QED
  BY <1>1, <1>2, <1>3, <1>4, SessionSteps

LEMMA StepView ==
  ~ReadFaults => (TypeInv /\ TypeInv' /\ SessionInv /\ ViewInv /\ [Next]_vars => ViewInv')
<1> DEFINE Holds(c, s, v) ==
      /\ v.status # "unknown" => req'[s].pc = "done"
      /\ v.status # "ready" => v.revision = 0
      /\ v.status = "ready" =>
           /\ task'[s].pc \notin Running
           /\ files'[s] # None => ReplyOf(files'[s]) = v
           /\ poll'[c].pc = "read" /\ poll'[c].id = s /\ poll'[c].snap # None
                => ReplyOf(poll'[c].snap) = v
      /\ v.status = "notfound" =>
           Closed(c, s)' /\ (Polling(c, s)' => ClosedTo(c, poll[c].snap)')
      /\ Polling(c, s)' /\ poll'[c].snap = None => Closed(c, s)'
<1> SUFFICES ASSUME ~ReadFaults, TypeInv, TypeInv', SessionInv, ViewInv, [Next]_vars,
                    NEW c \in Clients, NEW s \in Searches
             PROVE  Holds(c, s, view'[c][s])
  BY ZenonT(60) DEF ViewInv, Polling, ReplyOf
<1> HIDE DEF Holds
<1>i. SessionInv'
  BY StepSession
<1>a. ActorStep(s)
  BY ActorSteps
<1>c. /\ poll'[c] = poll[c] \/ poll'[c].pc = "idle" \/ NewRead(c)
      /\ view'[c][s] = view[c][s] \/ Told(c, s)
  BY ClientSteps
<1>n. now \in Nat /\ now' \in {now, now + 1}
  BY SessionSteps DEF TypeInv, TypeOK, Kept, Removed, Settled, Created
<1>t. /\ files[s] \in Session \cup {None} /\ files'[s] \in Session \cup {None}
      /\ poll[c].snap \in Session \cup {None}
  BY DEF TypeInv, TypeOK, Poll
<1>1. ASSUME Polling(c, s)', poll'[c].snap = None
      PROVE  Closed(c, s)'
  <2>1. CASE poll'[c] = poll[c]
    <3>1. Polling(c, s) /\ poll[c].snap = None /\ req[s].pc = "done"
      BY <1>1, <2>1 DEF Polling, SessionInv, PollInv
    <3>2. Closed(c, s)
      BY <3>1 DEF ViewInv
    <3>3. QED
      BY <3>1, <3>2, ClosedSteps
  <2>2. CASE NewRead(c)
    <3>1. files[s] = None /\ req[s].pc = "done"
      BY <1>1, <2>2 DEF NewRead, Polling
    <3>2. Replacing(s) => Expired(task[s].snap)
      BY <3>1 DEF SessionInv, TaskInv, Replacing, Running, Marking, Unsettled
    <3>3. Closed(c, s)
      BY <3>1, <3>2 DEF Closed, ClosedTo
    <3>4. QED
      BY <3>1, <3>3, ClosedSteps
  <2>3. QED
    BY <1>1, <1>c, <2>1, <2>2 DEF Polling
<1>2. CASE view'[c][s] = view[c][s]
  <2> DEFINE v == view[c][s]
  <2>1. /\ v.status # "unknown" => req[s].pc = "done"
        /\ v.status # "ready" => v.revision = 0
    BY DEF ViewInv
  <2>2. ASSUME v.status = "ready"
        PROVE  /\ task'[s].pc \notin Running
               /\ files'[s] # None => ReplyOf(files'[s]) = v
               /\ poll'[c].pc = "read" /\ poll'[c].id = s /\ poll'[c].snap # None
                    => ReplyOf(poll'[c].snap) = v
    <3>1. /\ task[s].pc \notin Running /\ req[s].pc = "done"
          /\ files[s] # None => ReplyOf(files[s]) = v
          /\ Polling(c, s) /\ poll[c].snap # None => ReplyOf(poll[c].snap) = v
      BY <2>1, <2>2 DEF ViewInv
    <3>2. files'[s] \in {files[s], None}
      BY <3>1, SessionSteps DEF Kept, Removed, Settled, Created, Replacing, Running, Marking
    <3>3. QED
      BY <1>a, <1>c, <3>1, <3>2 DEF ActorStep, NewRead, Polling
  <2>3. ASSUME v.status = "notfound"
        PROVE  Closed(c, s)' /\ (Polling(c, s)' => ClosedTo(c, poll[c].snap)')
    <3>1. Closed(c, s) /\ (Polling(c, s) => ClosedTo(c, poll[c].snap)) /\ req[s].pc = "done"
      BY <2>1, <2>3 DEF ViewInv
    <3>2. Closed(c, s)'
      BY <3>1, ClosedSteps
    <3>3. ASSUME NEW f \in Session \cup {None}, ClosedTo(c, f), poll'[c].snap = f
          PROVE  ClosedTo(c, poll[c].snap)'
      BY <1>n, <3>3 DEF ClosedTo, Expired, Session
    <3>4. Polling(c, s)' => \/ Polling(c, s) /\ poll'[c].snap = poll[c].snap
                            \/ poll'[c].snap = files[s]
      BY <1>c DEF NewRead, Polling
    <3>5. QED
      BY <1>t, <3>1, <3>2, <3>3, <3>4 DEF Closed
  <2>4. req[s].pc = "done" => req'[s].pc = "done"
    BY <1>a DEF ActorStep
  <2> HIDE DEF v
  <2>5. Holds(c, s, v)
    BY <1>1, <2>1, <2>2, <2>3, <2>4 DEF Holds
  <2>6. QED
    BY <1>2, <2>5 DEF v
<1>3. CASE c = req[s].client /\ Respond(s)
  <2> DEFINE v == [status |-> IF req[s].probe # None THEN "ready" ELSE "enriching",
                   revision |-> 0]
  <2>1. view'[c][s] = v /\ req[s].pc = "respond" /\ req'[s].pc = "done" /\ poll' = poll
        /\ files' = files /\ (req[s].probe # None => task' = task)
    BY <1>3 DEF Respond, TypeInv, TypeOK, Request
  <2>2. ~Polling(c, s)'
    BY <2>1 DEF Polling, SessionInv, PollInv
  <2>3. /\ task[s].pc = "idle" /\ files[s].revision = 0
        /\ files[s].status = v.status
    BY <2>1 DEF SessionInv, HandlerInv
  <2>4. /\ v.revision = 0 /\ v.status \in {"ready", "enriching"}
        /\ v.status = "ready" => req[s].probe # None
        /\ [status |-> v.status, revision |-> v.revision] = v
    OBVIOUS
  <2> HIDE DEF v
  <2>5. Holds(c, s, v)
    BY <2>1, <2>2, <2>3, <2>4, StringFacts DEF Holds, Polling, ReplyOf
  <2>6. QED
    BY <2>1, <2>5
<1>4. CASE Polling(c, s) /\ PollFinish(c)
  <2> DEFINE snap == poll[c].snap
             served == snap # None /\ ~Expired(snap) /\ snap.owner = c
             v == IF served THEN ReplyOf(snap) ELSE NotFound
  <2>1. /\ view'[c][s] = v /\ poll'[c].pc = "idle"
        /\ files'[s] \in {files[s], None}
        /\ UNCHANGED <<now, req, task>>
    BY <1>4 DEF PollFinish, Polling, TypeInv, TypeOK, IdlePoll, Unlink, server, history
  <2>2. /\ req[s].pc = "done"
        /\ snap # None =>
             /\ files[s] # None => SameSession(files[s], snap)
             /\ Replacing(s) => SameSession(task[s].snap, snap)
             /\ snap.status = "enriching" => snap.revision = 0
             /\ snap.status = "ready" => task[s].pc \notin Running /\ files[s] \in {None, snap}
    BY <1>4 DEF Polling, SessionInv, PollInv
  <2>3. ~served => Closed(c, s)'
    <3>1. CASE snap = None
      <4>1. Closed(c, s)
        BY <1>4, <3>1 DEF ViewInv
      <4>2. QED
        BY <2>2, <4>1, ClosedSteps
    <3>2. ASSUME snap # None, ~served
          PROVE  Closed(c, s)
      BY <2>2, <3>2 DEF Closed, ClosedTo, SameSession, Expired
    <3>3. QED
      BY <2>2, <3>1, <3>2, ClosedSteps
  <2>4. /\ served => v = ReplyOf(snap) /\ snap \in Session
        /\ ~served => v.status = "notfound" /\ v.revision = 0
    BY <1>t DEF NotFound
  <2>5. /\ served => v.status = snap.status /\ v.revision = snap.revision
        /\ served => v.status \in {"enriching", "ready"}
    BY <2>4 DEF ReplyOf, Session
  <2> HIDE DEF v
  <2>6. v.status = "ready" =>
          task'[s].pc \notin Running /\ (files'[s] # None => ReplyOf(files'[s]) = v)
    BY <2>1, <2>2, <2>4, <2>5
  <2>7. Holds(c, s, v)
    BY <2>1, <2>2, <2>3, <2>4, <2>5, <2>6 DEF Holds, Polling
  <2>8. QED
    BY <2>1, <2>7
<1>5. QED
  BY <1>c, <1>2, <1>3, <1>4 DEF Told

LEMMA InitView == Init => ViewInv
  BY DEF Init, ViewInv, Unknown, Polling, IdlePoll

LEMMA ViewInvariant ==
  ASSUME ~ReadFaults
  PROVE  Spec => [](TypeInv /\ SessionInv /\ ViewInv)
<1>1. TypeInv /\ TypeInv' /\ SessionInv /\ ViewInv /\ [Next]_vars => ViewInv'
  BY StepView
<1>2. QED
  BY <1>1, InitView, SessionInvariant, PTL DEF Spec

(* If session files can be read, the answers a client gets never go back:  *)
(* a ready answer is final, and a session not found is never found later.  *)
(* This is about get_live_search_session_v2 and load_live_search_session,  *)
(* whose read, expiry check and unlink race the task's replacement.        *)
THEOREM AnswersStand ==
  ASSUME ~ReadFaults
  PROVE  Spec => AnswersNeverRegress
<1> DEFINE Step == \A c \in Clients, s \in Searches :
       LET old == view[c][s]
           new == view'[c][s]
       IN /\ old.status = "notfound" => new = old
          /\ old.status = "ready" => new = old \/ new = NotFound
          /\ old.status = "enriching" => new.status # "unknown"
          /\ new.revision < old.revision => new = NotFound
<1>1. ASSUME TypeInv, TypeInv', SessionInv, ViewInv, [Next]_vars
      PROVE  Step
  <2> SUFFICES ASSUME NEW c \in Clients, NEW s \in Searches,
                      NEW old, old = view[c][s], NEW new, new = view'[c][s]
               PROVE  /\ old.status = "notfound" => new = old
                      /\ old.status = "ready" => new = old \/ new = NotFound
                      /\ old.status = "enriching" => new.status # "unknown"
                      /\ new.revision < old.revision => new = NotFound
    OBVIOUS
  <2>1. old \in Reply /\ new \in Reply
    BY <1>1 DEF TypeInv, TypeOK
  <2>2. /\ old.status # "unknown" => req[s].pc = "done"
        /\ old.status # "ready" => old.revision = 0
    BY <1>1 DEF ViewInv
  <2>3. new = old \/ Told(c, s)
    BY <1>1, ClientSteps
  <2>4. CASE new = old
    BY <2>1, <2>4 DEF Reply
  <2>5. CASE Respond(s)
    <3>1. req[s].pc = "respond"
      BY <2>5 DEF Respond
    <3>2. old.status = "unknown" /\ old.revision = 0
      BY <2>2, <3>1
    <3>3. QED
      BY <2>1, <3>2 DEF Reply
  <2>6. CASE Polling(c, s) /\ PollFinish(c)
    <3> DEFINE snap == poll[c].snap
               served == snap # None /\ ~Expired(snap) /\ snap.owner = c
    <3>1. new = IF served THEN ReplyOf(snap) ELSE NotFound
      BY <1>1, <2>6 DEF PollFinish, Polling, TypeInv, TypeOK
    <3>2. served => snap \in Session
      BY <1>1, <2>6 DEF TypeInv, TypeOK, Poll
    <3>3. served => new.status # "unknown"
      BY <3>1, <3>2 DEF ReplyOf, Session
    <3>4. old.status = "notfound" => ~served
      BY <1>1, <2>6 DEF ViewInv, ClosedTo
    <3>5. old.status = "ready" /\ served => new = old
      BY <1>1, <2>6, <3>1 DEF ViewInv
    <3> HIDE DEF served
    <3>6. old.status = "notfound" => old = NotFound
      BY <2>1, <2>2 DEF Reply, NotFound
    <3>7. NotFound.status = "notfound"
      BY DEF NotFound
    <3>8. QED
      BY <2>1, <2>2, <3>1, <3>3, <3>4, <3>5, <3>6, <3>7 DEF Reply
  <2>7. QED
    BY <2>3, <2>4, <2>5, <2>6 DEF Told
<1>2. TypeInv /\ TypeInv' /\ SessionInv /\ ViewInv /\ [Next]_vars => [Step]_vars
  BY <1>1
<1>3. QED
  BY <1>2, ViewInvariant, PTL DEF Spec, AnswersNeverRegress

----------------------------------------------------------------------------
(* Every enrichment that is dispatched is counted once, as a success or a  *)
(* failure, or its task is still to count it or has died.                  *)

(* The searches whose enrichment has been dispatched and not counted yet.  *)
Owed == {s \in Searches : OwesOutcome(s)} \cup uncounted

(* A task that has died owing its outcome is not run again, an outcome is  *)
(* owed only while the session is marked, and every dispatched enrichment  *)
(* is counted or owed.                                                     *)
OutcomeInv ==
  /\ \A s \in uncounted : req[s].pc = "done" /\ task[s].pc \notin Running
  /\ \A s \in Searches : task[s].owes # "nothing" => task[s].pc \in Marking
  /\ IsFiniteSet(Owed)
  /\ OutcomesAccounted

(* A step that leaves what is owed and what is counted alone, dispatches   *)
(* an enrichment, or counts one that was owed.                             *)
Accounting ==
  \/ Owed' = Owed /\ metrics' = metrics
  \/ \E s \in Searches : s \notin Owed /\ Owed' = Owed \cup {s} /\ Count("dispatched")
  \/ \E s \in Owed, n \in Counters \ {"dispatched"} : Owed' = Owed \ {s} /\ Count(n)

LEMMA AccountingKeeps ==
  ASSUME TypeInv, IsFiniteSet(Owed), OutcomesAccounted, Accounting
  PROVE  IsFiniteSet(Owed)' /\ OutcomesAccounted'
<1> DEFINE n == Cardinality(Owed)
           m == Cardinality(Owed')
<1>1. /\ metrics["dispatched"] \in Nat /\ metrics["success"] \in Nat
      /\ metrics["failure"] \in Nat /\ metrics["write_failure"] \in Nat
      /\ metrics \in [Counters -> Nat]
  BY DEF TypeInv, TypeOK, Counters
<1>2. n \in Nat
  BY FS_CardinalityType
<1>3. metrics["dispatched"]
        = metrics["success"] + metrics["failure"] + metrics["write_failure"] + n
  BY DEF OutcomesAccounted, Owed
<1>4. OutcomesAccounted' <=>
        metrics'["dispatched"]
          = metrics'["success"] + metrics'["failure"] + metrics'["write_failure"] + m
  BY DEF OutcomesAccounted, Owed
<1>5. CASE Owed' = Owed /\ metrics' = metrics
  BY <1>3, <1>4, <1>5
<1>6. ASSUME NEW s \in Searches, s \notin Owed, Owed' = Owed \cup {s}, Count("dispatched")
      PROVE  IsFiniteSet(Owed)' /\ OutcomesAccounted'
  <2>1. IsFiniteSet(Owed') /\ m = n + 1
    BY <1>6, FS_AddElement
  <2>2. metrics' = [metrics EXCEPT !["dispatched"] = metrics["dispatched"] + 1]
    BY <1>6 DEF Count
  <2>3. /\ metrics'["dispatched"] = metrics["dispatched"] + 1
        /\ metrics'["success"] = metrics["success"]
        /\ metrics'["failure"] = metrics["failure"]
        /\ metrics'["write_failure"] = metrics["write_failure"]
    BY <1>1, <2>2 DEF Counters
  <2> HIDE DEF n, m
  <2>4. QED
    BY <1>1, <1>2, <1>3, <1>4, <2>1, <2>3
<1>7. ASSUME NEW s \in Owed, NEW c \in Counters \ {"dispatched"}, Owed' = Owed \ {s}, Count(c)
      PROVE  IsFiniteSet(Owed)' /\ OutcomesAccounted'
  <2>1. IsFiniteSet(Owed') /\ m = n - 1
    BY <1>7, FS_RemoveElement
  <2>2. metrics' = [metrics EXCEPT ![c] = metrics[c] + 1]
    BY <1>7 DEF Count
  <2>3. metrics'["dispatched"] = metrics["dispatched"]
    BY <1>1, <2>2 DEF Counters
  <2>4. metrics'["success"] + metrics'["failure"] + metrics'["write_failure"]
          = metrics["success"] + metrics["failure"] + metrics["write_failure"] + 1
    BY <1>1, <2>2 DEF Counters
  <2>5. metrics'["success"] \in Nat /\ metrics'["failure"] \in Nat /\ metrics'["write_failure"] \in Nat
    BY <1>1, <2>2 DEF Counters
  <2> HIDE DEF n, m
  <2>6. QED
    BY <1>1, <1>2, <1>3, <1>4, <2>1, <2>3, <2>4, <2>5
<1>8. QED
  BY <1>5, <1>6, <1>7 DEF Accounting

(* The step of one search: what the others owe stays as it is.             *)
LEMMA SearchAccounts ==
  ASSUME TypeInv, TypeInv', OutcomeInv, NEW t \in Searches, t \notin uncounted,
         \A u \in Searches \ {t} : req'[u] = req[u] /\ task'[u] = task[u],
         task'[t].owes # "nothing" => task'[t].pc \in Marking,
         \/ uncounted' = uncounted
         \/ /\ uncounted' = uncounted \cup {t}
            /\ req'[t].pc = "done" /\ task'[t].pc \notin Running,
         \/ (t \in Owed' <=> OwesOutcome(t)) /\ metrics' = metrics
         \/ ~OwesOutcome(t) /\ t \in Owed' /\ Count("dispatched")
         \/ /\ OwesOutcome(t) /\ t \notin Owed'
            /\ \E n \in Counters \ {"dispatched"} : Count(n)
  PROVE  OutcomeInv'
<1>1. \A u \in Searches \ {t} : OwesOutcome(u)' <=> OwesOutcome(u)
  BY DEF OwesOutcome
<1>2. uncounted \subseteq Searches /\ uncounted' \subseteq Searches
  BY DEF TypeInv, TypeOK
<1>3. \A u \in Searches \ {t} : u \in uncounted' <=> u \in uncounted
  OBVIOUS
<1>4. Owed \subseteq Searches /\ Owed' \subseteq Searches
  BY <1>2 DEF Owed
<1>5. \A u \in Searches \ {t} : u \in Owed' <=> u \in Owed
  BY <1>1, <1>3 DEF Owed
<1>6. t \in Owed <=> OwesOutcome(t)
  BY DEF Owed
<1>7. Accounting
  <2>1. CASE (t \in Owed' <=> OwesOutcome(t)) /\ metrics' = metrics
    <3>1. Owed' = Owed
      BY <1>4, <1>5, <1>6, <2>1
    <3>2. QED
      BY <2>1, <3>1 DEF Accounting
  <2>2. CASE ~OwesOutcome(t) /\ t \in Owed' /\ Count("dispatched")
    <3>1. t \notin Owed /\ Owed' = Owed \cup {t}
      BY <1>4, <1>5, <1>6, <2>2
    <3>2. QED
      BY <2>2, <3>1 DEF Accounting
  <2>3. CASE /\ OwesOutcome(t) /\ t \notin Owed'
             /\ \E n \in Counters \ {"dispatched"} : Count(n)
    <3>1. t \in Owed /\ Owed' = Owed \ {t}
      BY <1>4, <1>5, <1>6, <2>3
    <3>2. QED
      BY <2>3, <3>1 DEF Accounting
  <2>4. QED
    BY <2>1, <2>2, <2>3
<1>8. IsFiniteSet(Owed)' /\ OutcomesAccounted'
  BY <1>7, AccountingKeeps DEF OutcomeInv
<1>9. \A u \in uncounted' : req'[u].pc = "done" /\ task'[u].pc \notin Running
  BY <1>2 DEF OutcomeInv
<1>10. \A u \in Searches : task'[u].owes # "nothing" => task'[u].pc \in Marking
  BY DEF OutcomeInv
<1>11. QED
  BY <1>8, <1>9, <1>10 DEF OutcomeInv

LEMMA HandlerAccounts ==
  ASSUME TypeInv, TypeInv', SessionInv, OutcomeInv, NEW t \in Searches,
         RequestStep(t) \/ \E c \in Clients, k \in Keys, query \in Query : StartSearch(t, c, k, query)
  PROVE  OutcomeInv'
<1> USE DEF TypeInv, TypeOK, ReqUnchanged, history
<1>1. ASSUME req[t].pc \in Awaiting \cup {"new"}, req'[t].pc \notin {"respond"},
             \A u \in Searches \ {t} : req'[u] = req[u],
             UNCHANGED <<task, metrics, uncounted>>
      PROVE  OutcomeInv'
  <2>1. t \notin uncounted
    BY <1>1, StringFacts DEF OutcomeInv, Awaiting
  <2>2. task[t].pc = "idle" /\ task[t].owes = "nothing"
    BY <1>1, StringFacts DEF SessionInv, HandlerInv, OutcomeInv, Marking, Awaiting
  <2>3. ~OwesOutcome(t) /\ t \notin Owed'
    BY <1>1, <2>1, <2>2, StringFacts DEF OwesOutcome, Owed
  <2>4. QED
    BY <1>1, <2>1, <2>2, <2>3, SearchAccounts
<1>2. CASE \E c \in Clients, k \in Keys, query \in Query : StartSearch(t, c, k, query)
  <2>1. PICK c \in Clients, k \in Keys, query \in Query : StartSearch(t, c, k, query)
    BY <1>2
  <2>2. req[t].pc = "new" /\ UNCHANGED <<task, metrics, uncounted>>
    BY <2>1 DEF StartSearch
  <2>3. PICK r \in Request : r.pc = "geocode" /\ req' = [req EXCEPT ![t] = r]
    <3> DEFINE r == [[NewRequest EXCEPT !.client = c, !.key = k, !.query = query]
                       EXCEPT !.pc = "geocode", !.deadline = Deadline]
    <3>1. req' = [req EXCEPT ![t] = r]
      BY <2>1 DEF StartSearch, Await
    <3>2. r.pc = "geocode"
      BY DEF NewRequest
    <3>3. req'[t] = r
      BY <3>1
    <3>4. QED
      BY <3>1, <3>2, <3>3
  <2>4. QED
    BY <1>1, <2>2, <2>3
<1>3. CASE SearchFails(t) \/ CreateFails(t)
  BY <1>1, <1>3 DEF SearchFails, CreateFails, LastAwaitDone, Awaiting, NewRequest
<1>4. CASE Geocoded(t) \/ GymsFound(t)
  <2>1. /\ req[t].pc \in Awaiting /\ UNCHANGED <<task, metrics, uncounted>>
        /\ \A u \in Searches \ {t} : req'[u] = req[u]
    BY <1>4 DEF Geocoded, GymsFound, Await, Awaiting
  <2>2. req'[t].pc \in {"search", "brand"}
    <3>1. CASE Geocoded(t)
      <4>1. PICK p : req'[t] = [[req[t] EXCEPT !.probe = p] EXCEPT !.pc = "search",
                                                                   !.deadline = Deadline]
        BY <3>1 DEF Geocoded, Await
      <4>2. QED
        BY <4>1 DEF Request
    <3>2. CASE GymsFound(t)
      BY <3>2 DEF GymsFound, Await, Request
    <3>3. QED
      BY <1>4, <3>1, <3>2
  <2>3. QED
    BY <1>1, <2>1, <2>2
<1>5. CASE \E hits \in SUBSET Gyms : \E shown \in SUBSET Gyms : CreateSession(t, hits, shown)
  <2>1. /\ req[t].pc \in Awaiting
        /\ req' = [req EXCEPT ![t].pc = "respond"]
        /\ IF req[t].probe = None THEN Count("dispatched") ELSE UNCHANGED metrics
        /\ UNCHANGED <<task, uncounted>>
    BY <1>5 DEF CreateSession, LastAwaitDone, Awaiting
  <2>2. t \notin uncounted
    BY <2>1, StringFacts DEF OutcomeInv
  <2>3. task[t].pc = "idle" /\ task[t].owes = "nothing"
    BY <2>1, StringFacts DEF SessionInv, HandlerInv, OutcomeInv, Marking
  <2>4. ~OwesOutcome(t)
    BY <2>1, <2>3, StringFacts DEF OwesOutcome
  <2>5. /\ req'[t].pc = "respond" /\ req'[t].probe = req[t].probe
        /\ \A u \in Searches \ {t} : req'[u] = req[u]
    BY <2>1 DEF Request
  <2>6. t \in Owed' <=> req[t].probe = None
    BY <2>1, <2>2, <2>3, <2>5 DEF OwesOutcome, Owed
  <2>7. QED
    BY <2>1, <2>2, <2>3, <2>4, <2>5, <2>6, SearchAccounts
<1>6. CASE Respond(t)
  <2>1. /\ req[t].pc = "respond"
        /\ req' = [req EXCEPT ![t] = [@ EXCEPT !.pc = "done", !.probe = None, !.deadline = 0]]
        /\ task' = IF req[t].probe # None THEN task ELSE [task EXCEPT ![t] = EndedTask("queued")]
        /\ UNCHANGED <<metrics, uncounted>>
    BY <1>6 DEF Respond
  <2>2. t \notin uncounted
    BY <2>1 DEF OutcomeInv
  <2>3. task[t].pc = "idle" /\ task[t].owes = "nothing"
    BY <2>1 DEF SessionInv, HandlerInv, OutcomeInv, Marking
  <2>4. OwesOutcome(t) <=> req[t].probe = None
    BY <2>1, <2>3 DEF OwesOutcome
  <2>5. req'[t].pc = "done" /\ \A u \in Searches \ {t} : req'[u] = req[u] /\ task'[u] = task[u]
    BY <2>1 DEF Request
  <2>6. /\ task'[t].owes = "nothing"
        /\ task'[t].pc = IF req[t].probe = None THEN "queued" ELSE "idle"
    BY <2>1, <2>3, EndedTaskFields
  <2>7. t \in Owed' <=> req[t].probe = None
    BY <2>1, <2>2, <2>5, <2>6 DEF OwesOutcome, Owed
  <2>8. QED
    BY <2>1, <2>2, <2>4, <2>5, <2>6, <2>7, SearchAccounts
<1>7. QED
  BY <1>2, <1>3, <1>4, <1>5, <1>6 DEF RequestStep

LEMMA TaskAccounts ==
  ASSUME TypeInv, TypeInv', SessionInv, OutcomeInv, NEW t \in Searches, TaskStep(t)
  PROVE  OutcomeInv'
<1> USE DEF TypeInv, TypeOK, TaskUnchanged, history
<1>1. /\ task[t].pc \in Running /\ req' = req
      /\ \A u \in Searches \ {t} : req'[u] = req[u] /\ task'[u] = task[u]
  BY TaskOnly
<1>2. t \notin uncounted /\ req[t].pc = "done"
  BY <1>1 DEF OutcomeInv, SessionInv, TaskInv
<1>3. OwesOutcome(t) <=> task[t].pc \in {"queued", "cache"} \/ task[t].owes # "nothing"
  BY <1>2 DEF OwesOutcome
<1>4. OwesOutcome(t)' <=> task'[t].pc \in {"queued", "cache"} \/ task'[t].owes # "nothing"
  BY <1>1, <1>2 DEF OwesOutcome
<1>5. t \in Owed' <=> OwesOutcome(t)' \/ t \in uncounted'
  BY DEF Owed
<1>6. task[t].owes # "nothing" => task[t].pc \in Marking
  BY DEF OutcomeInv
<1>7. task[t].owes \in {"nothing", "failure", "write_failure"}
  BY DEF Task
<1> DEFINE Same == /\ task'[t].owes = task[t].owes
                   /\ task'[t].pc \in {"queued", "cache"} <=> task[t].pc \in {"queued", "cache"}
                   /\ task'[t].owes # "nothing" => task'[t].pc \in Marking
                   /\ UNCHANGED <<metrics, uncounted>>
<1>8. ASSUME Same
      PROVE  OutcomeInv'
  <2>1. OwesOutcome(t)' <=> OwesOutcome(t)
    BY <1>3, <1>4, <1>8
  <2>2. QED
    BY <1>1, <1>2, <1>5, <1>8, <2>1, SearchAccounts
<1>9. ASSUME task'[t] = EndedTask("done"), Settle(task[t].owes), uncounted' = uncounted,
             task[t].pc \notin {"queued", "cache"}
      PROVE  OutcomeInv'
  <2>1. task'[t].pc = "done" /\ task'[t].owes = "nothing"
    BY <1>9, EndedTaskFields
  <2>2. t \notin Owed'
    BY <1>2, <1>4, <1>5, <1>9, <2>1
  <2>3. CASE task[t].owes = "nothing"
    <3>1. ~OwesOutcome(t) /\ metrics' = metrics
      BY <1>3, <1>9, <2>3 DEF Settle
    <3>2. QED
      BY <1>1, <1>2, <1>9, <2>1, <2>2, <3>1, SearchAccounts
  <2>4. CASE task[t].owes # "nothing"
    <3>1. OwesOutcome(t) /\ \E n \in Counters \ {"dispatched"} : Count(n)
      BY <1>3, <1>7, <1>9, <2>4 DEF Settle, Counters
    <3>2. QED
      BY <1>1, <1>2, <1>9, <2>1, <2>2, <3>1, SearchAccounts
  <2>5. QED
    BY <2>3, <2>4
<1>10. CASE \E osm \in Osm : Fetched(t, osm)
  <2>1. /\ task[t].pc = "queued" /\ task'[t].pc = "cache" /\ task'[t].owes = task[t].owes
        /\ UNCHANGED <<metrics, uncounted>>
    BY <1>10 DEF Fetched, Task
  <2>2. Same
    BY <1>6, <2>1 DEF Marking
  <2>3. QED
    BY <1>8, <2>2
<1>11. CASE FetchFails(t) \/ CacheWriteFails(t)
  <2>1. /\ task[t].pc \in {"queued", "cache"} /\ task'[t].pc = "markload"
        /\ task'[t].owes \in {"failure", "write_failure"} /\ UNCHANGED <<metrics, uncounted>>
    <3>1. CASE FetchFails(t)
      BY <3>1 DEF FetchFails, Task
    <3>2. CASE CacheWriteFails(t)
      BY <3>2 DEF CacheWriteFails, Task
    <3>3. QED
      BY <1>11, <3>1, <3>2
  <2>2. OwesOutcome(t) /\ t \in Owed'
    BY <1>3, <1>4, <1>5, <2>1
  <2>3. QED
    BY <1>1, <1>2, <2>1, <2>2, SearchAccounts DEF Marking
<1>12. CASE CacheWritten(t)
  <2>1. /\ task[t].pc = "cache" /\ task'[t].pc = "load" /\ task'[t].owes = task[t].owes
        /\ Count("success") /\ uncounted' = uncounted
    BY <1>12 DEF CacheWritten, TaskGoes, Task
  <2>2. task'[t].owes = "nothing"
    BY <1>6, <2>1 DEF Marking
  <2>3. OwesOutcome(t) /\ t \notin Owed'
    BY <1>2, <1>3, <1>4, <1>5, <2>1, <2>2
  <2>4. QED
    BY <1>1, <1>2, <2>1, <2>2, <2>3, SearchAccounts DEF Counters
<1>13. ASSUME NEW from \in {"load", "markload"}, NEW to \in {"replace", "markreplace"},
              LoadStep(t, from, to), from = "markload" => to = "markreplace"
       PROVE  OutcomeInv'
  <2>1. CASE Load(t, from, to)
    <3>1. /\ task[t].pc = from /\ task'[t].pc = to /\ task'[t].owes = task[t].owes
          /\ UNCHANGED <<metrics, uncounted>>
      BY <2>1 DEF Load, Task
    <3>2. Same
      BY <1>6, <1>13, <3>1 DEF Marking
    <3>3. QED
      BY <1>8, <3>2
  <2>2. CASE LoadGone(t, from) \/ LoadUnreadable(t, from)
    <3>1. /\ task'[t] = EndedTask("done") /\ Settle(task[t].owes)
          /\ uncounted' = uncounted /\ task[t].pc = from
      BY <2>2 DEF LoadGone, LoadUnreadable
    <3>2. QED
      BY <1>9, <3>1
  <2>3. QED
    BY <1>13, <2>1, <2>2 DEF LoadStep
<1>14. CASE Enrich(t)
  <2>1. /\ task[t].pc = "replace" /\ task'[t] = EndedTask("done")
        /\ UNCHANGED <<metrics, uncounted>>
    BY <1>14 DEF Enrich
  <2>2. task[t].owes = "nothing"
    BY <1>6, <2>1 DEF Marking
  <2>3. QED
    BY <1>9, <2>1, <2>2 DEF Settle
<1>15. CASE EnrichFails(t)
  <2>1. /\ task[t].pc = "replace" /\ task'[t].pc = "markload" /\ task'[t].owes = task[t].owes
        /\ UNCHANGED <<metrics, uncounted>>
    BY <1>15 DEF EnrichFails, Task
  <2>2. Same
    BY <2>1 DEF Marking
  <2>3. QED
    BY <1>8, <2>2
<1>16. CASE MarkFailed(t)
  BY <1>9, <1>16 DEF MarkFailed
<1>17. CASE MarkRaises(t)
  <2>1. /\ task[t].pc = "markreplace" /\ task'[t] = EndedTask("raised") /\ metrics' = metrics
        /\ uncounted' = IF task[t].owes # "nothing" THEN uncounted \cup {t} ELSE uncounted
    BY <1>17 DEF MarkRaises
  <2>2. task'[t].pc = "raised" /\ task'[t].owes = "nothing"
    BY <2>1, EndedTaskFields
  <2>3. t \in Owed' <=> OwesOutcome(t)
    BY <1>2, <1>3, <1>4, <1>5, <2>1, <2>2
  <2>4. QED
    BY <1>1, <1>2, <2>1, <2>2, <2>3, SearchAccounts, StringFacts
<1>18. QED
  BY <1>10, <1>11, <1>12, <1>13, <1>14, <1>15, <1>16, <1>17 DEF TaskStep

LEMMA StepOutcomes ==
  TypeInv /\ TypeInv' /\ SessionInv /\ OutcomeInv /\ [Next]_vars => OutcomeInv'
<1> SUFFICES ASSUME TypeInv, TypeInv', SessionInv, OutcomeInv, [Next]_vars
             PROVE  OutcomeInv'
  OBVIOUS
<1>1. ASSUME UNCHANGED <<req, task, metrics, uncounted>>
      PROVE  OutcomeInv'
  BY <1>1 DEF OutcomeInv, OutcomesAccounted, Owed, OwesOutcome
<1>2. CASE Crash
  <2>1. \A s \in Searches : ~OwesOutcome(s)'
    <3> SUFFICES ASSUME NEW s \in Searches
                 PROVE  ~OwesOutcome(s)'
      OBVIOUS
    <3>1. req'[s].pc # "respond"
      BY <1>2 DEF Crash, TypeInv, TypeOK, NewRequest, Awaiting
    <3>2. task'[s] = IF task[s].pc \in Running THEN EndedTask("lost") ELSE task[s]
      BY <1>2 DEF Crash
    <3>3. task'[s].pc \notin Running /\ task'[s].owes = "nothing"
      BY <3>2, EndedTaskFields, StringFacts DEF OutcomeInv, Running
    <3>4. QED
      BY <3>1, <3>3 DEF OwesOutcome, Running
  <2>2. Owed' = Owed
    BY <1>2, <2>1 DEF Owed, Crash, TypeInv, TypeOK
  <2>3. IsFiniteSet(Owed)' /\ OutcomesAccounted'
    BY <1>2, <2>2, AccountingKeeps DEF OutcomeInv, Accounting, Crash
  <2>4. ASSUME NEW s \in uncounted'
        PROVE  req'[s].pc = "done" /\ task'[s].pc \notin Running
    <3>1. s \in Searches
      BY DEF TypeInv, TypeOK
    <3>2. task'[s] = IF task[s].pc \in Running THEN EndedTask("lost") ELSE task[s]
      BY <1>2, <3>1 DEF Crash
    <3>3. task'[s].pc \notin Running
      BY <3>2, EndedTaskFields, StringFacts
    <3>4. req[s].pc \in {"respond", "done"}
      <4>1. CASE s \in uncounted
        BY <4>1 DEF OutcomeInv
      <4>2. CASE s \notin uncounted
        <5>1. OwesOutcome(s)
          BY <1>2, <3>1, <4>2 DEF Crash
        <5>2. req[s].pc = "respond" \/ task[s].pc \in Running
          BY <3>1, <5>1 DEF OwesOutcome, OutcomeInv, Running
        <5>3. QED
          BY <3>1, <5>2 DEF SessionInv, TaskInv
      <4>3. QED
        BY <4>1, <4>2
    <3>5. req'[s].pc = "done"
      BY <1>2, <3>1, <3>4, StringFacts DEF Crash, TypeInv, TypeOK, NewRequest
    <3>6. QED
      BY <3>3, <3>5
  <2>5. ASSUME NEW s \in Searches
        PROVE  task'[s].owes # "nothing" => task'[s].pc \in Marking
    <3>1. task'[s] = IF task[s].pc \in Running THEN EndedTask("lost") ELSE task[s]
      BY <1>2 DEF Crash
    <3>2. QED
      BY <3>1, EndedTaskFields DEF OutcomeInv
  <2>6. QED
    BY <2>3, <2>4, <2>5 DEF OutcomeInv
<1>3. CASE Tick \/ Startup \/ UNCHANGED vars
  BY <1>1, <1>3 DEF Tick, Startup, vars, history, server
<1>4. ASSUME NEW c \in Clients, PollFinish(c) \/ \E s \in Searches : PollRead(c, s)
      PROVE  OutcomeInv'
  BY <1>1, <1>4 DEF PollFinish, PollRead, history
<1>5. QED
  BY <1>2, <1>3, <1>4, HandlerAccounts, TaskAccounts DEF Next

LEMMA InitOutcomes == Init => OutcomeInv
<1> SUFFICES ASSUME Init
             PROVE  OutcomeInv
  OBVIOUS
<1>1. Owed = {}
  BY DEF Init, Owed, OwesOutcome, NewRequest, IdleTask
<1>2. IsFiniteSet(Owed) /\ Cardinality(Owed) = 0
  BY <1>1, FS_EmptySet
<1>3. OutcomesAccounted
  BY <1>2 DEF Init, OutcomesAccounted, Owed, Counters
<1>4. QED
  BY <1>2, <1>3 DEF OutcomeInv, Init, IdleTask

(* Every dispatched enrichment is counted exactly once, whatever happens   *)
(* to its session meanwhile, but for those whose task or server has died   *)
(* owing it (background_tasks.py, the outcome counters).                   *)
THEOREM OutcomesAreAccounted == Spec => []OutcomesAccounted
<1>1. OutcomeInv => OutcomesAccounted
  BY DEF OutcomeInv
<1>2. QED
  BY <1>1, InitOutcomes, StepOutcomes, SessionInvariant, PTL DEF Spec

=============================================================================
