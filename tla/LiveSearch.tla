------------------------------ MODULE LiveSearch ------------------------------
(***************************************************************************)
(* The live search of the GymDB API: the handler of GET /v2/live/search,   *)
(* the poll handler of GET /v2/live/search/{search_id}, the background     *)
(* task that enriches a session with OpenStreetMap data, the two file      *)
(* stores they share (sessions and the OSM cache) and the start of the     *)
(* server, which primes the cache.                                         *)
(*                                                                         *)
(* A search, the session it creates and the task it schedules carry the    *)
(* same identifier.  What OSM knows of a gym is abstracted to a verdict:   *)
(* no element within the match distance, one with another name, or one     *)
(* with the same normalised name.                                          *)
(***************************************************************************)
EXTENDS Naturals, FiniteSets

CONSTANTS
  Searches,         \* identifiers of searches, of their sessions and tasks
  Clients,          \* authenticated users
  Keys,             \* cache keys: rounded place and radius
  DefaultKey,       \* the key that is primed from the dataset at startup
  Gyms,             \* gyms TomTom may report
  CacheTTL,         \* live_search_cache_ttl_seconds
  SessionTTL,       \* live_search_session_ttl_seconds
  UpstreamTimeout,  \* live_search_upstream_timeout_seconds
  MaxTime,          \* bound: the clock stops here
  MaxCrashes,       \* bound: how often the server dies
  WriteFaults,      \* may a write (a full disk) or an unlink of a file fail?
  ReadFaults,       \* may a read of an existing session file fail?
  None              \* no file, no cache entry, nothing loaded

Verdict == {"none", "near", "exact"}
Osm == [Gyms -> Verdict]
CacheEntry == [at : Nat, osm : Osm]

(* The values of match_status, and "unlisted" for a gym the response of    *)
(* the search leaves out (filtered by the query or cut by the limit).      *)
MatchStatus == {"tomtom_only", "tomtom_corroborated", "osm_nearby", "osm_confirmed"}
Results == [Gyms -> MatchStatus \cup {"unlisted"}]

Session ==
  [owner : Clients, status : {"enriching", "ready"},
   enrichment : {"pending", "completed", "failed", "skipped"},
   revision : Nat, created : Nat, expires : Nat, results : Results]

ASSUME ConstantAssumption ==
  /\ DefaultKey \in Keys
  /\ CacheTTL \in Nat \ {0}
  /\ SessionTTL \in Nat \ {0}
  /\ UpstreamTimeout \in Nat \ {0}
  /\ MaxTime \in Nat
  /\ MaxCrashes \in Nat
  /\ WriteFaults \in BOOLEAN
  /\ ReadFaults \in BOOLEAN

ASSUME NoneAssumption ==
  None \notin Session /\ None \notin CacheEntry /\ None \notin Osm

VARIABLES
  now,        \* the wall clock
  up,         \* is the server running?
  crashes,    \* how often it has died
  cache,      \* cache[k]: the OSM cache file of key k
  files,      \* files[s]: the session file of search s
  req,        \* req[s]: the handler of search s
  task,       \* task[s]: the background task of search s
  poll,       \* poll[c]: the poll request client c has in flight
  view,       \* view[c][s]: what client c was last told of session s
  metrics,    \* the enrichment counters of the ops store
  osmSeen,    \* history: the OSM data applied to session s
  orphaned,   \* history: pending sessions nobody will settle any more
  uncounted   \* history: dispatched tasks that died without an outcome

vars == <<now, up, crashes, cache, files, req, task, poll, view, metrics,
          osmSeen, orphaned, uncounted>>

----------------------------------------------------------------------------
(* Records of the actors.                                                  *)

Awaiting == {"geocode", "search", "brand"}
Query == {"broad", "specific"}
Request ==
  [pc : {"new", "respond", "done", "failed"} \cup Awaiting,
   client : Clients \cup {None}, key : Keys, query : Query,
   deadline : Nat, probe : CacheEntry \cup {None}]
NewRequest == [pc |-> "new", client |-> None, key |-> DefaultKey,
               query |-> "broad", deadline |-> 0, probe |-> None]

(* owes: the counter the task still has to increment.                      *)
Marking == {"markload", "markreplace"}
Running == {"queued", "cache", "load", "replace"} \cup Marking
Task ==
  [pc : {"idle", "done", "raised", "lost"} \cup Running,
   osm : Osm \cup {None}, snap : Session \cup {None},
   owes : {"nothing", "failure", "write_failure"}]
IdleTask == [pc |-> "idle", osm |-> None, snap |-> None, owes |-> "nothing"]
EndedTask(pc) == [IdleTask EXCEPT !.pc = pc]

Poll == [pc : {"idle", "read"}, id : Searches \cup {None}, snap : Session \cup {None}]
IdlePoll == [pc |-> "idle", id |-> None, snap |-> None]

Reply == [status : {"unknown", "notfound", "enriching", "ready"}, revision : Nat]
Unknown == [status |-> "unknown", revision |-> 0]
NotFound == [status |-> "notfound", revision |-> 0]
ReplyOf(session) == [status |-> session.status, revision |-> session.revision]

Counters == {"dispatched", "success", "failure", "write_failure"}

----------------------------------------------------------------------------
(* Helpers.                                                                *)

(* Faulty variant: an entry of exactly the TTL still counts as fresh.       *)
FreshInclusive(entry) == entry # None /\ now - entry.at <= CacheTTL
Fresh(entry) == entry # None /\ now - entry.at < CacheTTL
Expired(session) == session.expires <= now

(* load_live_search_session: an expired file is unlinked and not returned. *)
Loaded(s) == IF files[s] # None /\ ~Expired(files[s]) THEN files[s] ELSE None
Unlink(s) == [files EXCEPT ![s] = None]
FilesAfterLoad(s) ==
  IF files[s] # None /\ Expired(files[s]) THEN Unlink(s) ELSE files

NextRevision(session) == session.revision + 1

(* replace_live_search_session: a new version that keeps its expiry.       *)
(* Faulty variants: the two status fields mixed up, a revision that is not *)
(* incremented, an expiry counted again from the time of the write.        *)
ReplacedMixedUp(session, results, enrichment) ==
  [session EXCEPT !.results = results, !.status = enrichment,
                  !.enrichment = enrichment, !.revision = NextRevision(session)]
ReplacedSameRevision(session, results, enrichment) ==
  [session EXCEPT !.results = results, !.status = "ready", !.enrichment = enrichment]
ReplacedExtended(session, results, enrichment) ==
  [session EXCEPT !.results = results, !.status = "ready", !.enrichment = enrichment,
                  !.revision = NextRevision(session), !.expires = now + SessionTTL]
Replaced(session, results, enrichment) ==
  [session EXCEPT !.results = results, !.status = "ready",
                  !.enrichment = enrichment, !.revision = NextRevision(session)]

(* apply_osm_confirmation and apply_tomtom_brand_corroboration: both only  *)
(* touch a gym that is still tomtom_only.                                  *)
OsmTier == [near |-> "osm_nearby", exact |-> "osm_confirmed"]
ApplyOsm(results, osm) ==
  [g \in Gyms |-> IF results[g] = "tomtom_only" /\ osm[g] # "none"
                  THEN OsmTier[osm[g]] ELSE results[g]]
ApplyBrand(results, hits) ==
  [g \in Gyms |-> IF results[g] = "tomtom_only" /\ g \in hits
                  THEN "tomtom_corroborated" ELSE results[g]]

TomTomOnly == [g \in Gyms |-> "tomtom_only"]
(* The snapshot a search returns: all TomTom, then OSM data if the probe   *)
(* found a fresh entry, then the brand search, then the query filter.      *)
(* Faulty variant: the brand search is applied first.                      *)
SnapshotBrandFirst(probe, hits, shown) ==
  LET branded == ApplyBrand(TomTomOnly, hits)
      scored == IF probe # None THEN ApplyOsm(branded, probe.osm) ELSE branded
  IN [g \in Gyms |-> IF g \in shown THEN scored[g] ELSE "unlisted"]
Snapshot(probe, hits, shown) ==
  LET confirmed == IF probe # None THEN ApplyOsm(TomTomOnly, probe.osm) ELSE TomTomOnly
      scored == ApplyBrand(confirmed, hits)
  IN [g \in Gyms |-> IF g \in shown THEN scored[g] ELSE "unlisted"]

Count(counter) == metrics' = [metrics EXCEPT ![counter] = @ + 1]
Settle(owed) == IF owed = "nothing" THEN UNCHANGED metrics ELSE Count(owed)

----------------------------------------------------------------------------
Init ==
  /\ now = 0
  /\ up = FALSE
  /\ crashes = 0
  /\ cache = [k \in Keys |-> None]
  /\ files = [s \in Searches |-> None]
  /\ req = [s \in Searches |-> NewRequest]
  /\ task = [s \in Searches |-> IdleTask]
  /\ poll = [c \in Clients |-> IdlePoll]
  /\ view = [c \in Clients |-> [s \in Searches |-> Unknown]]
  /\ metrics = [n \in Counters |-> 0]
  /\ osmSeen = [s \in Searches |-> None]
  /\ orphaned = {}
  /\ uncounted = {}

history == <<osmSeen, orphaned, uncounted>>
server == <<up, crashes>>

----------------------------------------------------------------------------
(* The environment: time, start and death of the server.                   *)

(* asyncio.timeout ends an await at its deadline: the clock does not pass  *)
(* the deadline of a request that is still waiting.                        *)
Tick ==
  /\ now < MaxTime
  /\ \A s \in Searches : req[s].pc \in Awaiting => now < req[s].deadline
  /\ now' = now + 1
  /\ UNCHANGED <<server, cache, files, req, task, poll, view, metrics, history>>

(* lifespan: prime_cache_from_dataset keeps any readable entry, however    *)
(* old, and a failure (no dataset, no disk) does not stop the server.      *)
Startup ==
  /\ ~up
  /\ up' = TRUE
  /\ \/ UNCHANGED cache
     \/ /\ cache[DefaultKey] = None
        /\ \E osm \in Osm :
             cache' = [cache EXCEPT ![DefaultKey] = [at |-> now, osm |-> osm]]
  /\ UNCHANGED <<now, crashes, files, req, task, poll, view, metrics, history>>

(* Handlers and background tasks live in the process; files do not.        *)
Pending(s) == files[s] # None /\ files[s].status = "enriching"
OwesOutcome(s) ==
  \/ req[s].pc = "respond" /\ req[s].probe = None
  \/ task[s].pc \in {"queued", "cache"}
  \/ task[s].owes # "nothing"
Crash ==
  /\ up
  /\ crashes < MaxCrashes
  /\ up' = FALSE
  /\ crashes' = crashes + 1
  /\ req' = [s \in Searches |->
       CASE req[s].pc \in Awaiting -> [NewRequest EXCEPT !.pc = "failed"]
         [] req[s].pc = "respond" -> [NewRequest EXCEPT !.pc = "done"]
         [] OTHER -> req[s]]
  /\ task' = [s \in Searches |->
       IF task[s].pc \in Running THEN EndedTask("lost") ELSE task[s]]
  /\ poll' = [c \in Clients |-> IdlePoll]
  /\ orphaned' = orphaned \cup {s \in Searches : Pending(s)}
  /\ uncounted' = uncounted \cup {s \in Searches : OwesOutcome(s)}
  /\ UNCHANGED <<now, cache, files, view, metrics, osmSeen>>

----------------------------------------------------------------------------
(* live_search_gyms_v2, one action per stretch between two awaits.         *)

ReqUnchanged == UNCHANGED <<now, server, cache, task, poll>>
Deadline == now + UpstreamTimeout
Await(s, pc, request) ==
  req' = [req EXCEPT ![s] = [request EXCEPT !.pc = pc, !.deadline = Deadline]]

StartSearch(s, c, k, query) ==
  /\ up
  /\ req[s].pc = "new"
  /\ Await(s, "geocode", [NewRequest EXCEPT !.client = c, !.key = k, !.query = query])
  /\ ReqUnchanged /\ UNCHANGED <<files, view, metrics, history>>

(* 503 or 404: an upstream error, a timeout or no match for the place.     *)
SearchFails(s) ==
  /\ req[s].pc \in {"geocode", "search"}
  /\ req' = [req EXCEPT ![s] = [NewRequest EXCEPT !.pc = "failed"]]
  /\ ReqUnchanged /\ UNCHANGED <<files, view, metrics, history>>

(* The place is resolved: the cache is probed before the gym search.       *)
Geocoded(s) ==
  /\ req[s].pc = "geocode"
  /\ LET entry == cache[req[s].key]
     IN Await(s, "search", [req[s] EXCEPT !.probe = IF Fresh(entry) THEN entry ELSE None])
  /\ ReqUnchanged /\ UNCHANGED <<files, view, metrics, history>>

(* A query that is not a broad term goes on to the brand search.           *)
GymsFound(s) ==
  /\ req[s].pc = "search"
  /\ req[s].query = "specific"
  /\ Await(s, "brand", req[s])
  /\ ReqUnchanged /\ UNCHANGED <<files, view, metrics, history>>

(* The brand search of a specific query has returned or failed (no hits),  *)
(* or the gym search of a broad one has returned.                          *)
LastAwaitDone(s) ==
  \/ req[s].pc = "brand"
  \/ req[s].pc = "search" /\ req[s].query = "broad"

CreateSession(s, hits, shown) ==
  LET probe == req[s].probe
      session == [owner |-> req[s].client,
                  status |-> IF probe # None THEN "ready" ELSE "enriching",
                  enrichment |-> IF probe # None THEN "skipped" ELSE "pending",
                  revision |-> 0, created |-> now, expires |-> now + SessionTTL,
                  results |-> Snapshot(probe, hits, shown)]
  IN /\ LastAwaitDone(s)
     /\ req[s].query = "broad" => hits = {}
     /\ files' = [files EXCEPT ![s] = session]
     /\ req' = [req EXCEPT ![s].pc = "respond"]
     /\ IF probe = None THEN Count("dispatched") ELSE UNCHANGED metrics
     /\ osmSeen' = [osmSeen EXCEPT ![s] = probe]
     /\ ReqUnchanged /\ UNCHANGED <<view, orphaned, uncounted>>

(* The session file cannot be written: 500, and no task is scheduled.      *)
CreateFails(s) ==
  /\ WriteFaults
  /\ LastAwaitDone(s)
  /\ req' = [req EXCEPT ![s] = [NewRequest EXCEPT !.pc = "failed"]]
  /\ ReqUnchanged /\ UNCHANGED <<files, view, metrics, history>>

(* The response carries the session as created; background tasks run only  *)
(* after it has been sent.                                                 *)
Respond(s) ==
  LET fresh == req[s].probe # None
      status == IF fresh THEN "ready" ELSE "enriching"
  IN /\ req[s].pc = "respond"
     /\ req' = [req EXCEPT ![s] = [@ EXCEPT !.pc = "done", !.probe = None, !.deadline = 0]]
     /\ view' = [view EXCEPT ![req[s].client][s] = [status |-> status, revision |-> 0]]
     /\ task' = IF fresh THEN task ELSE [task EXCEPT ![s] = EndedTask("queued")]
     /\ UNCHANGED <<now, server, cache, files, poll, metrics, history>>

----------------------------------------------------------------------------
(* background_overpass_enrich.                                             *)

TaskUnchanged == UNCHANGED <<now, server, req, poll, view>>
TaskGoes(s, pc) == task' = [task EXCEPT ![s].pc = pc]

Fetched(s, osm) ==
  /\ task[s].pc = "queued"
  /\ task' = [task EXCEPT ![s] = [@ EXCEPT !.pc = "cache", !.osm = osm]]
  /\ TaskUnchanged /\ UNCHANGED <<cache, files, metrics, history>>

(* Faulty variant: the failure is counted, the session is left as it is.   *)
FetchFailsUnmarked(s) ==
  /\ task[s].pc = "queued"
  /\ task' = [task EXCEPT ![s] = EndedTask("done")]
  /\ Count("failure")
  /\ TaskUnchanged /\ UNCHANGED <<cache, files, history>>

FetchFails(s) ==
  /\ task[s].pc = "queued"
  /\ task' = [task EXCEPT ![s] = [@ EXCEPT !.pc = "markload", !.owes = "failure"]]
  /\ TaskUnchanged /\ UNCHANGED <<cache, files, metrics, history>>

CacheWritten(s) ==
  /\ task[s].pc = "cache"
  /\ cache' = [cache EXCEPT ![req[s].key] = [at |-> now, osm |-> task[s].osm]]
  /\ Count("success")
  /\ TaskGoes(s, "load")
  /\ TaskUnchanged /\ UNCHANGED <<files, history>>

(* Faulty variant: a write failure starts the task over again.             *)
CacheWriteFailsRetry(s) ==
  /\ WriteFaults
  /\ task[s].pc = "cache"
  /\ task' = [task EXCEPT ![s] = EndedTask("queued")]
  /\ TaskUnchanged /\ UNCHANGED <<cache, files, metrics, history>>

CacheWriteFails(s) ==
  /\ WriteFaults
  /\ task[s].pc = "cache"
  /\ task' = [task EXCEPT ![s] = [@ EXCEPT !.pc = "markload", !.owes = "write_failure"]]
  /\ TaskUnchanged /\ UNCHANGED <<cache, files, metrics, history>>

(* The task's load of its session: gone, expired or already settled ends   *)
(* the task; an unreadable file is taken for a missing one.                *)
Unsettled(session) == session # None /\ session.status = "enriching"

Load(s, from, to) ==
  /\ task[s].pc = from
  /\ Unsettled(Loaded(s))
  /\ task' = [task EXCEPT ![s] = [@ EXCEPT !.pc = to, !.snap = Loaded(s)]]
  /\ TaskUnchanged /\ UNCHANGED <<cache, files, metrics, history>>

(* Faulty variant: no outcome is recorded once the session is gone.        *)
LoadGoneUncounted(s, from) ==
  /\ task[s].pc = from
  /\ ~Unsettled(Loaded(s))
  /\ files' = FilesAfterLoad(s)
  /\ task' = [task EXCEPT ![s] = EndedTask("done")]
  /\ TaskUnchanged /\ UNCHANGED <<cache, metrics, history>>

LoadGone(s, from) ==
  /\ task[s].pc = from
  /\ ~Unsettled(Loaded(s))
  /\ files' = FilesAfterLoad(s)
  /\ Settle(task[s].owes)
  /\ task' = [task EXCEPT ![s] = EndedTask("done")]
  /\ TaskUnchanged /\ UNCHANGED <<cache, history>>

(* The load finds nothing and leaves the file: it cannot be read, or it    *)
(* has expired and cannot be unlinked.                                     *)
LoadUnreadable(s, from) ==
  /\ task[s].pc = from
  /\ files[s] # None
  /\ ReadFaults \/ (WriteFaults /\ Expired(files[s]))
  /\ Settle(task[s].owes)
  /\ task' = [task EXCEPT ![s] = EndedTask("done")]
  /\ orphaned' = IF Pending(s) THEN orphaned \cup {s} ELSE orphaned
  /\ TaskUnchanged /\ UNCHANGED <<cache, files, osmSeen, uncounted>>

LoadStep(s, from, to) ==
  Load(s, from, to) \/ LoadGone(s, from) \/ LoadUnreadable(s, from)

(* _update_live_search_session.                                            *)
Enrich(s) ==
  LET snap == task[s].snap
  IN /\ task[s].pc = "replace"
     /\ files' = [files EXCEPT ![s] =
          Replaced(snap, ApplyOsm(snap.results, task[s].osm), "completed")]
     /\ osmSeen' = [osmSeen EXCEPT ![s] = [at |-> now, osm |-> task[s].osm]]
     /\ task' = [task EXCEPT ![s] = EndedTask("done")]
     /\ TaskUnchanged /\ UNCHANGED <<cache, metrics, orphaned, uncounted>>

EnrichFails(s) ==
  /\ WriteFaults
  /\ task[s].pc = "replace"
  /\ task' = [task EXCEPT ![s] = [@ EXCEPT !.pc = "markload", !.snap = None]]
  /\ TaskUnchanged /\ UNCHANGED <<cache, files, metrics, history>>

(* _mark_live_search_session_failed, then the outcome that is still owed.  *)
(* Faulty variant: enrichment_status is not passed and keeps its value.     *)
MarkFailedPending(s) ==
  LET snap == task[s].snap
  IN /\ task[s].pc = "markreplace"
     /\ files' = [files EXCEPT ![s] = Replaced(snap, snap.results, snap.enrichment)]
     /\ Settle(task[s].owes)
     /\ task' = [task EXCEPT ![s] = EndedTask("done")]
     /\ TaskUnchanged /\ UNCHANGED <<cache, history>>

MarkFailed(s) ==
  LET snap == task[s].snap
  IN /\ task[s].pc = "markreplace"
     /\ files' = [files EXCEPT ![s] = Replaced(snap, snap.results, "failed")]
     /\ Settle(task[s].owes)
     /\ task' = [task EXCEPT ![s] = EndedTask("done")]
     /\ TaskUnchanged /\ UNCHANGED <<cache, history>>

(* Its call is outside every try: the error of the write leaves the task   *)
(* and the outcome after it is never recorded.                             *)
MarkRaises(s) ==
  /\ WriteFaults
  /\ task[s].pc = "markreplace"
  /\ task' = [task EXCEPT ![s] = EndedTask("raised")]
  /\ orphaned' = IF Pending(s) THEN orphaned \cup {s} ELSE orphaned
  /\ uncounted' = IF task[s].owes # "nothing" THEN uncounted \cup {s} ELSE uncounted
  /\ TaskUnchanged /\ UNCHANGED <<cache, files, metrics, osmSeen>>

----------------------------------------------------------------------------
(* get_live_search_session_v2: the file is read, then its expiry checked.  *)

PollRead(c, s) ==
  /\ up
  /\ poll[c].pc = "idle"
  /\ req[s].pc = "done"
  /\ \/ poll' = [poll EXCEPT ![c] = [pc |-> "read", id |-> s, snap |-> files[s]]]
     \/ /\ ReadFaults
        /\ poll' = [poll EXCEPT ![c] = [pc |-> "read", id |-> s, snap |-> None]]
  /\ UNCHANGED <<now, server, cache, files, req, task, view, metrics, history>>

PollFinish(c) ==
  LET s == poll[c].id
      snap == poll[c].snap
      expired == snap # None /\ Expired(snap)
      served == snap # None /\ ~expired /\ snap.owner = c
  IN /\ poll[c].pc = "read"
     /\ \/ files' = IF expired THEN Unlink(s) ELSE files
        \/ WriteFaults /\ files' = files
     /\ view' = [view EXCEPT ![c][s] = IF served THEN ReplyOf(snap) ELSE NotFound]
     /\ poll' = [poll EXCEPT ![c] = IdlePoll]
     /\ UNCHANGED <<now, server, cache, req, task, metrics, history>>

----------------------------------------------------------------------------
RequestStep(s) ==
  \/ SearchFails(s)
  \/ Geocoded(s)
  \/ GymsFound(s)
  \/ \E hits \in SUBSET Gyms : \E shown \in SUBSET Gyms : CreateSession(s, hits, shown)
  \/ CreateFails(s)
  \/ Respond(s)

TaskStep(s) ==
  \/ \E osm \in Osm : Fetched(s, osm)
  \/ FetchFails(s)
  \/ CacheWritten(s)
  \/ CacheWriteFails(s)
  \/ LoadStep(s, "load", "replace")
  \/ Enrich(s)
  \/ EnrichFails(s)
  \/ LoadStep(s, "markload", "markreplace")
  \/ MarkFailed(s)
  \/ MarkRaises(s)

Next ==
  \/ Tick
  \/ Startup
  \/ Crash
  \/ \E s \in Searches :
       \/ \E c \in Clients, k \in Keys, query \in Query : StartSearch(s, c, k, query)
       \/ RequestStep(s)
       \/ TaskStep(s)
  \/ \E c \in Clients : PollFinish(c) \/ \E s \in Searches : PollRead(c, s)

Spec == Init /\ [][Next]_vars

(* Every await ends (asyncio.timeout) and the thread pool runs every task, *)
(* whose upstream calls have timeouts.                                     *)
Fairness == \A s \in Searches : WF_vars(RequestStep(s)) /\ WF_vars(TaskStep(s))

FairSpec == Spec /\ Fairness

----------------------------------------------------------------------------
TypeOK ==
  /\ now \in Nat
  /\ up \in BOOLEAN
  /\ crashes \in Nat
  /\ cache \in [Keys -> CacheEntry \cup {None}]
  /\ files \in [Searches -> Session \cup {None}]
  /\ req \in [Searches -> Request]
  /\ task \in [Searches -> Task]
  /\ poll \in [Clients -> Poll]
  /\ view \in [Clients -> [Searches -> Reply]]
  /\ metrics \in [Counters -> Nat]
  /\ osmSeen \in [Searches -> CacheEntry \cup {None}]
  /\ orphaned \subseteq Searches
  /\ uncounted \subseteq Searches

(* A stored session is coherent: only a pending one is still enriching,    *)
(* the revision tells whether the task has replaced it (exactly once, as   *)
(* completed or as failed), and OSM tiers appear in the results only with  *)
(* OSM data applied to them.  (create_, replace_live_search_session and    *)
(* every caller of the latter.)                                            *)
Coherent(f) ==
  /\ f.status = "enriching" <=> f.enrichment = "pending"
  /\ f.revision = IF f.enrichment \in {"completed", "failed"} THEN 1 ELSE 0
  /\ f.expires = f.created + SessionTTL
NoOsmTier(f) == \A g \in Gyms : f.results[g] \notin {"osm_nearby", "osm_confirmed"}

StoredSessionsCoherent ==
  \A s \in Searches : files[s] # None =>
    /\ Coherent(files[s])
    /\ osmSeen[s] = None <=> files[s].enrichment \in {"pending", "failed"}
    /\ osmSeen[s] = None => NoOsmTier(files[s])

(* A pending session has somebody who will settle it: its handler has not  *)
(* responded yet or its task is running.  Only the death of the server, an *)
(* unreadable session file or a failed write of the failure mark leaves a  *)
(* session pending until it expires.                                       *)
PendingHasWorker ==
  \A s \in Searches : Pending(s) =>
    req[s].pc = "respond" \/ task[s].pc \in Running \/ s \in orphaned

(* Every dispatched enrichment is counted exactly once as a success, a     *)
(* failure or a write failure, whatever happens to its session meanwhile,  *)
(* except the tasks that died owing their outcome.                         *)
OutcomesAccounted ==
  metrics["dispatched"] =
    metrics["success"] + metrics["failure"] + metrics["write_failure"]
      + Cardinality({s \in Searches : OwesOutcome(s)} \cup uncounted)

(* The provenance a settled session shows is what the OSM data applied to  *)
(* it supports: a listed gym without an OSM tier has no OSM element near   *)
(* it, unless the brand search corroborated it before OSM data arrived;    *)
(* a session served from a fresh cache never prefers the brand search.     *)
ProvenanceSupported ==
  \A s \in Searches : files[s] # None /\ osmSeen[s] # None =>
    \A g \in Gyms :
      LET shown == files[s].results[g]
          verdict == osmSeen[s].osm[g]
      IN /\ shown = "osm_confirmed" => verdict = "exact"
         /\ shown = "osm_nearby" => verdict = "near"
         /\ shown = "tomtom_only" => verdict = "none"
         /\ shown = "tomtom_corroborated" /\ files[s].enrichment = "skipped"
              => verdict = "none"

(* OSM data is probed before two upstream calls and used after them: when  *)
(* the session is created it may be past its TTL, but by less than the two *)
(* timeouts.                                                               *)
SkippedDataAgeBounded ==
  \A s \in Searches :
    files[s] # None /\ files[s].enrichment = "skipped" =>
      files[s].created < osmSeen[s].at + CacheTTL + 2 * UpstreamTimeout

(* A session file goes away only after its expiry: a poll that has read an *)
(* old version and finds it expired never unlinks a session that is still  *)
(* valid, although the task may have replaced the file in between.         *)
SessionsKeptUntilExpiry ==
  [][\A s \in Searches :
       files[s] # None /\ files'[s] = None => files[s].expires <= now]_vars

(* What a client is told of a session never goes back: revisions grow, a   *)
(* ready answer is final, and a session not found is never found later, in *)
(* spite of files written, unlinked and polled at the same time.           *)
AnswersNeverRegress ==
  [][\A c \in Clients, s \in Searches :
       LET old == view[c][s]
           new == view'[c][s]
       IN /\ old.status = "notfound" => new = old
          /\ old.status = "ready" => new = old \/ new = NotFound
          /\ old.status = "enriching" => new.status # "unknown"
          /\ new.revision < old.revision => new = NotFound]_vars

(* Every pending session is settled by its task, unless a fault orphaned   *)
(* it: no interleaving of polls, other searches and expiry blocks a task.  *)
EnrichmentSettles ==
  \A s \in Searches : Pending(s) ~> (~Pending(s) \/ s \in orphaned)

(* Docstring of background_overpass_enrich: "All failures are logged and   *)
(* swallowed".                                                             *)
FailuresSwallowed == \A s \in Searches : task[s].pc # "raised"

(* Docstring of apply_tomtom_brand_corroboration: "cross-source            *)
(* confirmation (independent data source) always outranks internal         *)
(* corroboration".  A gym shown as corroborated by the brand search has no *)
(* OSM element near it in the data applied to the session.                 *)
CrossSourceOutranksBrand ==
  \A s \in Searches : files[s] # None /\ osmSeen[s] # None =>
    \A g \in Gyms :
      files[s].results[g] = "tomtom_corroborated" => osmSeen[s].osm[g] = "none"

----------------------------------------------------------------------------
(* What a load of session s would return, in the terms of the contract.    *)
Visible(s) ==
  IF Loaded(s) # None
  THEN [status |-> files[s].status, enrichment |-> files[s].enrichment,
        revision |-> files[s].revision]
  ELSE [status |-> IF req[s].pc \in {"respond", "done"} THEN "gone" ELSE "new",
        enrichment |-> "none", revision |-> 0]

Contract ==
  INSTANCE SessionContract WITH visible <- [s \in Searches |-> Visible(s)]

(* The session store implements the contract of SessionContract.           *)
ImplementsContract == Contract!Spec
=============================================================================
