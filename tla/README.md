# Formal models of GymDB

GymDB serves gym data for two kinds of client: a browser that runs live
searches (TomTom results, enriched with OpenStreetMap data in the background)
and users of the published datasets. This directory holds TLA+ models of the
parts of it where the order of events matters, the TLC configurations that
check them on small instances, and proofs, checked with TLAPS, that the most
important properties hold for any number of searches, clients, gyms and any
setting of the timeouts.

`src/` below is the repository. Line numbers of every modelled definition are
in `PROJECT.json` (`map`), as are the hazards the properties are for
(`hazards`).

## 1. Inventory

| Component | State it keeps | Operations | Interacts with | Hard because |
|---|---|---|---|---|
| Live search handlers (`api/routes_v2.py`) | nothing beyond a request | `live_search_gyms_v2`, `get_live_search_session_v2` | TomTom (three awaited calls), OSM cache, session store, ops store, background task | state is read before awaits and used after; several requests interleave |
| Session store (`infrastructure/live_search_sessions.py`) | one JSON file per search | create, load (unlinks an expired file), replace | handlers, background task | no lock and no compare-and-swap: poll, task and expiry race |
| Background enrichment (`api/background_tasks.py`) | lives in the process only | fetch OSM data, write cache, update or fail the session, count the outcome | Overpass, OSM cache, session store, ops store | every step may fail, the process may die |
| OSM cache (`infrastructure/live_search_cache.py`, priming in `api/main.py`) | one JSON file per rounded place and radius | load, write, prime at startup | handler, task, dataset | shared by all searches of a place; stale entries |
| Provenance (`application/coverage.py`, `domain/provenance.py`) | none | OSM confirmation, brand corroboration, TomTom coverage | handler, task, ingest | the result depends on the order of the passes |
| Rate limit (`application/live_search_rate_limit.py`, `infrastructure/ops_state_store.py`) | a SQLite table of event times; a deque per process when that fails | consume a token, reset | handler (dependency) | the clock is read before the lock is held; two stores |
| Metrics (`observe/metrics.py`, ops store) | counters in SQLite, a fallback in memory | record, snapshot, reset | everybody | fallback and persisted counts are merged |
| Dataset read model (`infrastructure/datasets/read_model.py`) | dataset JSON, one SQLite index per mtime, manifest, lock file | materialize | ingest, dataset store | several processes rename and unlink the same files; a lock file outlives a crash |
| Dataset store (`gyms/store_dataset.py`, `gyms/queries.py`) | cached snapshot per region, a connection per thread | queries | read model | the version is read before a lock and used after it |
| Dataset registry (`infrastructure/datasets/registry.py`) | cached parse of `regions.json` | path and metadata of a region | dataset store, ingest | cached parse versus a file that changes |
| Ingest (`application/ingest.py`) | none (writes a dataset) | `run_ingest`, `run_ingest_for_region` | Overpass, TomTom, read model | a failure between the steps |
| Job receipts (`application/jobs/*`, `api/internal_routes/jobs.py`) | `job_receipts` table, optional files | run an ingest, create, update status, get, list | PostgreSQL, ingest | who commits; the crash between two updates |
| Overpass client (`infrastructure/overpass_client.py`) | none | fetch with retries, backoff and fallback servers | task, ingest | retry and attempt counting |
| TomTom client (`infrastructure/tomtom_client.py`) | none | geocode, search | handler, ingest | pure HTTP |
| Authentication (`api/auth/*`) | JWKS cache per process | verify a token, refresh keys | all routes | refresh racing key rotation |
| Scoring and inference (`domain/*`, `infer/*`) | none | deduplicate, score, infer | ingest, live search | thresholds, caps, rounding |
| Browse and review routes (`api/routes_v2.py`, `api/review_routes.py`, `gyms/review.py`) | none | list, page, nearby, review queue | dataset store | page boundaries against a changing dataset |
| Database access (`infrastructure/db/*`), sync script | PostGIS tables | nearby query, sync of a dataset | PostgreSQL | transactions |
| Migrations (`scripts/migrate.sh`, `database/*`) | `public._migrations` table | apply in order | PostgreSQL | a crash between a file and its record |
| Browser (`frontend/src`) | UI state | search, poll, filter | live search API | answers that arrive out of order |
| Health, readiness, debug, metrics routes; schemas; UI components; generated API client; CI | none | reads, formatting | – | – |

What makes each component correct, in the words of the hazards:

- *Live search.* A pending session is settled by its task, once, on every path
  through it; what a client is told never goes back; a session disappears only
  after its expiry; what a result says of its provenance is supported by the
  OSM data applied to it; cached OSM data is used only while it is fresh (up
  to the awaits in between); every dispatched enrichment is counted once.
- *Rate limit.* No more than the limit of requests in a window; a denied
  client is told how long to wait.
- *Read model and store.* A published index holds a complete dataset, not an
  older one than its name says; readers have an index to read and eventually
  read the newest data; one builder at a time.
- *Job receipts.* Status moves forward only; the stored receipt agrees with
  what the caller was told.
- *Browser.* The results shown belong to the last search asked for.

## 2. Plan

The order follows what would hurt most: first the live search, where clients,
handlers and background tasks share files without a lock; then the publication
of datasets, which several processes do at once; then what is built on it.

| Module | Models | Composes | Status |
|---|---|---|---|
| `LiveSearch` | search and poll handlers, session store, enrichment task, OSM cache, priming, counters | implements `SessionContract` | checked, proved |
| `SessionContract` | abstract: what a session promises to whoever polls it | – | refinement checked, proved |
| `RateLimit` | sliding window in SQLite and its fallback in the process | – | checked, proved |
| `ReadModel` | ingest publication, index build, lock file, cleanup, manifest | – | checked, proved |
| `DatasetStore` | snapshot cache and connections of the reader threads | `ReadModel` | checked, proved to implement it |
| `JobReceipts` | ingest jobs and their receipts | `ReadModel` | checked, proved |
| `Browser` | the page of `App.tsx`: searches, loads, polls, effects, renders and clicks | uses `SessionContract` as its server | checked, proved |
| `JwksCache` | key cache, forced refresh and key rotation | – | checked, proved |
| `Registry` | cached parse of the registry, stat before and after the read, lost updates | – | checked, proved |
| `OverpassFetch` | attempts, servers, backoff, their total time | bounds the fetch of `LiveSearch` | checked, proved |
| `Metrics` | persisted and fallback counters of several processes | – | checked, proved |
| `Migrate` | migrations and their records, with deaths and overlapping runs | – | checked, proved |
| `Dedup`, `Coverage`, `Scoring`, `Inference` | what an ingest and a live search compute of a gym | – | checked, proved |
| `Paging` | pages of a browse and of a review against a dataset that may be replaced | – | checked, proved |
| `GymTable`, `NearbyGyms` | the sync of a dataset into PostgreSQL and the query on it | – | checked, proved |
| `MCPaging` | small names, distances and scan orders for `Paging` | `Paging` | – |
| `MCServices` | small instances of `RateLimit` and of the modules from `JwksCache` on, one per behaviour | – | – |
| `LiveSearchProofs`, `ReadModelProofs`, `DatasetStoreProofs`, `JobReceiptsProofs`, `RateLimitProofs`, `BrowserProofs` | the theorems of these modules | the module of that name | proved |
| `ServicesProofs` | theorems of `JwksCache`, `Registry`, `GymTable`, `OverpassFetch`, `Migrate`, `Metrics`, and of the composition | `MCServices`, `RateLimitProofs`, `GymDataProofs` | proved |
| `GymDataProofs` | theorems of `Dedup`, `Coverage`, `NearbyGyms`, `Inference`, `Scoring`, `Paging` | these | proved |

The larger modules are accompanied by `<Module>Inv` (the inductive invariant) and
`MC<Module>` (symmetry sets for TLC); the inductive invariants of the others
stand in the module of their proofs.
Abstract specifications worth stating are the session contract, the read model
seen from the store and from the jobs (all below).  `LiveSearch` implements the
session contract and `Browser` relies on nothing else of its server, so what
is checked of the page holds of the page in front of `LiveSearch`.

Every invariant and action property of the passing runs is a theorem, and so is
the safety half of each liveness property: somebody settles a pending session
(`PendingHasWorker`), whoever holds the snapshot lock works (`SnapshotLockAtWork`),
a page that refreshes has a poll before it (`RefreshIsDriven`). What the plan has
left is in section 6: components that only read or format, and the second halves,
which need fairness and ENABLED.

## 3. Modules and code

### LiveSearch

One identifier stands for a search, the session it creates and the task it
schedules; the code uses one UUID for the latter two as well. `files[s]` is
the JSON file of the session, `cache[k]` that of a place and radius. The
handler `live_search_gyms_v2` is cut where it awaits: `StartSearch` up to the
geocoding, `Geocoded` (probe of the cache) up to the gym search, `GymsFound`
up to the brand search, `CreateSession` (scoring, session file, counter) and
`Respond`. What happens between two awaits is one step, because handlers run
on one event loop; background tasks run in threads, so the task is cut at every
file access: fetch, cache write with its counter, load, replace, and load and
replace again for the failure mark. A poll reads the file in one step and
checks its expiry, unlinks and answers in the next; an unlink that fails is passed
over, as `load` does. `Crash` ends all handlers,
tasks and polls and keeps the files; `Startup` may prime the cache.

Abstracted: results are a match status per gym (scores, distances and texts
only matter through it); an OSM answer is a verdict per gym, which
`ApplyOsm` and `ApplyBrand` use as `apply_osm_confirmation` and
`apply_tomtom_brand_corroboration` do, including that both skip a gym that is
no longer `tomtom_only`. Which gyms the query filter shows and which ones the
brand search hits is left open.

`SessionContract` says of `Visible(s)` (what a load would return): a session
opens pending or settled, is settled at most once and by revision 1, and stays
closed once it is gone.

### RateLimit

`call[r]` is one call of `consume_live_search_rate_limit_token` with the time
it has read. `StoreAdmits` and `StoreDenies` are the transaction of the SQLite
store (purge, count, insert); `StoreFails` sends the call to the process's
deque (`FallbackAdmits`, `FallbackDenies`) with a new time. `Tick` keeps the
clock from running further than `MaxDelay` past a time a waiting call has
read: that is the busy timeout, after which the store gives up. `log` is a
history of the decisions in the order in which the locks were held.

### ReadModel

A version stands for a modification time of the dataset file and its contents;
`place[v]` is a history variable, the place of a version in the order in which
datasets were renamed into place. `build[a]` walks through
`materialize_dataset_read_model` as it is: stat, check for the index (fast
path: manifest only), exclusive creation of the lock file, *second* stat and
check, read of the dataset, rename of the index, cleanup, manifest, removal of
the lock. Actors are ingests (`WriteTemp`, `Rename`, then build) and readers.
`LockTimeout` may come whenever the lock is held, `CrashOf` leaves the lock
file behind, `BuildFails` is an exception inside the lock. `Cleanup` passes over an
index that it cannot unlink.

### DatasetStore

The threads of one API process: `BeginQuery` uses a snapshot that is not older
than `Recheck`; otherwise `StatDataset`, `Enter` (`_snapshot_lock`), the build
steps of ReadModel, `Built` and `StoreSnapshot`; then `Reuse` or `Open` of the
thread's own connection. A connection keeps the rows of a file that has been
unlinked. `until[v]` is a history of when a version was replaced.

### JobReceipts

`IngestRunner.run` for each job, with the receipt as its transaction has it
(`tx`), as the table has it (`table`) and as the optional file has it. The
steps of the ingest are those of ReadModel. `Respond` closes the connection:
`get_db` does not commit, so the transaction is rolled back. The file copy is
written after the status and before the answer, and each of the three may fail:
`AnswerAgreesWithFile` says that no copy outlives an answer that it contradicts.
Jobs that share a connection or use the injected test connection are not modelled.

### Browser

`page` is the state of `App` with every queued update applied, `shown` what is
rendered: `startTransition` separates the two, and effects and their closures
see the latter. `dirty` is what the queue has set; `Commit` renders it and runs
the effects that depend on it: `PollEffect` (clear the timeout, abort the poll,
start anew if the session is enriching) and `DetailEffect`. `PollFires` sends a
poll, `PollAnswered` and `PollFails` are its two handlers, which run unless the
cleanup has aborted them. `SubmitSearch`, `SubmitLoad`, `RetrySearch` and
`RetryLoad` differ in what disables them: the forms are disabled while something
is loading, "Try again" is not. `BootAnswered` and `BootFails` are the end of
`bootstrap`. A click is rendered at once. The server (`ServeSearch`,
`ServerSettles`, `ServerCloses`, `ServePoll`) does whatever the session contract
lets it. Left out: the texts, the map, the text filter beyond whether it
leaves a first gym, the health request.

### JwksCache

`Verify` begins the check of a token: `ProbeHit` or `ProbeMiss` is the first
locked section of `get_jwks`, `Fetch` the request outside the lock, `StoreKeys`
the second one, which stamps the entry with the time of the probe. `AfterKeys`
is what `verify_jwt` does with the keys: accept, reject, or ask once more past
the cache. The provider publishes each key once and withdraws it once.

### Registry

`upsert` is a run of `main.py ingest` in a process of its own, which loads,
edits, empties the file (`Truncate`) and writes it (`WriteRegistry`), or dies in
between. Nothing locks the file. The text is written from its start, so of two
upserts that have both emptied the file the later and shorter text may leave the
tail of the other behind it: the file is then `torn`, it does not parse, and every
load and upsert fails. `WriteRegistry` leaves open which text is longer.
`ServerLoads` and `ServerLoaded` are `load()`, which stats *after* it
reads; `FindStale`, `Reload`, `Stamp` are `_reload_if_stale` in the server's
threads, which stats *before*. `raced` records the two ways in which a parse
can look newer than it is.

### OverpassFetch, Metrics, Migrate

`OverpassFetch` is one call of `fetch_gyms`: each request is answered, refused,
or ends in an error that is retried, at most `Attempts` times per server, with a
growing sleep before each next one. `Metrics` has the HTTP counters of the ops
store (`RecordStored`), those of each process (`RecordInProcess`) and a
snapshot, which reads the one and then merges the other. `Migrate` follows the
script line by line between its calls of `psql`: count, detect, baseline, and
for each file check, apply, record. `Fragile` are the files that fail when they
are applied again, `Telling` those that create the two tables by which the script
recognises a volume that Docker has initialised.

### Dedup, Coverage, Scoring, Inference

The pure parts of an ingest, fed with every small input. `Dedup` reads one
element after the other; `BucketKey` is computed from a projection that moves a
point `Shear` units to the east per unit to the north, which is 0.89 near
Nashville. `Coverage` matches places (`MatchPlace`) and keeps one match per
gym. `Scoring` takes a live gym through confirmation, corroboration and one or
two scores, in hundredths; `OsmEnrichKeys` are the tags a confirmation may add.
`Inference` extracts features (a set of tags and of words in the name), applies
the rules (`Infer`) and doubts the result (`Diagnose`).

### Paging, GymTable, NearbyGyms

`Paging` is a client that asks for page after page at the offset of what it has
got, for as long as it is told that there are more; a dataset may be published
between two pages (`PublishGyms`). A browse asks for one gym more than the page and
knows (`BrowsePage`); a review takes a full page for one that has another after it
(`CoveragePage`), and is cut from a window of the gyms of highest confidence. Gyms
that are equally far come in the order in which SQLite scans them (`ScanOf`).

`GymTable` is the sync script: each upsert waits for the row while another
transaction has written it and writes a row that only its own transaction sees
(`pending`); the commit shows them all at once, a failure gives them up. `table` is
what queries see, and names the run that has written each row.

`NearbyGyms` is the nearby query: the box, the candidates nearest in the plane, the
exact distances. `Where` relates none of the three to another: the box does not go on
beyond 180 degrees of longitude, nor does it hold a circle about a pole, so
`get_nearby_gyms` never answers a gym on the other side of the antimeridian although
its comment calls the box conservative (`queries.py:149`).

## 4. Runs

| Run | Question | Result |
|---|---|---|
| `faults` | two searches share the cache with full disks, unreadable files and a crash: is every pending session somebody's work, is every dispatched enrichment counted once, how old may cached data be? | holds; older than the TTL by less than two timeouts |
| `polls` | an owner and a stranger poll through settlement, expiry and a crash: is the provenance supported, do answers go back, do files vanish early, does the store implement the contract, is every pending session settled unless a fault orphaned it? | holds (settling under fairness) |
| `store` | is what a query serves fresh up to the recheck interval, does the composition behave as ReadModel, is the snapshot lock held only by a thread that works, does every query end, even with an orphaned lock file? | holds (ending under fairness) |
| `jobs` | jobs and a reader with crashes and errors of every kind: one builder, no index older than its name, does the current index stay, is a job that is reported as succeeded indexed, then and ever after, and does its answer agree with the file copy of its receipt? | holds |
| `browser` | any server that keeps the contract and a user who searches, loads, switches, types and retries: are the results those of the last search, do they belong to the session that is polled, do they go back, has a refreshing page a poll before it, does it stay refreshing? | holds, unless updates have overtaken each other |
| `services` | the other components, one per behaviour: see below | holds |
| `swallowed` | "All failures are logged and swallowed" | violated: marking a failure may raise |
| `brand` | "cross-source confirmation … always outranks internal corroboration" | violated when OSM data arrive after the brand search |
| `manifest` | after ingests the manifest names a read model that exists | violated by the fast path, which writes it without the lock |
| `served` | a query after a change of the dataset returns the new rows | violated: the snapshot names an index that was never built |
| `receipts` | a job's receipt is persisted | violated: nobody commits |
| `paging` | "`has_more` … authoritative for pagination": is there more exactly when it says so? | violated by a review whose last page is full, or that has more gyms than its window |

`services` is a sum, not a product: a behaviour chooses one component and takes
its steps only (`part`), so the components are checked side by side, at the cost
of the sum of their states. They share no state in the code. What it shows:

| Property | Of | Says |
|---|---|---|
| `WindowRespected`, `RetryAfterHonest` | `RateLimit` | no more than the limit in a window, shortened by the wait for the lock; a denied client that waits as told is not denied for the same events, and is told no more than the window |
| `TokensJudged` | `JwksCache` | a token is accepted for less than the TTL after its key was withdrawn; one whose key is served all the while is rejected only if a fetch failed |
| `StaleOnlyByRace`, `RegistryKept` | `Registry` | a parse that looks current is, but for two races; an upsert is lost only to one that had loaded the file before it; the default region has an entry; the file parses but for a write at work, a death in one, or two writers that had both emptied it |
| `FetchEnds` | `OverpassFetch` | the time of a call is bounded, it gives up only when every server has, and asks none again that has refused |
| `SnapshotTrue` | `Metrics` | buckets add up to the total, nothing is counted twice, and only what a process has taken with it is lost |
| `MigrationsTrue` | `Migrate` | what is recorded is applied, a run that ends well leaves nothing unrecorded, and runs end well, but for the cases named in the property |
| `DedupSound` | `Dedup` | each element with a name and a place is in exactly one gym, within the distance of the gym's own place |
| `CoverageTrue` | `Coverage` | a confirmation depends neither on the order of the places nor on nearer places of other names |
| `EvidenceOrdersScores` | `Scoring` | the bands of the tiers do not overlap; evidence never lowers a score |
| `NamesDoubted` | `Inference` | what is taken from a name only is contradicted and doubted, what is taken from tags is not |
| `PagesWhole` | `Paging` | while nothing is published, the pages are a beginning of the listing, each gym once and in order, all of it when the client is told so, and not all of it when a browse says that there are more |
| `SyncsApart` | `GymTable` | no query sees a part of a sync that is at work or has failed, a finished one has a row for each of its gyms, and the gyms that two have in common are all of the one or all of the other |
| `NearestAnswered` | `NearbyGyms` | the answer is in order, and misses a row of the box only for rows that are no farther or for as many others nearer in the plane as there may be candidates |

Several of these name the cases in which the code does not keep what one would
wish (a killed migration, a lost upsert, a torn registry, a nearest gym that is cut
off the candidates): the property then says that these are the only ones. Two
are about less than one would wish: `PagesWhole`, as the run `paging` shows the
rest violated, and `NearestAnswered`, which is about the rows of the box.

`DedupSound` names the one way in which two gyms of one name stay apart within the
distance: their buckets are not neighbours, because `_project_to_meters`
(`processing.py:64`) counts metres to the east from the prime meridian on the
point's own latitude. (36.19967200524255, -86.69307602209797) and
(36.19937025681875, -86.69345680560923), near Nashville, are 47.9 m apart and stay
two gyms, where `config.py:5` says "Distance to consider gyms duplicates".

The six violations are described, with the lines of both sides, in
`PROJECT.json` under `findings`.

A reader of the counterexample of `served`: the thread stats version 0, an
ingest replaces it by version 1, the thread's materialization stats again and
builds the index of version 1, and the snapshot is stored with version 0,
whose index does not exist. The next check after `cache_recheck_ns` repairs it.

### Bounds and why they are enough

- *Searches, clients, keys, gyms.* Searches share only the cache and the
  counters, so two of them show every interaction; where polls matter, one
  search with two clients (the owner and a stranger). Gyms are scored
  independently of each other; one has all verdicts.
- *Time.* In `faults` the clock runs to 3 with a TTL and timeouts of 1, so that
  an entry can be probed while fresh and used after its TTL, and the age bound
  can be reached; gyms are left out there, since neither failures nor ages
  depend on them. In `polls` it runs to 4 with a session TTL of 2, so a
  session that is created after a wait still expires while its task and polls
  are running.
- *Rate limit.* Four requests, a limit of 2, a window of 2 and a wait of 1:
  the window fills, empties and fills again, with calls committed in an order
  that is not the one of their times; the process may restart once.
- *Read model and jobs.* ReadModel is checked as the jobs use it: two jobs that
  ingest once each and a reader that materializes again and again, over three
  versions (the initial one and two ingests), so a late builder can meet a
  newer index, an older one and its own. One crash suffices to orphan the
  lock, since nobody ever removes it. Builds, statements and file copies may
  fail at every step.
- *Store.* Two threads and one ingest; `Recheck` is 0 and the clock runs to 1,
  so a snapshot is used both within and after the interval. The ingest runs
  once: `served` has two datasets after the initial one, `jobs` covers the read
  model with two ingests, and the safety properties are theorems for any
  number. The build errors other than the lock timeout are off:
  they end a query as the timeout does, and are on in `jobs`.
- *Browser.* The search the page starts with, another one and a load of the
  catalog, and two clicks or edits at any time: one search and its polls can
  meet an older session, a load, a retry and a change of mode. A session has
  one settled revision, as in the contract.
- *Services.* Two token checks and two keys, one of which may replace the other
  within two TTLs; two regions, upserts and reloading threads with one death;
  two servers with three attempts; two processes, four requests and one restart;
  two runs over three files and the seed, on every volume; three elements of two
  names on a grid in which a bucket is a square of 3; two gyms and two places on
  a line, with names that begin with each other; every set of eight OSM tags;
  four tags and two words of a name; three gyms, pages of one or two and
  a window of two; two syncs of two datasets; three rows with every order of
  exact and planar distances, in the box or not. Each of these meets its boundary: the mutants in
  `PROJECT.json` are caught within them.

Symmetry is used for sets whose members the specification treats alike, and
not where liveness is checked. `CHECK_DEADLOCK FALSE` stands in the configurations
in which the system really may come to rest: every search and request of the
bounded set has been answered and the clock has reached its bound, or the one
job has ended. The read model, the store and `jobs` are checked for deadlock.

### Fairness

- `LiveSearch`: weak fairness of each handler and each task. `asyncio.timeout`
  ends every await of a handler, and a task runs in the server's thread pool
  with upstream calls that have timeouts. Nothing is assumed of clients, of
  the clock or of a restart.
- `DatasetStore`: weak fairness of each thread's steps, and strong fairness of
  entering `_snapshot_lock`, since a waiting thread is eventually given a lock
  that is released again and again. The wait for the lock *file* ends by its
  30 s timeout, a step of the thread itself. Nothing is assumed of the
  ingests, so the property holds although one may die in the lock.
- `Browser`: React commits what is queued, a timeout fires, a poll that was
  sent is answered or fails, and the server settles a session or lets it expire,
  which `LiveSearch` does (`EnrichmentSettles` and the expiry). Nothing is
  assumed of the user, of searches or of loads. `MaxEvents` bounds the edits: a
  user who types for ever, faster than the poll's delay, keeps postponing it.

## 5. Proofs

All proofs hold for arbitrary constants that satisfy the named assumptions
that its module declares (`<Module>Assumption`, `NoneAssumption`, `RegistryNames`;
for the composition `ServicesAssumption`: there is a place to look from and a page to
ask for):
constants are naturals or Booleans, the set of ingests is disjoint from that of
readers, a value that stands for none is none of the others. Sets of searches,
clients, requests, threads and files may be infinite, but for four whose members
are counted or sorted: the processes and buckets of `Metrics`, the ids of
`Paging` and the rows of `NearbyGyms`. TLC evaluates the assumptions in every run. The
bounds of the runs (`MaxTime`, `MaxCrashes`, `MaxVersion`) are arbitrary naturals
in the proofs.

**Live search** (`LiveSearchProofs`).
The inductive invariant is `TypeInv /\ SessionInv /\ ViewInv /\ DataAgeInv /\
PendingHasWorker`. None of the properties is inductive alone. `SessionInv`
carries the main argument: before a handler has created the session it is
alone with it (`HandlerInv`); a running task is the only writer, and what it
has loaded is what is stored, or the stored file has expired and was unlinked
(`TaskInv`); what a poll has read is a version of the same session, with the
same expiry, so whoever unlinks after reading unlinks something that has
expired whatever was written in between (`PollInv`). From it follow
`SessionsCoherent`, `KeptUntilExpiry`, `ProvenanceIsSupported` and
`StoreImplementsContract`, the refinement. `ViewInv` relates the last answer
of each client to what it may still be told; it needs readable files, so
`AnswersStand` assumes `~ReadFaults` (with an unreadable file a poll says "not
found" of a session that is found again). `DataAgeInv` bounds the deadline of
a waiting handler by the age of what it has probed; `DataAgeBounded` follows
for every TTL and timeout. `OutcomesAreAccounted` has an invariant of its own
(`OutcomeInv`): a task that has died owing its outcome is not run again, an
outcome is owed only while the session is marked, and the searches that owe one
are finitely many. Each step then dispatches one search, counts one that was
owed, or leaves both alone (`Accounting`), so the cardinality in the property
changes as the counters do.

**Read model** (`ReadModelProofs`). `PublicationInv` says: the dataset in place
is the last one published and the only one in its place; only published
versions have an index; whoever is in the lock holds the lock file, and no
index is newer than its own version. The last part makes cleanup safe: an
index that the cleaner removes belongs to a version that is older than its
own, hence not to the dataset in place. It is kept by `Acquire` because the
version is taken again *under* the lock. `IndexIsNotOlder`, `OnlyOneBuilder`
and `CurrentIndexIsKept` follow.

**Dataset store** (`DatasetStoreProofs`). `StoreImplementsReadModel` maps every
step of threads, ingests and crashes to a step of ReadModel, so its theorems
hold of the composition. `FreshInv` adds that every version a query, the
snapshot or a connection refers to was in place late enough; it is kept because
what is published later is replaced later (`UntilInv`), so an index with newer
rows than its name only makes an answer fresher. `ServedIsFresh` follows, for
every number of threads and every recheck interval. `LockHeldAtWork` is the safety
half of `QueriesEnd`, and inductive together with `FreshInv`: the lock's holder is
the thread that builds or stores, a thread that builds has begun its build and its
build ends where it leaves the lock, so server threads wait for one that works or
for the lock file of another process, which times out, and never in a circle.

**Job receipts** (`JobReceiptsProofs`). `JobsInv` follows the version a job has
written through its publication: after the rename it has a place, from the
stat on the job's builder refers to a version that is not older, and once the
builder has published or found its index, readers have an index that is not
older. Cleanup keeps that, because the cleaner's own index exists and is the
newest. A receipt says "succeeded" only after that point
(`SucceededIsIndexed`). `FileInv` says what the file copy holds at each place of a
job, the failed status and the failed copy included; `AnswersAgree` is what is left
of it once the client has its answer. `JobsImplementReadModel` is the refinement.

**Key cache** (`ServicesProofs`). `JwksInv` says of every answer of the
provider, whether a check holds it or the cache does, that its stamp is not
later than the request for it: no key among them was withdrawn before the stamp
(`ServedAt`). A slow answer that overwrites a newer entry brings its older stamp
with it, so the entry only expires earlier. And while a key is served without
a gap, an answer to a running check contains it, so only a probe can miss it,
after which the check asks once more. `TokensAreJudged` follows, for any number
of concurrent checks and any TTL; `JwksAssumption` is all it needs.

**Rate limit** (`RateLimitProofs`). `RateInv` says what each of the two kinds of
bucket remembers: every request that it has admitted and that has not left the
window is in the store's table (`StoreKeeps`) or the process's deque (`QueueKeeps`).
The limit is on what is *in* the bucket, and a request is stamped with a time
that was read up to `MaxDelay` before the lock was held, so what has been purged
may still lie in a window that begins at a later stamp: `StretchInv` therefore
speaks of stretches shorter by `MaxDelay`, and beginning at any time, which is
what makes it inductive. `DenialInv` follows a denied request: until its bucket
admits another one, it has room at the time that Retry-After named.

**Browser** (`BrowserProofs`). `BrowserInv` is about what is queued and what is
rendered at once: there is one poll, and it is of the session that is rendered
(`PollInv`); an answer on its way is still true of its session and not older than
either page (`ReplyInv`, `NotAfter`); what is queued is newer than what is rendered
(`CommitInv`). `LatestInv` is the part that overtaking breaks: one request in flight,
of the search that was asked for last. `RefreshDriven` is the safety half of
`RefreshEnds`: an answer, a failed poll or a click either starts the poll over or
queues what does. `ServerKeepsContract` closes the chain between page and store:
the server of this model implements the same `SessionContract` that
`StoreImplementsContract` shows `LiveSearch` to implement, so the page is checked
against every server that the contract allows.

**Registry, gym table, Overpass, migrations, metrics** (`ServicesProofs`). `RegInv`
needs two facts that no property mentions: no stamp is later than the file's
(`StampsInv`), and each upsert that holds the file has in it what was there when it
loaded it (`FileInv`). That the file parses but for the named cases rests on `ParseInv`:
an upsert that has emptied the file finds it empty until another one writes or dies,
so a torn file needs one of these since then (`UnwrittenParse`, `WrittenParse`). `GymInv` says who may have written a row before it
is committed (`LocksInv`: a run at work, and one only) and what a run has yet to write
(`LeftInv`); two runs with gyms in common are kept apart because the second to
write one of them must wait for the first to end. `OpInv` bounds the time by the attempts and sleeps so far (a triangular
number per server) and says that all attempts at the current server are the
last ones and transient (`CurrentInv`). `MigrateInv` says what each run has
behind it (`RunProgress`); that a file which is applied comes with the volume, is
recorded, or is about to be, unless a run was killed there (`AppliedAccounted`);
and that a run alone, or one that nothing has disturbed, knows what it has read
(`RunsAlone`, `Undisturbed`). Two assumptions came
out of this proof: the seed may be applied twice (it updates the rows that are
there), and the tables that the script looks for are not all made by the first file
(`gyms` is made by 001, `job_receipts` by 002); with a script that looked only for
tables of the first file, a run killed early would be taken for a volume of
Docker. `MetricsInv` is that every map of counters is balanced and that what was
recorded is stored, in a process, or forgotten with one. The sums are the community
modules' folds; that a fold over a finite set is a sum is proved by a smallest
counterexample (`SumExists`, `SumUnique`).

**Gyms** (`GymDataProofs`). The property of `Dedup` is nearly inductive: `DedupInv` adds
types and that a gym refers only to elements that have been read. The work is in
the lemma that places which the projection keeps less than a bucket apart lie in one
bucket or in neighbours, so the search misses none of them.
`CoverageInv` says that each match is the one of its place, and that no match of a
gym is better than the one it keeps. `InferenceInv` remembers of the rule that
fired whether its tags were there, and `TablesAgree` that the table of the diagnostics
asks for the same tags. `ScoringInv` says that a gym that OSM has not
confirmed has the tags it was found with, so its evidence is that of the tier
below; the order of the scores follows from the boosts, floors and caps. `PagingInv` says that what the client has got is a beginning of
the whole listing, and that a browse is told when it is all of it; that there is one such listing is proved by ranking the rows
(`SortExists`: the place of a row is the number of rows before it), and that a
review's window loses nothing by `Cardinality(shelf) <= ReviewWindow`.
`NearestAnswered` rests on `CutOffAfterOthers`: a row that is cut off a list which is
ordered and has each row once has a whole list of others before it.

The type invariants carry facts of their own: `Scoring`'s that every score lies in
0..100, `Inference`'s that every certainty lies in 5..99 however many contradictions
are found (`PenaltyBounded`, `DiagnoseTyped`) and that the premium score is at most 10,
`NearbyGyms`' that an answer is no longer than its limit, `Paging`'s that a page is a
finite sequence of gyms that are there.

**The composition** (`ServicesProofs`, last section). The run `services` checks the
components side by side. `ServicesImplementParts` says that this is no less than
checking each alone: every behaviour of `ServicesSpec` is one of each component's own
specification, since a step of one leaves the variables of the others unchanged and
a component that keeps still begins in one of its initial states (`PartsBegin`,
`PartsStep`). `ServicesTyped` and `ServicesSound` then carry the type invariant and
the fifteen safety invariants of the components over, which makes every property
of the run a theorem about the run's own specification.

The types of the page, and the inductive invariants of the store and of the jobs with
theirs, are theorems only (`BrowserTypes`, `StoreFresh`, `JobsSafe`): they were
model-checked before they were proved, and the runs ask what follows from them.

Only model-checked: `EnrichmentSettles`, `QueriesEnd` and `RefreshEnds`, because
liveness and ENABLED are out of the prover's reach; and the six violations, whose
counterexamples TLC finds. The modules that are proved about use no RECURSIVE
operator.

## 6. What is not modelled

Components without a module are listed in `PROJECT.json` with the reason. In
the modules above the following is abstracted:

- *LiveSearch.* The reload of a session whose JSON is malformed, and the two
  branches of the task that check for it, which no session written by this
  code takes. The success counter is part of the cache write, the outcome
  counter of the failure mark: nothing else reads the counters. The ops store
  may fail over to memory, which `record_…` hides from its caller. The wall
  clock never goes back. `load` tests for existence before it reads; a file
  unlinked in between is the unreadable file of `ReadFaults`. The task's fetch
  takes any time; `OverpassFetch` says how long that may be.
- *RateLimit.* The reset used by tests; a host name is a model value.
- *ReadModel, DatasetStore.* Two versions never have the same modification
  time. The dataset and the registry entry exist. Cleanup unlinks all old
  indexes in one step (a build is the only thing that can look at them, and it
  holds the lock). Temporary files of dead processes are left and never read.
  One region; regions share the registry and `_snapshot_lock`, under which the
  threads of all regions wait for each other as those of one do.
- *JobReceipts.* The listing of receipts, which only reads. `update_status`
  with an unchanged status, which the runner never asks for. Statements are
  atomic and isolated, as PostgreSQL makes them.
- *Browser.* Empty answers of the catalog and of searches, which select nothing
  and change no other step; unmounting.
- *Registry.* A file that is removed while the server runs. The text fits into one
  `write`, so that of a single writer is seen empty or whole, unless it is cut short
  (`UpsertDies`); texts of two writers may tear the file. Two writes never leave the
  same modification time. Which of two texts is longer is left open, so a torn file
  may be one that in the code happens to parse.
- *Metrics.* The inference and live-search counters, kept by the same functions,
  and the reset, which only tests use.
- *Scoring, Inference.* Texts of tags; a value that is blank counts as absent.
  Scores are hundredths, so the last rounding is exact.
- *Paging.* Filters other than the confidence and the status, which select rows as
  these do. Which gyms are around a place is given (`Around`): the box of the store may
  miss one at the edge or beyond 180 degrees, as that of the database does.
- *Dedup, Coverage, NearbyGyms.* Distances are those of a grid, a line or a small
  set: properties are about their order and their bounds, not about the formula.

Not modelled at all: the TomTom client (one request per call; its results and
failures are inputs of `LiveSearch` and `Coverage`), health, readiness and
debug routes, schemas and normalizers (they read and format), the components
that render, the generated API client, and the profiling and comparison scripts,
which no part of the service uses.
