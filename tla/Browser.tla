------------------------------- MODULE Browser -------------------------------
(***************************************************************************)
(* The page of the GymDB frontend (App.tsx): what it shows, the requests   *)
(* it has in flight, and the effect that polls a live-search session while *)
(* it is enriching.  The server is the session contract, which LiveSearch  *)
(* implements: sessions open, settle and close whenever they like.         *)
(*                                                                         *)
(* React renders transitions later than they are queued.  "page" is the    *)
(* state with every queued update applied, "shown" the one last committed; *)
(* effects and the closures they start see the latter.  A click is         *)
(* committed at once and is applied to both.  Lists of gyms are taken to   *)
(* be non-empty once they are loaded.                                      *)
(***************************************************************************)
EXTENDS Naturals

CONSTANTS
  Searches,   \* identifiers of live searches and of their sessions
  Boot,       \* the search the page starts with
  Loads,      \* requests for the published catalog
  MaxEvents,  \* bound: clicks and edits of the user between the requests
  None

ASSUME BrowserAssumption ==
  /\ Boot \in Searches
  /\ Searches \cap Loads = {}
  /\ None \notin Searches \cup Loads
  /\ MaxEvents \in Nat

VARIABLES
  visible,    \* visible[s]: what the server would return of session s
  page,       \* the state of the page with all its queued updates
  shown,      \* the state that is rendered
  dirty,      \* what the queued updates have set: dependencies of effects, an error
  timer,      \* the pending timeout of the poll effect
  polls,      \* polls in flight that have not been aborted
  detail,     \* is a request for the details of the selected gym in flight?
  loading,    \* is the spinner shown and are the forms disabled?
  banner,     \* is an error shown, with its button "Try again"?
  request,    \* request[r]: the progress of a search or of a load
  reply,      \* reply[s]: the session in the answer to search s
  events,     \* how often the user has clicked or typed
  asked,      \* history: the search that was asked for last
  overtaken   \* history: may updates have overtaken each other?

browserVars == <<visible, page, shown, dirty, timer, polls, detail, loading, banner,
                 request, reply, events, asked, overtaken>>

Contract == INSTANCE SessionContract

Answer == {Contract!Pending, Contract!Skipped, Contract!Completed, Contract!Failed}
LiveSession ==
  [search : Searches, status : {"enriching", "ready"},
   enrichment : {"pending", "skipped", "completed", "failed"}, revision : 0..1]
LiveResults == [search : Searches, revision : 0..1]
Mode == {"live", "published"}
(* selected: the selected gym is one of the catalog.                       *)
Page == [mode : Mode, results : LiveResults \cup {None}, session : LiveSession \cup {None},
         catalog : BOOLEAN, selected : BOOLEAN]
FirstPage == [mode |-> "live", results |-> None, session |-> None,
              catalog |-> FALSE, selected |-> FALSE]

(* None is none of the values it stands in for.                            *)
ASSUME NoneAssumption ==
  /\ None \notin LiveResults /\ None \notin LiveSession /\ None \notin Answer
  /\ None \notin [search : Searches, mode : Mode]

----------------------------------------------------------------------------
(* Helpers.                                                                *)

Enriching(session) == session # None /\ session.status = "enriching"
InFlight == {r \in Searches \cup Loads : request[r] \in {"sent", "served"}}

SessionOf(s, answer) ==
  [search |-> s, status |-> answer.status, enrichment |-> answer.enrichment,
   revision |-> answer.revision]

(* Faulty variant: a poll replaces the results but not the session.         *)
ApplyList(pg, s, answer, activate, select) ==
  [pg EXCEPT !.mode = IF activate THEN "live" ELSE @,
             !.results = [search |-> s, revision |-> answer.revision],
             !.session = IF activate THEN SessionOf(s, answer) ELSE @,
             !.selected = @ /\ ~select]
(* applyLiveResponse                                                       *)
Apply(pg, s, answer, activate, select) ==
  [pg EXCEPT !.mode = IF activate THEN "live" ELSE @,
             !.results = [search |-> s, revision |-> answer.revision],
             !.session = SessionOf(s, answer),
             !.selected = @ /\ ~select]

(* The poll effect and its cleanup, run after a commit that has changed    *)
(* one of its dependencies: the timeout is cleared and a poll in flight is *)
(* aborted; a new timeout starts if the session is still enriching.        *)
(* Faulty variant: the cleanup clears the timeout but aborts nothing.       *)
PollEffectUnaborted(sh) ==
  /\ timer' = IF Enriching(sh.session)
              THEN [search |-> sh.session.search, mode |-> sh.mode] ELSE None
  /\ UNCHANGED polls
PollEffect(sh) ==
  /\ timer' = IF Enriching(sh.session)
              THEN [search |-> sh.session.search, mode |-> sh.mode] ELSE None
  /\ polls' = {}

(* The effect that loads the details of a selected published gym.          *)
DetailEffect(sh) ==
  detail' = (sh.mode = "published" /\ sh.selected)

----------------------------------------------------------------------------
BrowserInit ==
  /\ visible = [s \in Searches |-> Contract!New]
  /\ page = FirstPage
  /\ shown = FirstPage
  /\ dirty = {}
  /\ timer = None
  /\ polls = {}
  /\ detail = FALSE
  /\ loading = TRUE
  /\ banner = FALSE
  /\ request = [r \in Searches \cup Loads |-> IF r = Boot THEN "sent" ELSE "idle"]
  /\ reply = [s \in Searches |-> None]
  /\ events = 0
  /\ asked = Boot
  /\ overtaken = FALSE

(* The server.                                                             *)

BrowserUnchanged == <<page, shown, dirty, timer, detail, loading, banner, events,
                      asked, overtaken>>

Becomes(s, answer) == visible' = [visible EXCEPT ![s] = answer]

ServeSearch(s) ==
  /\ request[s] = "sent"
  /\ \E answer \in Answer : Becomes(s, answer)
  /\ Contract!Open(s)
  /\ reply' = [reply EXCEPT ![s] = visible'[s]]
  /\ request' = [request EXCEPT ![s] = "served"]
  /\ UNCHANGED <<BrowserUnchanged, polls>>

ServerSettles(s) ==
  /\ \E answer \in Answer : Becomes(s, answer)
  /\ Contract!Settle(s)
  /\ UNCHANGED <<BrowserUnchanged, polls, request, reply>>

ServerCloses(s) ==
  /\ Becomes(s, Contract!Gone)
  /\ Contract!Close(s)
  /\ UNCHANGED <<BrowserUnchanged, polls, request, reply>>

ServePoll(p) ==
  /\ p.answer = None
  /\ polls' = (polls \ {p}) \cup {[p EXCEPT !.answer = visible[p.search]]}
  /\ UNCHANGED <<BrowserUnchanged, visible, request, reply>>

----------------------------------------------------------------------------
(* Rendering.                                                              *)

(* Faulty variant: the effect runs only when the session has changed.       *)
CommitByValue ==
  /\ dirty # {}
  /\ shown' = page
  /\ dirty' = {}
  /\ IF page.session # shown.session THEN PollEffect(page) ELSE UNCHANGED <<timer, polls>>
  /\ IF "lists" \in dirty THEN DetailEffect(page) ELSE UNCHANGED detail
  /\ banner' = (banner \/ "error" \in dirty)
  /\ UNCHANGED <<visible, page, loading, request, reply, events, asked, overtaken>>
Commit ==
  /\ dirty # {}
  /\ shown' = page
  /\ dirty' = {}
  /\ PollEffect(page)
  /\ IF "lists" \in dirty THEN DetailEffect(page) ELSE UNCHANGED detail
  /\ banner' = (banner \/ "error" \in dirty)
  /\ UNCHANGED <<visible, page, loading, request, reply, events, asked, overtaken>>

(* What a click or an edit does is rendered at once.                       *)
Clicks ==
  /\ events < MaxEvents
  /\ events' = events + 1
  /\ UNCHANGED <<visible, dirty, loading, banner, request, reply, asked>>

(* Typing into the live form: its state is a dependency of the poll effect. *)
Edit ==
  /\ Clicks
  /\ shown.mode = "live"
  /\ PollEffect(shown)
  /\ UNCHANGED <<page, shown, detail, overtaken>>

(* The region is a dependency of the detail effect.                        *)
EditFilters ==
  /\ Clicks
  /\ shown.mode = "published"
  /\ DetailEffect(shown)
  /\ UNCHANGED <<page, shown, timer, polls, overtaken>>

(* What a click changes is changed in the queued state, too.               *)
Click(Clicked(_)) ==
  /\ Clicks
  /\ page' = Clicked(page)
  /\ shown' = Clicked(shown)
  /\ PollEffect(shown')
  /\ DetailEffect(shown')
  /\ UNCHANGED overtaken

(* The first gym of the list is selected, if the text filter leaves one.   *)
SwitchMode(mode) ==
  /\ mode # shown.mode
  /\ \E selected \in {FALSE, mode = "published" /\ shown.catalog} :
       Click(LAMBDA pg : [pg EXCEPT !.mode = mode, !.selected = selected])

(* "Go back to place search", below an empty list, keeps the selection.    *)
BackToLive ==
  /\ shown.mode = "published" /\ ~loading
  /\ Click(LAMBDA pg : [pg EXCEPT !.mode = "live"])

SelectGym ==
  /\ IF shown.mode = "live" THEN shown.results # None ELSE shown.catalog
  /\ Click(LAMBDA pg : [pg EXCEPT !.selected = (shown.mode = "published")])

Dismiss ==
  /\ banner
  /\ banner' = FALSE
  /\ dirty' = dirty \ {"error"}
  /\ UNCHANGED <<visible, page, shown, timer, polls, detail, loading, request, reply,
                 events, asked, overtaken>>

----------------------------------------------------------------------------
(* Searches and loads of the catalog.  They carry no abort signal; only    *)
(* the disabled forms keep a second one from being sent.                   *)

Send(r) ==
  /\ request[r] = "idle"
  /\ request' = [request EXCEPT ![r] = "sent"]
  /\ loading' = TRUE
  /\ banner' = FALSE
  /\ dirty' = dirty \ {"error"}
  /\ UNCHANGED <<visible, page, shown, timer, polls, detail, reply, events>>

(* Faulty variant: the form is not disabled while something is loading.     *)
SubmitSearchAnyTime(s) ==
  /\ shown.mode = "live"
  /\ Send(s)
  /\ asked' = s
  /\ UNCHANGED overtaken
SubmitSearch(s) ==
  /\ shown.mode = "live" /\ ~loading
  /\ Send(s)
  /\ asked' = s
  /\ UNCHANGED overtaken

SubmitLoad(l) ==
  /\ shown.mode = "published" /\ ~loading
  /\ Send(l)
  /\ UNCHANGED <<asked, overtaken>>

(* "Try again" is not disabled while something is loading.                 *)
RetrySearch(s) ==
  /\ banner /\ shown.mode = "live"
  /\ Send(s)
  /\ asked' = s
  /\ overtaken' = (overtaken \/ InFlight # {})

RetryLoad(l) ==
  /\ banner /\ shown.mode = "published"
  /\ Send(l)
  /\ overtaken' = (overtaken \/ InFlight # {})
  /\ UNCHANGED asked

(* A search without a place or with a wrong radius is not sent.            *)
SubmitInvalid ==
  /\ shown.mode = "live" /\ (~loading \/ banner)
  /\ events < MaxEvents
  /\ events' = events + 1
  /\ banner' = TRUE
  /\ loading' = FALSE
  /\ overtaken' = (overtaken \/ InFlight # {})
  /\ UNCHANGED <<visible, page, shown, dirty, timer, polls, detail, request, reply, asked>>

Ended(r, outcome) ==
  /\ request' = [request EXCEPT ![r] = outcome]
  /\ loading' = FALSE
  /\ UNCHANGED <<visible, shown, timer, polls, detail, reply, events, asked, overtaken>>

Queue(pg) == page' = pg /\ dirty' = dirty \cup {"session", "lists"}

SearchAnswered(s) ==
  /\ s # Boot /\ request[s] = "served"
  /\ Queue(Apply(page, s, reply[s], TRUE, TRUE))
  /\ Ended(s, "answered")
  /\ UNCHANGED banner

RequestFails(r) ==
  /\ r # Boot /\ r \in InFlight
  /\ banner' = TRUE
  /\ Ended(r, "failed")
  /\ UNCHANGED <<page, dirty>>

LoadAnswered(l) ==
  /\ request[l] = "sent"
  /\ Queue([page EXCEPT !.mode = "published", !.catalog = TRUE,
                        !.selected = TRUE, !.session = None])
  /\ Ended(l, "answered")
  /\ UNCHANGED banner

(* The page starts with a search and the catalog and waits for both.       *)
BootAnswered(catalog) ==
  /\ request[Boot] = "served"
  /\ Queue(Apply([page EXCEPT !.catalog = catalog], Boot, reply[Boot], TRUE, TRUE))
  /\ Ended(Boot, "answered")
  /\ UNCHANGED banner

BootFails(catalog) ==
  /\ Boot \in InFlight
  /\ page' = [page EXCEPT !.mode = "published", !.catalog = catalog, !.session = None,
                          !.selected = catalog]
  /\ dirty' = {"session", "lists", "error"}
  /\ Ended(Boot, "failed")
  /\ UNCHANGED banner

DetailAnswered ==
  /\ detail
  /\ detail' = FALSE
  /\ UNCHANGED <<visible, page, shown, dirty, timer, polls, loading, banner, request,
                 reply, events, asked, overtaken>>

DetailFails ==
  /\ detail
  /\ detail' = FALSE
  /\ banner' = TRUE
  /\ UNCHANGED <<visible, page, shown, dirty, timer, polls, loading, request, reply,
                 events, asked, overtaken>>

----------------------------------------------------------------------------
(* The poll.                                                               *)

PollFires ==
  /\ timer # None
  /\ timer' = None
  /\ polls' = polls \cup {[search |-> timer.search, mode |-> timer.mode, answer |-> None]}
  /\ UNCHANGED <<visible, page, shown, dirty, detail, loading, banner, request, reply,
                 events, asked, overtaken>>

(* An answer that comes before an earlier update is rendered was not yet   *)
(* aborted by it.                                                          *)
PollEnds(p) ==
  /\ polls' = polls \ {p}
  /\ overtaken' = (overtaken \/ dirty # {})
  /\ UNCHANGED <<visible, shown, timer, detail, loading, banner, request, reply, events,
                 asked>>

PollAnswered(p) ==
  /\ p.answer \in Answer
  /\ Queue(Apply(page, p.search, p.answer, FALSE, p.mode = "live"))
  /\ PollEnds(p)

PollFails(p) ==
  /\ page' = IF page.session = None THEN page
             ELSE [page EXCEPT !.session.status = "ready", !.session.enrichment = "failed"]
  /\ dirty' = dirty \cup {"session"}
  /\ PollEnds(p)

----------------------------------------------------------------------------
ServerStep ==
  \/ \E s \in Searches : ServeSearch(s) \/ ServerSettles(s) \/ ServerCloses(s)
  \/ \E p \in polls : ServePoll(p)

UserStep ==
  \/ Edit \/ EditFilters
  \/ \E mode \in Mode : SwitchMode(mode)
  \/ BackToLive \/ SelectGym \/ Dismiss
  \/ SubmitInvalid
  \/ \E s \in Searches : SubmitSearch(s) \/ RetrySearch(s)
  \/ \E l \in Loads : SubmitLoad(l) \/ RetryLoad(l)

AnswerStep ==
  \/ \E s \in Searches : SearchAnswered(s)
  \/ \E l \in Loads : LoadAnswered(l)
  \/ \E r \in Searches \cup Loads : RequestFails(r)
  \/ \E catalog \in BOOLEAN : BootAnswered(catalog) \/ BootFails(catalog)
  \/ DetailAnswered
  \/ DetailFails

PollStep ==
  \/ PollFires
  \/ \E p \in polls : PollAnswered(p) \/ PollFails(p)

BrowserNext == ServerStep \/ UserStep \/ AnswerStep \/ PollStep \/ Commit

BrowserSpec == BrowserInit /\ [][BrowserNext]_browserVars

(* React commits what is queued, timeouts fire, a poll is answered or      *)
(* fails, and the server settles a session or lets it expire.              *)
BrowserFairness ==
  /\ WF_browserVars(Commit)
  /\ WF_browserVars(PollFires)
  /\ WF_browserVars(\E p \in polls : ServePoll(p))
  /\ WF_browserVars(\E p \in polls : PollAnswered(p) \/ (p.answer = Contract!Gone /\ PollFails(p)))
  /\ WF_browserVars(\E s \in Searches : ServerSettles(s) \/ ServerCloses(s))
FairBrowserSpec == BrowserSpec /\ BrowserFairness
----------------------------------------------------------------------------
(* Properties.                                                             *)

BrowserTypeOK ==
  /\ visible \in [Searches -> Answer \cup {Contract!New, Contract!Gone}]
  /\ page \in Page /\ shown \in Page
  /\ dirty \in SUBSET {"session", "lists", "error"}
  /\ timer \in [search : Searches, mode : Mode] \cup {None}
  /\ \A p \in polls : p \in [search : Searches, mode : Mode,
                             answer : Answer \cup {None, Contract!Gone}]
  /\ detail \in BOOLEAN /\ loading \in BOOLEAN /\ banner \in BOOLEAN
  /\ request \in [Searches \cup Loads -> {"idle", "sent", "served", "answered", "failed"}]
  /\ reply \in [Searches -> Answer \cup {None}]
  /\ events \in 0..MaxEvents
  /\ asked \in Searches /\ overtaken \in BOOLEAN

(* Unless updates overtook each other, the live results rest on the answer *)
(* to the search that was asked for last, and so does the session that is  *)
(* polled: neither an older search nor a poll of its session replaces them *)
(* (App.tsx, the disabled forms and the cleanup of the poll effect).       *)
NewestShown ==
  ~overtaken /\ dirty = {} /\ request[asked] = "answered" =>
    /\ shown.results # None /\ shown.results.search = asked
    /\ shown.session # None => shown.session.search = asked

(* A session is kept only together with its own results, of the same       *)
(* revision: what the banner says of it is about the list below it         *)
(* (App.tsx, applyLiveResponse and loadPublishedCatalog).                  *)
SessionOfResults ==
  \A pg \in {page, shown} :
    pg.session # None =>
      /\ pg.results = [search |-> pg.session.search, revision |-> pg.session.revision]
      /\ pg.session.enrichment = "completed" =>
           visible[pg.session.search] \in {Contract!Completed, Contract!Gone}

(* The results of a search never go back to an earlier revision, however   *)
(* late its polls are answered (App.tsx, the abort of the poll effect).    *)
RevisionsAdvance ==
  [][shown.results # None /\ shown'.results # None
       /\ shown'.results.search = shown.results.search
     => shown'.results.revision >= shown.results.revision]_browserVars

(* A page that says it is refreshing has the timeout of the next poll, or  *)
(* a poll in flight, or an update to render that starts it over: no answer *)
(* that changes nothing, no click and no failure leaves it without one.    *)
(* And only such a page polls (App.tsx, the poll effect and its cleanup).  *)
RefreshIsDriven ==
  /\ Enriching(shown.session) => timer # None \/ polls # {} \/ dirty # {}
  /\ timer # None \/ polls # {} => Enriching(shown.session)

(* A page that says it is refreshing does not say so for ever: the poll is *)
(* repeated until its session settles, fails or is replaced (App.tsx, the  *)
(* poll effect).                                                           *)
RefreshEnds == Enriching(shown.session) ~> ~Enriching(shown.session)

=============================================================================
