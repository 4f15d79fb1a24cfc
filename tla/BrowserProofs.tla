----------------------------- MODULE BrowserProofs -----------------------------
(***************************************************************************)
(* For any number of searches, loads and clicks: the page shows the newest *)
(* search, its session is that of its results, and revisions only advance. *)
(* At the root of it, a page has one poll at a time, of the session that   *)
(* is rendered, and disabled forms keep one request in flight.             *)
(***************************************************************************)
EXTENDS Browser, TLAPS

(* What an answer of session s says is still true of the session.          *)
Settled(s) == visible[s] \in {Contract!Completed, Contract!Failed, Contract!Gone}
AnswerTrue(s, answer) ==
  /\ answer.revision = 1 => Settled(s)
  /\ answer.enrichment = "completed" =>
       visible[s] \in {Contract!Completed, Contract!Gone}

ReplyInv ==
  \A s \in Searches : request[s] \in {"served", "answered"} =>
    visible[s] # Contract!New /\ reply[s] \in Answer /\ AnswerTrue(s, reply[s])

(* Results and sessions come from searches that have been answered.        *)
PageInv(pg) ==
  /\ pg.results # None =>
       /\ request[pg.results.search] = "answered"
       /\ pg.results.revision = 1 => Settled(pg.results.search)
  /\ pg.session # None =>
       /\ pg.results = [search |-> pg.session.search, revision |-> pg.session.revision]
       /\ pg.session.enrichment = "completed" =>
            visible[pg.session.search] \in {Contract!Completed, Contract!Gone}

(* Results that are not newer than the answer of a poll.                   *)
NotAfter(pg, s, revision) ==
  pg.results # None /\ pg.results.search = s => pg.results.revision <= revision

(* There is one poll at a time, of the session that is rendered.           *)
PollInv ==
  /\ timer # None =>
       polls = {} /\ shown.session # None /\ timer.search = shown.session.search
  /\ \A p, q \in polls : p = q
  /\ \A p \in polls :
       /\ shown.session # None /\ p.search = shown.session.search
       /\ p.answer \in Answer =>
            /\ AnswerTrue(p.search, p.answer)
            /\ NotAfter(page, p.search, p.answer.revision)
            /\ NotAfter(shown, p.search, p.answer.revision)

(* What is queued is newer than what is rendered.                          *)
CommitInv ==
  /\ dirty = {} => page = shown
  /\ dirty # {} => "session" \in dirty
  /\ page.results # None => NotAfter(shown, page.results.search, page.results.revision)

(* Unless updates have overtaken each other, there is one request at a     *)
(* time, and the results are those of the search that was asked for last.  *)
LatestInv ==
  ~overtaken =>
    /\ \A q, r \in InFlight : q = r
    /\ InFlight # {} => loading
    /\ \A s \in Searches \cap InFlight : s = asked
    /\ request[asked] = "answered" =>
         /\ page.results # None /\ page.results.search = asked
         /\ page.session # None => page.session.search = asked

BrowserInv ==
  /\ BrowserTypeOK
  /\ ReplyInv /\ PageInv(page) /\ PageInv(shown) /\ PollInv /\ CommitInv /\ LatestInv

----------------------------------------------------------------------------
LEMMA ContractFacts ==
  /\ \A a \in Answer :
       /\ a.status \in {"enriching", "ready"} /\ a.revision \in 0..1
       /\ a.enrichment \in {"pending", "skipped", "completed", "failed"}
       /\ a.enrichment = "completed" => a = Contract!Completed
       /\ a.revision = 1 => a \in {Contract!Completed, Contract!Failed}
       /\ a # Contract!Gone /\ a # Contract!New
  /\ Contract!Pending \in Answer /\ Contract!Skipped \in Answer
  /\ Contract!Completed \in Answer /\ Contract!Failed \in Answer
  /\ Contract!Pending.revision = 0 /\ Contract!Skipped.revision = 0
  /\ Contract!Completed.revision = 1 /\ Contract!Failed.revision = 1
  /\ Contract!Pending.enrichment # "completed" /\ Contract!Skipped.enrichment # "completed"
  /\ Contract!Failed.enrichment # "completed"
  /\ Contract!Gone # Contract!New /\ Contract!Gone \notin Answer /\ Contract!New \notin Answer
BY DEF Answer, Contract!Pending, Contract!Skipped, Contract!Completed, Contract!Failed,
       Contract!Gone, Contract!New

LEMMA BrowserInitInv == BrowserInit => BrowserInv
<1> SUFFICES ASSUME BrowserInit PROVE BrowserInv
  OBVIOUS
<1> USE DEF BrowserInit
<1>1. FirstPage \in Page /\ FirstPage.results = None /\ FirstPage.session = None
  BY DEF FirstPage, Page, Mode
<1>2. BrowserTypeOK
  <2>1. visible \in [Searches -> Answer \cup {Contract!New, Contract!Gone}]  OBVIOUS
  <2>2. request \in [Searches \cup Loads -> {"idle", "sent", "served", "answered", "failed"}]
    OBVIOUS
  <2>3. events \in 0..MaxEvents  BY BrowserAssumption
  <2>4. reply \in [Searches -> Answer \cup {None}]  OBVIOUS
  <2>5. asked \in Searches  BY BrowserAssumption
  <2>6. QED  BY <1>1, <2>1, <2>2, <2>3, <2>4, <2>5 DEF BrowserTypeOK
<1>3. \A s \in Searches : request[s] \in {"sent", "idle"}  OBVIOUS
<1>4. ReplyInv  BY <1>3 DEF ReplyInv
<1>5. PageInv(page) /\ PageInv(shown)  BY <1>1 DEF PageInv
<1>6. PollInv  BY DEF PollInv
<1>7. CommitInv  BY <1>1 DEF CommitInv
<1>8. LatestInv  BY BrowserAssumption DEF LatestInv, InFlight
<1>9. QED  BY <1>2, <1>4, <1>5, <1>6, <1>7, <1>8 DEF BrowserInv

(* A page that keeps its results and its session keeps what is true of     *)
(* them while sessions settle and searches are answered.                   *)
History ==
  \A s \in Searches :
    /\ request[s] = "answered" => request'[s] = "answered"
    /\ visible[s] # Contract!New => visible'[s] # Contract!New
    /\ Settled(s) => Settled(s)'
    /\ visible[s] \in {Contract!Completed, Contract!Gone}
         => visible'[s] \in {Contract!Completed, Contract!Gone}

LEMMA PageKeeps ==
  ASSUME NEW pg \in Page, PageInv(pg), History
  PROVE  PageInv(pg)'
<1>1. pg.results # None => pg.results.search \in Searches  BY DEF Page, LiveResults
<1>2. pg.session # None => pg.session.search \in Searches  BY DEF Page, LiveSession
<1>3. QED  BY <1>1, <1>2 DEF PageInv, History, Settled

(* Steps of the page that change neither results nor sessions nor requests. *)
LEMMA QuietSteps ==
  ASSUME BrowserInv, page' \in Page, shown' \in Page,
         page'.results = page.results, page'.session = page.session,
         shown'.results = shown.results, shown'.session = shown.session,
         page = shown => page' = shown',
         dirty' = dirty \/ dirty' = dirty \ {"error"},
         UNCHANGED <<timer, polls>> \/ PollEffect(shown'),
         UNCHANGED <<visible, loading, request, reply, asked, overtaken>>,
         detail' \in BOOLEAN, banner' \in BOOLEAN, events' \in 0..MaxEvents
  PROVE  BrowserInv'
<1>1. shown.session # None => shown.session.search \in Searches /\ shown.mode \in Mode
  BY DEF BrowserInv, BrowserTypeOK, Page, LiveSession
<1>2. shown'.session # None => shown'.session.search \in Searches /\ shown'.mode \in Mode
  BY DEF Page, LiveSession
<1>3. BrowserTypeOK'
  <2>1. timer' \in [search : Searches, mode : Mode] \cup {None}
    BY <1>2 DEF BrowserInv, BrowserTypeOK, PollEffect, Enriching
  <2>2. polls' \in SUBSET polls
    BY DEF PollEffect
  <2>3. QED  BY <2>1, <2>2 DEF BrowserInv, BrowserTypeOK
<1>4. ReplyInv'  BY DEF BrowserInv, ReplyInv, AnswerTrue, Settled
<1>5. PageInv(page)' /\ PageInv(shown)'
  BY DEF BrowserInv, PageInv, Settled
<1>6. PollInv'
  <2>1. CASE UNCHANGED <<timer, polls>>
    BY <2>1 DEF BrowserInv, PollInv, AnswerTrue, Settled, NotAfter
  <2>2. CASE PollEffect(shown')
    BY <2>2 DEF PollInv, PollEffect, Enriching
  <2>3. QED  BY <2>1, <2>2
<1>7. CommitInv'  BY DEF BrowserInv, CommitInv, NotAfter
<1>8. LatestInv'  BY DEF BrowserInv, LatestInv, InFlight
<1>9. QED  BY <1>3, <1>4, <1>5, <1>6, <1>7, <1>8 DEF BrowserInv

LEMMA ClickFacts ==
  ASSUME BrowserInv, NEW mode \in Mode, NEW selected \in BOOLEAN
  PROVE  \A pg \in {page, shown} :
           /\ [pg EXCEPT !.mode = mode, !.selected = selected] \in Page
           /\ [pg EXCEPT !.mode = mode] \in Page
           /\ [pg EXCEPT !.selected = selected] \in Page
BY DEF BrowserInv, BrowserTypeOK, Page

LEMMA ClicksKeep ==
  ASSUME BrowserInv,
         \/ Edit \/ EditFilters
         \/ \E mode \in Mode : SwitchMode(mode)
         \/ BackToLive \/ SelectGym \/ Dismiss \/ DetailAnswered \/ DetailFails
         \/ UNCHANGED browserVars
  PROVE  BrowserInv'
<1>1. page \in Page /\ shown \in Page /\ detail \in BOOLEAN /\ banner \in BOOLEAN
      /\ events \in 0..MaxEvents /\ MaxEvents \in Nat
  BY BrowserAssumption DEF BrowserInv, BrowserTypeOK
<1>2. events < MaxEvents /\ events' = events + 1 => events' \in 0..MaxEvents
  BY <1>1
<1>3. \A sh : DetailEffect(sh) => detail' \in BOOLEAN
  BY DEF DetailEffect
<1>4. CASE Edit
  BY <1>1, <1>2, <1>4, QuietSteps DEF Edit, Clicks
<1>5. CASE EditFilters
  BY <1>1, <1>2, <1>3, <1>5, QuietSteps DEF EditFilters, Clicks
<1>6. CASE \E mode \in Mode : SwitchMode(mode)
  <2>0. PICK mode \in Mode : SwitchMode(mode)  BY <1>6
  <2>1. PICK selected \in {FALSE, mode = "published" /\ shown.catalog} :
          /\ Clicks /\ PollEffect(shown') /\ DetailEffect(shown') /\ UNCHANGED overtaken
          /\ page' = [page EXCEPT !.mode = mode, !.selected = selected]
          /\ shown' = [shown EXCEPT !.mode = mode, !.selected = selected]
    BY <2>0 DEF SwitchMode, Click
  <2>2. selected \in BOOLEAN  BY <1>1, <2>1 DEF Page
  <2>3. /\ page' \in Page /\ shown' \in Page
        /\ page'.results = page.results /\ page'.session = page.session
        /\ shown'.results = shown.results /\ shown'.session = shown.session
    BY <1>1, <2>1, <2>2, ClickFacts DEF Page
  <2>4. QED  BY <1>1, <1>2, <1>3, <2>1, <2>3, QuietSteps DEF Clicks
<1>7. CASE BackToLive
  <2>1. /\ Clicks /\ PollEffect(shown') /\ DetailEffect(shown') /\ UNCHANGED overtaken
        /\ page' = [page EXCEPT !.mode = "live"]
        /\ shown' = [shown EXCEPT !.mode = "live"]
    BY <1>7 DEF BackToLive, Click
  <2>2. /\ page' \in Page /\ shown' \in Page
        /\ page'.results = page.results /\ page'.session = page.session
        /\ shown'.results = shown.results /\ shown'.session = shown.session
    BY <1>1, <2>1 DEF Page, Mode
  <2>3. QED  BY <1>1, <1>2, <1>3, <2>1, <2>2, QuietSteps DEF Clicks
<1>8. CASE SelectGym
  <2> DEFINE selected == (shown.mode = "published")
  <2>1. /\ Clicks /\ PollEffect(shown') /\ DetailEffect(shown') /\ UNCHANGED overtaken
        /\ page' = [page EXCEPT !.selected = selected]
        /\ shown' = [shown EXCEPT !.selected = selected]
    BY <1>8 DEF SelectGym, Click
  <2>2. selected \in BOOLEAN  OBVIOUS
  <2> HIDE DEF selected
  <2>3. /\ page' \in Page /\ shown' \in Page
        /\ page'.results = page.results /\ page'.session = page.session
        /\ shown'.results = shown.results /\ shown'.session = shown.session
    BY <1>1, <2>1, <2>2 DEF Page
  <2>4. QED  BY <1>1, <1>2, <1>3, <2>1, <2>3, QuietSteps DEF Clicks
<1>9. CASE Dismiss
  BY <1>1, <1>9, QuietSteps DEF Dismiss
<1>10. CASE DetailAnswered
  BY <1>1, <1>10, QuietSteps DEF DetailAnswered
<1>11. CASE DetailFails
  BY <1>1, <1>11, QuietSteps DEF DetailFails
<1>12. CASE UNCHANGED browserVars
  BY <1>1, <1>12, QuietSteps DEF browserVars
<1>13. QED
  BY <1>4, <1>5, <1>6, <1>7, <1>8, <1>9, <1>10, <1>11, <1>12

----------------------------------------------------------------------------
(* The server: what it makes of its sessions, the page need not know yet.  *)
LEMMA SessionSteps ==
  ASSUME BrowserInv, History, UNCHANGED BrowserUnchanged, UNCHANGED polls,
         visible' \in [Searches -> Answer \cup {Contract!New, Contract!Gone}],
         request' \in [Searches \cup Loads -> {"idle", "sent", "served", "answered", "failed"}],
         reply' \in [Searches -> Answer \cup {None}],
         ReplyInv',
         \A r \in Searches \cup Loads :
           r \in InFlight' <=> r \in InFlight,
         \A s \in Searches : request'[s] = "answered" <=> request[s] = "answered"
  PROVE  BrowserInv'
<1>1. UNCHANGED <<page, shown, dirty, timer, detail, loading, banner, events, asked, overtaken>>
  BY DEF BrowserUnchanged
<1>2. BrowserTypeOK'  BY <1>1 DEF BrowserInv, BrowserTypeOK
<1>3. PageInv(page)' /\ PageInv(shown)'
  <2> DEFINE pg == page
             sh == shown
  <2>1. pg \in Page /\ sh \in Page /\ PageInv(pg) /\ PageInv(sh) /\ pg = page /\ sh = shown
    BY DEF BrowserInv, BrowserTypeOK
  <2>2. \A v \in Page : PageInv(v) => PageInv(v)'  BY PageKeeps
  <2>3. QED  BY <1>1, <2>1, <2>2 DEF PageInv, Settled
<1>4. PollInv'
  <2>1. \A p \in polls : p.search \in Searches  BY DEF BrowserInv, BrowserTypeOK
  <2>2. QED
    BY <1>1, <2>1 DEF BrowserInv, PollInv, AnswerTrue, History, Settled, NotAfter
<1>5. CommitInv'  BY <1>1 DEF BrowserInv, CommitInv, NotAfter
<1>6. InFlight' = InFlight  BY DEF InFlight
<1>7. LatestInv'
  BY <1>1, <1>6 DEF BrowserInv, BrowserTypeOK, LatestInv
<1>8. QED  BY <1>2, <1>3, <1>4, <1>5, <1>7 DEF BrowserInv

LEMMA ServeSearchKeeps ==
  ASSUME BrowserInv, NEW s \in Searches, ServeSearch(s)
  PROVE  BrowserInv'
<1>1. PICK answer \in Answer :
        /\ request[s] = "sent" /\ visible[s] = Contract!New
        /\ answer \in {Contract!Pending, Contract!Skipped}
        /\ visible' = [visible EXCEPT ![s] = answer]
        /\ reply' = [reply EXCEPT ![s] = answer]
        /\ request' = [request EXCEPT ![s] = "served"]
        /\ UNCHANGED BrowserUnchanged /\ UNCHANGED polls
  BY DEF ServeSearch, Becomes, Contract!Open, BrowserInv, BrowserTypeOK
<1>2. /\ visible \in [Searches -> Answer \cup {Contract!New, Contract!Gone}]
      /\ request \in [Searches \cup Loads -> {"idle", "sent", "served", "answered", "failed"}]
      /\ reply \in [Searches -> Answer \cup {None}]
  BY DEF BrowserInv, BrowserTypeOK
<1>3. \A t \in Searches : visible'[t] = IF t = s THEN answer ELSE visible[t]
  BY <1>1, <1>2
<1>4. \A r \in Searches \cup Loads : request'[r] = IF r = s THEN "served" ELSE request[r]
  BY <1>1, <1>2
<1>5. \A t \in Searches : reply'[t] = IF t = s THEN answer ELSE reply[t]
  BY <1>1, <1>2
<1>6. ~Settled(s) /\ visible[s] \notin {Contract!Completed, Contract!Gone}
  BY <1>1, ContractFacts DEF Settled
<1>7. History
  <2>1. answer # Contract!New  BY <1>1, ContractFacts
  <2>2. QED  BY <1>1, <1>3, <1>4, <1>6, <2>1 DEF History, Settled
<1>8. ReplyInv'
  <2> SUFFICES ASSUME NEW t \in Searches, request'[t] \in {"served", "answered"}
               PROVE  /\ visible'[t] # Contract!New
                      /\ reply'[t] \in Answer /\ AnswerTrue(t, reply[t])'
    BY DEF ReplyInv
  <2>1. CASE t = s
    <3>1. answer.revision = 0 /\ answer.enrichment # "completed"
      BY <1>1, ContractFacts
    <3>2. visible'[t] # Contract!New  BY <1>1, <1>3, <2>1, ContractFacts
    <3>3. QED  BY <1>1, <1>5, <2>1, <3>1, <3>2 DEF AnswerTrue
  <2>2. CASE t # s
    <3>1. visible[t] # Contract!New /\ reply[t] \in Answer /\ AnswerTrue(t, reply[t])
      BY <1>4, <2>2 DEF BrowserInv, ReplyInv
    <3>2. QED  BY <1>3, <1>5, <2>2, <3>1 DEF AnswerTrue, Settled
  <2>3. QED  BY <2>1, <2>2
<1>9. \A r \in Searches \cup Loads : r \in InFlight' <=> r \in InFlight
  BY <1>1, <1>4 DEF InFlight
<1>10. \A t \in Searches : request'[t] = "answered" <=> request[t] = "answered"
  BY <1>1, <1>4
<1>11. QED
  BY <1>1, <1>2, <1>7, <1>8, <1>9, <1>10, SessionSteps

(* A session that settles or closes makes no answer wrong.                 *)
LEMMA SettlesOrCloses ==
  ASSUME BrowserInv, NEW s \in Searches, ServerSettles(s) \/ ServerCloses(s)
  PROVE  BrowserInv'
<1>1. PICK answer \in Answer \cup {Contract!Gone} :
        /\ \/ visible[s] = Contract!Pending /\ answer \in {Contract!Completed, Contract!Failed}
           \/ answer = Contract!Gone
        /\ visible' = [visible EXCEPT ![s] = answer]
        /\ UNCHANGED BrowserUnchanged /\ UNCHANGED <<polls, request, reply>>
  BY DEF ServerSettles, ServerCloses, Becomes, Contract!Settle, Contract!Close, BrowserInv,
         BrowserTypeOK
<1>2. visible \in [Searches -> Answer \cup {Contract!New, Contract!Gone}]
  BY DEF BrowserInv, BrowserTypeOK
<1>3. \A t \in Searches : visible'[t] = IF t = s THEN answer ELSE visible[t]
  BY <1>1, <1>2
<1>4. Contract!Pending \notin {Contract!Completed, Contract!Failed, Contract!Gone}
  BY DEF Contract!Pending, Contract!Completed, Contract!Failed, Contract!Gone
<1>5. History
  <2>1. answer # Contract!New  BY <1>1, ContractFacts
  <2>2. QED  BY <1>1, <1>3, <1>4, <2>1 DEF History, Settled
<1>6. ReplyInv'
  BY <1>1, <1>5 DEF BrowserInv, ReplyInv, AnswerTrue, History
<1>7. InFlight' = InFlight  BY <1>1 DEF InFlight
<1>8. visible' \in [Searches -> Answer \cup {Contract!New, Contract!Gone}]
  BY <1>1, <1>2
<1>9. QED
  BY <1>1, <1>5, <1>6, <1>7, <1>8, SessionSteps DEF BrowserInv, BrowserTypeOK

LEMMA ServePollKeeps ==
  ASSUME BrowserInv, NEW p \in polls, ServePoll(p)
  PROVE  BrowserInv'
<1> DEFINE served == [p EXCEPT !.answer = visible[p.search]]
<1>1. /\ polls' = (polls \ {p}) \cup {served}
      /\ UNCHANGED BrowserUnchanged /\ UNCHANGED <<visible, request, reply>>
  BY DEF ServePoll
<1>2. UNCHANGED <<page, shown, dirty, timer, detail, loading, banner, events, asked, overtaken>>
  BY <1>1 DEF BrowserUnchanged
<1>3. p \in [search : Searches, mode : Mode, answer : Answer \cup {None, Contract!Gone}]
  BY DEF BrowserInv, BrowserTypeOK
<1>4. p.search = shown.session.search /\ shown.session # None
      /\ request[p.search] = "answered"
  <2>1. p.search = shown.session.search /\ shown.session # None
    BY DEF BrowserInv, PollInv
  <2>2. shown.session.search \in Searches /\ shown.session.revision \in 0..1
    BY <2>1 DEF BrowserInv, BrowserTypeOK, Page, LiveSession
  <2>3. shown.results = [search |-> shown.session.search, revision |-> shown.session.revision]
    BY <2>1 DEF BrowserInv, PageInv
  <2>4. shown.results # None  BY <2>2, <2>3, NoneAssumption DEF LiveResults
  <2>5. QED  BY <2>1, <2>3, <2>4 DEF BrowserInv, PageInv
<1>5. visible[p.search] \in Answer \cup {Contract!Gone}
  BY <1>3, <1>4 DEF BrowserInv, BrowserTypeOK, ReplyInv
<1>6. /\ served \in [search : Searches, mode : Mode, answer : Answer \cup {None, Contract!Gone}]
      /\ served.search = p.search /\ served.answer = visible[p.search]
  BY <1>3, <1>5
<1>7. polls = {p} /\ polls' = {served}
  BY <1>1 DEF BrowserInv, PollInv
<1> HIDE DEF served
<1>8. BrowserTypeOK'
  BY <1>1, <1>2, <1>6, <1>7 DEF BrowserInv, BrowserTypeOK
<1>9. ASSUME visible[p.search] \in Answer
      PROVE  /\ AnswerTrue(p.search, visible[p.search])
             /\ NotAfter(page, p.search, visible[p.search].revision)
             /\ NotAfter(shown, p.search, visible[p.search].revision)
  <2>1. AnswerTrue(p.search, visible[p.search])
    BY <1>9, ContractFacts DEF AnswerTrue, Settled
  <2>2. visible[p.search].revision \in 0..1  BY <1>9, ContractFacts
  <2>3. Settled(p.search) => visible[p.search].revision = 1
    BY <1>9, ContractFacts DEF Settled
  <2>4. ASSUME NEW pg \in {page, shown}
        PROVE  NotAfter(pg, p.search, visible[p.search].revision)
    <3>1. pg \in Page /\ PageInv(pg)  BY DEF BrowserInv, BrowserTypeOK
    <3>2. pg.results # None => pg.results.revision \in 0..1
      BY <3>1 DEF Page, LiveResults
    <3>3. QED  BY <2>2, <2>3, <3>1, <3>2 DEF PageInv, NotAfter
  <2>5. QED  BY <2>1, <2>4
<1>10. PollInv'
  <2>1. timer = None  BY <1>7 DEF BrowserInv, PollInv
  <2>2. QED
    BY <1>1, <1>2, <1>4, <1>6, <1>7, <1>9, <2>1 DEF PollInv, AnswerTrue, Settled, NotAfter
<1>11. ReplyInv' /\ PageInv(page)' /\ PageInv(shown)'
  BY <1>1, <1>2 DEF BrowserInv, ReplyInv, AnswerTrue, PageInv, Settled
<1>12. CommitInv' /\ LatestInv'
  BY <1>1, <1>2 DEF BrowserInv, CommitInv, NotAfter, LatestInv, InFlight
<1>13. QED  BY <1>8, <1>10, <1>11, <1>12 DEF BrowserInv

LEMMA CommitKeeps == BrowserInv /\ Commit => BrowserInv'
<1> SUFFICES ASSUME BrowserInv, Commit PROVE BrowserInv'
  OBVIOUS
<1>1. /\ dirty # {} /\ shown' = page /\ dirty' = {} /\ PollEffect(page)
      /\ UNCHANGED <<visible, page, loading, request, reply, events, asked, overtaken>>
  BY DEF Commit
<1>2. page \in Page /\ (page.session # None => page.session.search \in Searches)
      /\ page.mode \in Mode
  BY DEF BrowserInv, BrowserTypeOK, Page, LiveSession
<1>3. detail' \in BOOLEAN /\ banner' \in BOOLEAN
  BY DEF Commit, DetailEffect, BrowserInv, BrowserTypeOK
<1>4. /\ polls' = {}
      /\ timer' # None => page.session # None /\ timer'.search = page.session.search
      /\ timer' \in [search : Searches, mode : Mode] \cup {None}
  BY <1>1, <1>2 DEF PollEffect, Enriching
<1>5. BrowserTypeOK'
  BY <1>1, <1>2, <1>3, <1>4 DEF BrowserInv, BrowserTypeOK
<1>6. ReplyInv' /\ PageInv(page)'
  BY <1>1 DEF BrowserInv, ReplyInv, AnswerTrue, PageInv, Settled
<1>7. PageInv(shown)'
  BY <1>1, <1>6 DEF PageInv, Settled
<1>8. PollInv'  BY <1>1, <1>4 DEF PollInv
<1>9. CommitInv'
  <2>1. page.results # None => page.results.revision <= page.results.revision
    BY <1>2 DEF Page, LiveResults
  <2>2. QED  BY <1>1, <2>1 DEF CommitInv, NotAfter
<1>10. LatestInv'  BY <1>1 DEF BrowserInv, LatestInv, InFlight
<1>11. QED  BY <1>5, <1>6, <1>7, <1>8, <1>9, <1>10 DEF BrowserInv

----------------------------------------------------------------------------
(* Requests: the forms are disabled while one is in flight, unless it has  *)
(* been sent with "Try again".                                             *)
LEMMA SendKeeps ==
  ASSUME BrowserInv, NEW r \in Searches \cup Loads, Send(r),
         overtaken' \in BOOLEAN,
         ~overtaken' => ~overtaken /\ InFlight = {},
         asked' = IF r \in Searches THEN r ELSE asked
  PROVE  BrowserInv'
<1>1. /\ request[r] = "idle" /\ request' = [request EXCEPT ![r] = "sent"]
      /\ loading' = TRUE /\ banner' = FALSE /\ dirty' = dirty \ {"error"}
      /\ UNCHANGED <<visible, page, shown, timer, polls, detail, reply, events>>
  BY DEF Send
<1>2. request \in [Searches \cup Loads -> {"idle", "sent", "served", "answered", "failed"}]
  BY DEF BrowserInv, BrowserTypeOK
<1>3. \A q \in Searches \cup Loads : request'[q] = IF q = r THEN "sent" ELSE request[q]
  BY <1>1, <1>2
<1>4. BrowserTypeOK'
  <2>1. request' \in [Searches \cup Loads -> {"idle", "sent", "served", "answered", "failed"}]
    BY <1>1, <1>2
  <2>2. QED  BY <1>1, <2>1 DEF BrowserInv, BrowserTypeOK
<1>5. History  BY <1>1, <1>3 DEF History, Settled
<1>6. ReplyInv'  BY <1>1, <1>3 DEF BrowserInv, ReplyInv, AnswerTrue, Settled
<1>7. PageInv(page)' /\ PageInv(shown)'
  <2>1. page \in Page /\ shown \in Page  BY DEF BrowserInv, BrowserTypeOK
  <2>2. \A v \in Page : PageInv(v) => PageInv(v)'  BY <1>5, PageKeeps
  <2>3. QED  BY <1>1, <2>1, <2>2 DEF BrowserInv, PageInv, Settled
<1>8. PollInv'  BY <1>1 DEF BrowserInv, PollInv, AnswerTrue, Settled, NotAfter
<1>9. CommitInv'  BY <1>1 DEF BrowserInv, CommitInv, NotAfter
<1>10. LatestInv'
  <2> SUFFICES ASSUME ~overtaken' PROVE LatestInv'
    BY DEF LatestInv
  <2>1. InFlight' = {r}  BY <1>3 DEF InFlight
  <2>2. CASE r \in Searches  BY <1>1, <1>3, <2>1, <2>2 DEF LatestInv
  <2>3. CASE r \notin Searches
    <3>1. asked' = asked /\ asked \in Searches  BY <2>3 DEF BrowserInv, BrowserTypeOK
    <3>2. request'[asked'] = request[asked]  BY <1>3, <2>3, <3>1
    <3>3. QED  BY <1>1, <2>1, <2>3, <3>1, <3>2 DEF BrowserInv, LatestInv
  <2>4. QED  BY <2>2, <2>3
<1>11. QED  BY <1>4, <1>6, <1>7, <1>8, <1>9, <1>10 DEF BrowserInv

LEMMA RequestsKeep ==
  ASSUME BrowserInv,
         \/ \E s \in Searches : SubmitSearch(s) \/ RetrySearch(s)
         \/ \E l \in Loads : SubmitLoad(l) \/ RetryLoad(l)
         \/ SubmitInvalid
  PROVE  BrowserInv'
<1>1. overtaken \in BOOLEAN /\ (~overtaken /\ ~loading => InFlight = {})
  BY DEF BrowserInv, BrowserTypeOK, LatestInv
<1>2. ASSUME NEW s \in Searches, SubmitSearch(s) PROVE BrowserInv'
  BY <1>1, <1>2, SendKeeps DEF SubmitSearch
<1>3. ASSUME NEW s \in Searches, RetrySearch(s) PROVE BrowserInv'
  BY <1>1, <1>3, SendKeeps DEF RetrySearch
<1>4. ASSUME NEW l \in Loads, SubmitLoad(l) PROVE BrowserInv'
  BY <1>1, <1>4, SendKeeps, BrowserAssumption DEF SubmitLoad
<1>5. ASSUME NEW l \in Loads, RetryLoad(l) PROVE BrowserInv'
  BY <1>1, <1>5, SendKeeps, BrowserAssumption DEF RetryLoad
<1>6. CASE SubmitInvalid
  <2>1. /\ events' = events + 1 /\ events < MaxEvents /\ banner' = TRUE /\ loading' = FALSE
        /\ overtaken' = (overtaken \/ InFlight # {})
        /\ UNCHANGED <<visible, page, shown, dirty, timer, polls, detail, request, reply, asked>>
    BY <1>6 DEF SubmitInvalid
  <2>2. events' \in 0..MaxEvents
    BY <2>1, BrowserAssumption DEF BrowserInv, BrowserTypeOK
  <2>3. overtaken' \in BOOLEAN  BY <2>1
  <2>4. BrowserTypeOK'  BY <2>1, <2>2, <2>3 DEF BrowserInv, BrowserTypeOK
  <2>5. ReplyInv' /\ PageInv(page)' /\ PageInv(shown)'
    BY <2>1 DEF BrowserInv, ReplyInv, AnswerTrue, PageInv, Settled
  <2>6. PollInv' /\ CommitInv'
    BY <2>1 DEF BrowserInv, PollInv, AnswerTrue, Settled, NotAfter, CommitInv
  <2>7. InFlight' = InFlight  BY <2>1 DEF InFlight
  <2>8. LatestInv'
    BY <2>1, <2>7 DEF BrowserInv, LatestInv
  <2>9. QED  BY <2>4, <2>5, <2>6, <2>8 DEF BrowserInv
<1>7. QED  BY <1>2, <1>3, <1>4, <1>5, <1>6

(* What is put on the page with the answer of a search or a poll.          *)
LEMMA ApplyTypes ==
  ASSUME NEW s \in Searches, NEW answer \in Answer
  PROVE  /\ SessionOf(s, answer) \in LiveSession
         /\ [search |-> s, revision |-> answer.revision] \in LiveResults
BY ContractFacts DEF SessionOf, LiveSession, LiveResults

LEMMA AnswerFacts ==
  ASSUME NEW s \in Searches, NEW answer \in Answer,
         NEW w, w.results = [search |-> s, revision |-> answer.revision],
         w.session = SessionOf(s, answer)
  PROVE  /\ w.results # None /\ w.results.search = s
         /\ w.results.revision = answer.revision
         /\ w.session # None /\ w.session.search = s
         /\ w.session.revision = answer.revision
         /\ w.session.enrichment = answer.enrichment
<1>1. w.session \in LiveSession /\ w.results \in LiveResults
  BY ContractFacts DEF SessionOf, LiveSession, LiveResults
<1>2. w.session # None /\ w.results # None  BY <1>1, NoneAssumption
<1>3. QED  BY <1>2 DEF SessionOf

(* A request ends: the page keeps its results, or has those of the search  *)
(* that was answered.                                                      *)
LEMMA EndedKeeps ==
  ASSUME BrowserInv, NEW r \in Searches \cup Loads, NEW outcome \in {"answered", "failed"},
         r \in InFlight, Ended(r, outcome),
         page' \in Page, banner' \in BOOLEAN,
         dirty' \in SUBSET {"session", "lists", "error"},
         "session" \in dirty' \/ (UNCHANGED <<page, dirty>>),
         \/ /\ page'.results = page.results /\ page'.session \in {page.session, None}
            /\ outcome = "answered" => r \notin Searches
         \/ /\ outcome = "answered" /\ r \in Searches /\ request[r] = "served"
            /\ page'.results = [search |-> r, revision |-> reply[r].revision]
            /\ page'.session = SessionOf(r, reply[r])
  PROVE  BrowserInv'
<1> DEFINE Kept == /\ page'.results = page.results /\ page'.session \in {page.session, None}
                   /\ outcome = "answered" => r \notin Searches
           Renewed == /\ outcome = "answered" /\ r \in Searches /\ request[r] = "served"
                      /\ page'.results = [search |-> r, revision |-> reply[r].revision]
                      /\ page'.session = SessionOf(r, reply[r])
<1>0. Kept \/ Renewed  OBVIOUS
<1>1. /\ request' = [request EXCEPT ![r] = outcome] /\ loading' = FALSE
      /\ UNCHANGED <<visible, shown, timer, polls, detail, reply, events, asked, overtaken>>
  BY DEF Ended
<1>2. /\ request \in [Searches \cup Loads -> {"idle", "sent", "served", "answered", "failed"}]
      /\ page \in Page /\ shown \in Page /\ asked \in Searches
  BY DEF BrowserInv, BrowserTypeOK
<1>3. \A q \in Searches \cup Loads : request'[q] = IF q = r THEN outcome ELSE request[q]
  BY <1>1, <1>2
<1>4. request[r] \in {"sent", "served"}  BY DEF InFlight
<1>5. BrowserTypeOK'
  <2>1. request' \in [Searches \cup Loads -> {"idle", "sent", "served", "answered", "failed"}]
    BY <1>1, <1>2
  <2>2. QED  BY <1>1, <2>1 DEF BrowserInv, BrowserTypeOK
<1>6. History  BY <1>1, <1>3, <1>4 DEF History, Settled
<1>7. ASSUME Renewed
      PROVE  /\ reply[r] \in Answer /\ AnswerTrue(r, reply[r])
             /\ page'.results # None /\ page'.results.search = r
             /\ page'.results.revision = reply[r].revision
             /\ page'.session # None /\ page'.session.search = r
             /\ page'.session.revision = reply[r].revision
             /\ page'.session.enrichment = reply[r].enrichment
  <2>1. r \in Searches /\ reply[r] \in Answer /\ AnswerTrue(r, reply[r])
    BY <1>7 DEF BrowserInv, ReplyInv
  <2>2. QED  BY <1>7, <2>1, AnswerFacts
<1>8. ReplyInv'
  <2> SUFFICES ASSUME NEW s \in Searches, request'[s] \in {"served", "answered"}
               PROVE  visible[s] # Contract!New /\ reply[s] \in Answer /\ AnswerTrue(s, reply[s])
    BY <1>1 DEF ReplyInv, AnswerTrue, Settled
  <2>1. request[s] \in {"served", "answered"}  BY <1>0, <1>3
  <2>2. QED  BY <2>1 DEF BrowserInv, ReplyInv
<1>9. PageInv(shown)'
  <2>1. \A v \in Page : PageInv(v) => PageInv(v)'  BY <1>6, PageKeeps
  <2>2. QED  BY <1>1, <1>2, <2>1 DEF BrowserInv, PageInv, Settled
<1>10. PageInv(page)'
  <2>1. CASE Kept
    <3>1. page.results # None => page.results.search \in Searches
      BY <1>2 DEF Page, LiveResults
    <3>2. page.results # None =>
            /\ request'[page.results.search] = "answered"
            /\ page.results.revision = 1 => Settled(page.results.search)
      BY <1>3, <1>4, <3>1 DEF BrowserInv, PageInv
    <3>3. QED  BY <1>1, <2>1, <3>2 DEF BrowserInv, PageInv, Settled
  <2>2. CASE Renewed
    <3>1. request'[r] = "answered"  BY <1>3, <2>2
    <3>2. QED  BY <1>1, <1>7, <2>2, <3>1 DEF PageInv, AnswerTrue, Settled
  <2>3. QED  BY <1>0, <2>1, <2>2
<1>11. Renewed => (shown.results # None => shown.results.search # r)
  BY <1>4 DEF BrowserInv, PageInv
<1>12. PollInv'
  <2>1. ASSUME NEW p \in polls, Renewed PROVE p.search # r
    <3>1. shown.session # None /\ p.search = shown.session.search
      BY DEF BrowserInv, PollInv
    <3>2. shown.results = [search |-> shown.session.search, revision |-> shown.session.revision]
      BY <3>1 DEF BrowserInv, PageInv
    <3>3. shown.session \in LiveSession  BY <1>2, <3>1 DEF Page
    <3>4. shown.results # None  BY <3>2, <3>3, NoneAssumption DEF LiveSession, LiveResults
    <3>5. QED  BY <1>11, <2>1, <3>1, <3>2, <3>4
  <2>2. \A p \in polls : p.answer \in Answer => NotAfter(page', p.search, p.answer.revision)
    <3>1. CASE Kept  BY <3>1 DEF BrowserInv, PollInv, NotAfter
    <3>2. CASE Renewed  BY <1>7, <2>1, <3>2 DEF NotAfter
    <3>3. QED  BY <1>0, <3>1, <3>2
  <2>3. QED  BY <1>1, <2>2 DEF BrowserInv, PollInv, AnswerTrue, Settled, NotAfter
<1>13. CommitInv'
  <2>1. page'.results # None => NotAfter(shown, page'.results.search, page'.results.revision)
    BY <1>0, <1>7, <1>11 DEF BrowserInv, CommitInv, NotAfter
  <2>2. QED  BY <1>1, <2>1 DEF BrowserInv, CommitInv, NotAfter
<1>14. LatestInv'
  <2> SUFFICES ASSUME ~overtaken PROVE LatestInv'
    BY <1>1 DEF LatestInv
  <2>1. InFlight' = {}
    <3>1. \A q \in InFlight : q = r  BY DEF BrowserInv, LatestInv
    <3>2. QED  BY <1>3, <3>1 DEF InFlight
  <2>2. CASE Kept
    <3>1. request'[asked] = "answered" => request[asked] = "answered"
      BY <1>2, <1>3, <2>2
    <3>2. QED  BY <1>1, <2>1, <2>2, <3>1 DEF BrowserInv, LatestInv
  <2>3. CASE Renewed
    <3>1. r = asked  BY <2>3 DEF BrowserInv, LatestInv
    <3>2. QED  BY <1>1, <1>7, <2>1, <2>3, <3>1 DEF LatestInv
  <2>4. QED  BY <1>0, <2>2, <2>3
<1>15. QED  BY <1>5, <1>8, <1>9, <1>10, <1>12, <1>13, <1>14 DEF BrowserInv

LEMMA AnswersKeep ==
  ASSUME BrowserInv,
         \/ \E s \in Searches : SearchAnswered(s)
         \/ \E l \in Loads : LoadAnswered(l)
         \/ \E r \in Searches \cup Loads : RequestFails(r)
         \/ \E catalog \in BOOLEAN : BootAnswered(catalog) \/ BootFails(catalog)
  PROVE  BrowserInv'
<1>1. /\ page \in Page /\ banner \in BOOLEAN /\ dirty \in SUBSET {"session", "lists", "error"}
      /\ \A s \in Searches : request[s] = "served" => reply[s] \in Answer
  BY DEF BrowserInv, BrowserTypeOK, ReplyInv
<1>2. ASSUME NEW s \in Searches, SearchAnswered(s) PROVE BrowserInv'
  <2>1. PICK mode \in Mode, selected \in BOOLEAN :
          /\ request[s] = "served" /\ Ended(s, "answered") /\ UNCHANGED banner
          /\ page' = [page EXCEPT !.mode = mode, !.selected = selected,
                          !.results = [search |-> s, revision |-> reply[s].revision],
                          !.session = SessionOf(s, reply[s])]
          /\ dirty' = dirty \cup {"session", "lists"}
    <3>1. "live" \in Mode /\ (page.selected /\ ~TRUE) \in BOOLEAN  BY DEF Mode
    <3>2. page' = [page EXCEPT !.mode = "live", !.selected = page.selected /\ ~TRUE,
                      !.results = [search |-> s, revision |-> reply[s].revision],
                      !.session = SessionOf(s, reply[s])]
      BY <1>1, <1>2 DEF SearchAnswered, Queue, Apply, Page
    <3>3. QED  BY <1>2, <3>1, <3>2 DEF SearchAnswered, Queue
  <2>2. /\ page' \in Page
        /\ page'.results = [search |-> s, revision |-> reply[s].revision]
        /\ page'.session = SessionOf(s, reply[s])
    BY <1>1, <2>1, ApplyTypes DEF Page
  <2>3. s \in InFlight  BY <2>1 DEF InFlight
  <2>4. "session" \in dirty' /\ dirty' \in SUBSET {"session", "lists", "error"}
    BY <1>1, <2>1
  <2>5. QED  BY <1>1, <2>1, <2>2, <2>3, <2>4, EndedKeeps
<1>3. ASSUME NEW l \in Loads, LoadAnswered(l) PROVE BrowserInv'
  <2>1. /\ request[l] = "sent" /\ Ended(l, "answered") /\ UNCHANGED banner
        /\ page' = [page EXCEPT !.mode = "published", !.catalog = TRUE,
                                !.selected = TRUE, !.session = None]
        /\ dirty' = dirty \cup {"session", "lists"}
    BY <1>3 DEF LoadAnswered, Queue
  <2>2. page' \in Page /\ page'.results = page.results /\ page'.session = None
    BY <1>1, <2>1 DEF Page, Mode
  <2>3. l \in InFlight /\ l \notin Searches
    BY <2>1, BrowserAssumption DEF InFlight
  <2>4. "session" \in dirty' /\ dirty' \in SUBSET {"session", "lists", "error"}
    BY <1>1, <2>1
  <2>5. QED  BY <1>1, <2>1, <2>2, <2>3, <2>4, EndedKeeps
<1>4. ASSUME NEW r \in Searches \cup Loads, RequestFails(r) PROVE BrowserInv'
  <2>1. r \in InFlight /\ banner' = TRUE /\ Ended(r, "failed") /\ UNCHANGED <<page, dirty>>
    BY <1>4 DEF RequestFails
  <2>2. QED  BY <1>1, <2>1, EndedKeeps
<1>5. ASSUME NEW catalog \in BOOLEAN, BootAnswered(catalog) PROVE BrowserInv'
  <2> DEFINE loaded == [page EXCEPT !.catalog = catalog]
  <2>1. loaded \in Page  BY <1>1 DEF Page
  <2>2. PICK mode \in Mode, selected \in BOOLEAN :
          /\ request[Boot] = "served" /\ Ended(Boot, "answered") /\ UNCHANGED banner
          /\ page' = [loaded EXCEPT !.mode = mode, !.selected = selected,
                          !.results = [search |-> Boot, revision |-> reply[Boot].revision],
                          !.session = SessionOf(Boot, reply[Boot])]
          /\ dirty' = dirty \cup {"session", "lists"}
    <3>1. "live" \in Mode /\ (loaded.selected /\ ~TRUE) \in BOOLEAN  BY DEF Mode
    <3>2. page' = [loaded EXCEPT !.mode = "live", !.selected = loaded.selected /\ ~TRUE,
                      !.results = [search |-> Boot, revision |-> reply[Boot].revision],
                      !.session = SessionOf(Boot, reply[Boot])]
      BY <1>1, <1>5, <2>1 DEF BootAnswered, Queue, Apply, Page
    <3>3. QED  BY <1>5, <3>1, <3>2 DEF BootAnswered, Queue
  <2> HIDE DEF loaded
  <2>3. Boot \in Searches  BY BrowserAssumption
  <2>4. /\ page' \in Page
        /\ page'.results = [search |-> Boot, revision |-> reply[Boot].revision]
        /\ page'.session = SessionOf(Boot, reply[Boot])
    BY <1>1, <2>2, <2>1, <2>3, ApplyTypes DEF Page
  <2>5. Boot \in InFlight  BY <2>2, <2>3 DEF InFlight
  <2>6. "session" \in dirty' /\ dirty' \in SUBSET {"session", "lists", "error"}
    BY <1>1, <2>2
  <2>7. QED  BY <1>1, <2>2, <2>3, <2>4, <2>5, <2>6, EndedKeeps
<1>6. ASSUME NEW catalog \in BOOLEAN, BootFails(catalog) PROVE BrowserInv'
  <2>1. /\ Boot \in InFlight /\ Ended(Boot, "failed") /\ UNCHANGED banner
        /\ page' = [page EXCEPT !.mode = "published", !.catalog = catalog, !.session = None,
                                !.selected = catalog]
        /\ dirty' = {"session", "lists", "error"}
    BY <1>6 DEF BootFails
  <2>2. page' \in Page /\ page'.results = page.results /\ page'.session = None
    BY <1>1, <2>1 DEF Page, Mode
  <2>3. Boot \in Searches \cup Loads  BY BrowserAssumption
  <2>4. QED  BY <1>1, <2>1, <2>2, <2>3, EndedKeeps
<1>7. QED  BY <1>2, <1>3, <1>4, <1>5, <1>6

----------------------------------------------------------------------------
(* The poll.                                                               *)
LEMMA PollFiresKeeps == BrowserInv /\ PollFires => BrowserInv'
<1> SUFFICES ASSUME BrowserInv, PollFires PROVE BrowserInv'
  OBVIOUS
<1> DEFINE fired == [search |-> timer.search, mode |-> timer.mode, answer |-> None]
<1>1. /\ timer # None /\ timer' = None /\ polls' = polls \cup {fired}
      /\ UNCHANGED <<visible, page, shown, dirty, detail, loading, banner, request, reply,
                     events, asked, overtaken>>
  BY DEF PollFires
<1>2. timer \in [search : Searches, mode : Mode]
  BY <1>1 DEF BrowserInv, BrowserTypeOK
<1>3. polls = {} /\ shown.session # None /\ timer.search = shown.session.search
  BY <1>1 DEF BrowserInv, PollInv
<1>4. /\ fired \in [search : Searches, mode : Mode, answer : Answer \cup {None, Contract!Gone}]
      /\ fired.search = shown.session.search /\ fired.answer \notin Answer
  BY <1>2, <1>3, NoneAssumption
<1> HIDE DEF fired
<1>5. polls' = {fired}  BY <1>1, <1>3
<1>6. BrowserTypeOK'  BY <1>1, <1>4, <1>5 DEF BrowserInv, BrowserTypeOK
<1>7. PollInv'  BY <1>1, <1>3, <1>4, <1>5 DEF PollInv
<1>8. ReplyInv' /\ PageInv(page)' /\ PageInv(shown)'
  BY <1>1 DEF BrowserInv, ReplyInv, AnswerTrue, PageInv, Settled
<1>9. CommitInv' /\ LatestInv'
  BY <1>1 DEF BrowserInv, CommitInv, NotAfter, LatestInv, InFlight
<1>10. QED  BY <1>6, <1>7, <1>8, <1>9 DEF BrowserInv

(* The poll of the rendered session is the only one: none is left after it. *)
LEMMA PollEndsKeeps ==
  ASSUME BrowserInv, NEW p \in polls, PollEnds(p),
         page' \in Page, PageInv(page)',
         dirty' \in SUBSET {"session", "lists", "error"}, "session" \in dirty',
         page'.results # None => NotAfter(shown, page'.results.search, page'.results.revision),
         dirty = {} /\ page.results # None /\ page.session # None /\
             page.session.search = page.results.search =>
           /\ page'.results # None /\ page'.results.search = page.results.search
           /\ page'.session # None => page'.session.search = page.results.search
  PROVE  BrowserInv'
<1>1. /\ polls' = polls \ {p} /\ overtaken' = (overtaken \/ dirty # {})
      /\ UNCHANGED <<visible, shown, timer, detail, loading, banner, request, reply, events,
                     asked>>
  BY DEF PollEnds
<1>2. polls' = {} /\ timer = None
  BY <1>1 DEF BrowserInv, PollInv
<1>3. BrowserTypeOK'
  <2>1. overtaken' \in BOOLEAN  BY <1>1 DEF BrowserInv, BrowserTypeOK
  <2>2. QED  BY <1>1, <1>2, <2>1 DEF BrowserInv, BrowserTypeOK
<1>4. ReplyInv' /\ PageInv(shown)'
  BY <1>1 DEF BrowserInv, ReplyInv, AnswerTrue, PageInv, Settled
<1>5. PollInv'  BY <1>1, <1>2 DEF PollInv
<1>6. CommitInv'  BY <1>1 DEF CommitInv, NotAfter
<1>7. LatestInv'
  <2> SUFFICES ASSUME ~overtaken' PROVE LatestInv'
    BY DEF LatestInv
  <2>1. ~overtaken /\ dirty = {}  BY <1>1
  <2>2. page.session # None
    BY <2>1 DEF BrowserInv, CommitInv, PollInv
  <2>3. page.session \in LiveSession
    BY <2>2 DEF BrowserInv, BrowserTypeOK, Page
  <2>4. page.results = [search |-> page.session.search, revision |-> page.session.revision]
    BY <2>2 DEF BrowserInv, PageInv
  <2>5. page.results \in LiveResults  BY <2>3, <2>4 DEF LiveSession, LiveResults
  <2>6. page.results # None /\ page.session.search = page.results.search
    BY <2>4, <2>5, NoneAssumption
  <2>7. /\ page'.results # None /\ page'.results.search = page.results.search
        /\ page'.session # None => page'.session.search = page.results.search
    BY <2>1, <2>2, <2>6
  <2>8. InFlight' = InFlight  BY <1>1 DEF InFlight
  <2>9. QED  BY <1>1, <2>1, <2>2, <2>6, <2>7, <2>8 DEF BrowserInv, LatestInv
<1>8. QED  BY <1>3, <1>4, <1>5, <1>6, <1>7 DEF BrowserInv

LEMMA PollAnsweredKeeps ==
  ASSUME BrowserInv, NEW p \in polls, PollAnswered(p)
  PROVE  BrowserInv'
<1>1. PICK s \in Searches, answer \in Answer : s = p.search /\ answer = p.answer
  BY DEF BrowserInv, BrowserTypeOK, PollAnswered
<1>2. page \in Page /\ dirty \in SUBSET {"session", "lists", "error"}
  BY DEF BrowserInv, BrowserTypeOK
<1>3. PICK mode \in Mode, selected \in BOOLEAN :
        /\ PollEnds(p) /\ dirty' = dirty \cup {"session", "lists"}
        /\ page' = [page EXCEPT !.mode = mode, !.selected = selected,
                        !.results = [search |-> s, revision |-> answer.revision],
                        !.session = SessionOf(s, answer)]
  <2>1. page.mode \in Mode /\ (page.selected /\ ~(p.mode = "live")) \in BOOLEAN
    BY <1>2 DEF Page
  <2>2. page' = [page EXCEPT !.mode = page.mode,
                    !.selected = page.selected /\ ~(p.mode = "live"),
                    !.results = [search |-> s, revision |-> answer.revision],
                    !.session = SessionOf(s, answer)]
    BY <1>1, <1>2 DEF PollAnswered, Queue, Apply, Page
  <2>3. QED  BY <2>1, <2>2 DEF PollAnswered, Queue
<1>4. /\ page' \in Page
      /\ page'.results = [search |-> s, revision |-> answer.revision]
      /\ page'.session = SessionOf(s, answer)
  BY <1>2, <1>3, ApplyTypes DEF Page
<1>5. /\ page'.results # None /\ page'.results.search = s
      /\ page'.results.revision = answer.revision
      /\ page'.session # None /\ page'.session.search = s
      /\ page'.session.revision = answer.revision
      /\ page'.session.enrichment = answer.enrichment
  BY <1>4, AnswerFacts
<1>6. /\ AnswerTrue(s, answer) /\ NotAfter(shown, s, answer.revision)
      /\ shown.session # None /\ s = shown.session.search
  BY <1>1 DEF BrowserInv, PollInv
<1>7. request[s] = "answered"
  <2>1. shown.session \in LiveSession  BY <1>6 DEF BrowserInv, BrowserTypeOK, Page
  <2>2. shown.results = [search |-> shown.session.search, revision |-> shown.session.revision]
    BY <1>6 DEF BrowserInv, PageInv
  <2>3. shown.results # None
    BY <2>1, <2>2, NoneAssumption DEF LiveSession, LiveResults
  <2>4. QED  BY <1>6, <2>2, <2>3 DEF BrowserInv, PageInv
<1>8. UNCHANGED <<visible, request>>  BY <1>3 DEF PollEnds
<1>9. PageInv(page)'
  BY <1>4, <1>5, <1>6, <1>7, <1>8 DEF PageInv, AnswerTrue, Settled
<1>10. dirty = {} /\ page.session # None => page.session.search = s
  BY <1>6 DEF BrowserInv, CommitInv
<1>11. "session" \in dirty' /\ dirty' \in SUBSET {"session", "lists", "error"}
  BY <1>2, <1>3
<1>12. NotAfter(shown, page'.results.search, page'.results.revision)
  BY <1>5, <1>6
<1>13. QED  BY <1>3, <1>4, <1>5, <1>9, <1>10, <1>11, <1>12, PollEndsKeeps

LEMMA PollFailsKeeps ==
  ASSUME BrowserInv, NEW p \in polls, PollFails(p)
  PROVE  BrowserInv'
<1>1. /\ PollEnds(p) /\ dirty' = dirty \cup {"session"}
      /\ page' = IF page.session = None THEN page
                 ELSE [page EXCEPT !.session.status = "ready",
                                   !.session.enrichment = "failed"]
  BY DEF PollFails
<1>2. page \in Page /\ dirty \in SUBSET {"session", "lists", "error"}
  BY DEF BrowserInv, BrowserTypeOK
<1>3. /\ page' \in Page /\ page'.results = page.results
      /\ page.session = None => page'.session = None
      /\ page.session # None =>
           /\ page'.session # None /\ page'.session.search = page.session.search
           /\ page'.session.revision = page.session.revision
           /\ page'.session.enrichment = "failed"
  <2>1. CASE page.session = None  BY <1>1, <1>2, <2>1
  <2>2. CASE page.session # None
    <3> DEFINE failed == [page.session EXCEPT !.status = "ready", !.enrichment = "failed"]
    <3>1. page.session \in LiveSession  BY <1>2, <2>2 DEF Page
    <3>2. failed \in LiveSession /\ failed.search = page.session.search
          /\ failed.revision = page.session.revision /\ failed.enrichment = "failed"
      BY <3>1 DEF LiveSession
    <3>3. failed # None  BY <3>2, NoneAssumption
    <3>4. page' = [page EXCEPT !.session = failed]
      BY <1>1, <1>2, <2>2 DEF Page, LiveSession
    <3> HIDE DEF failed
    <3>5. page' \in Page /\ page'.results = page.results /\ page'.session = failed
      BY <1>2, <3>2, <3>4 DEF Page
    <3>6. QED  BY <2>2, <3>2, <3>3, <3>5
  <2>3. QED  BY <2>1, <2>2
<1>4. UNCHANGED <<visible, request, shown>>  BY <1>1 DEF PollEnds
<1>5. PageInv(page)'
  BY <1>3, <1>4 DEF BrowserInv, PageInv, Settled
<1>6. "session" \in dirty' /\ dirty' \in SUBSET {"session", "lists", "error"}
  BY <1>1, <1>2
<1>7. page'.results # None => NotAfter(shown, page'.results.search, page'.results.revision)
  BY <1>3 DEF BrowserInv, CommitInv
<1>8. QED  BY <1>1, <1>3, <1>5, <1>6, <1>7, PollEndsKeeps

LEMMA BrowserNextKeeps == BrowserInv /\ [BrowserNext]_browserVars => BrowserInv'
<1> SUFFICES ASSUME BrowserInv, [BrowserNext]_browserVars PROVE BrowserInv'
  OBVIOUS
<1>1. CASE ServerStep
  BY <1>1, ServeSearchKeeps, SettlesOrCloses, ServePollKeeps DEF ServerStep
<1>2. CASE UserStep
  BY <1>2, ClicksKeep, RequestsKeep DEF UserStep
<1>3. CASE AnswerStep
  BY <1>3, AnswersKeep, ClicksKeep DEF AnswerStep
<1>4. CASE PollStep
  BY <1>4, PollFiresKeeps, PollAnsweredKeeps, PollFailsKeeps DEF PollStep
<1>5. CASE Commit  BY <1>5, CommitKeeps
<1>6. CASE UNCHANGED browserVars  BY <1>6, ClicksKeep
<1>7. QED  BY <1>1, <1>2, <1>3, <1>4, <1>5, <1>6 DEF BrowserNext

----------------------------------------------------------------------------
(* The invariant holds, types included: one poll at a time, of the session *)
(* that is rendered, whatever is queued, clicked or answered (App.tsx).    *)
THEOREM BrowserInvariant == BrowserSpec => []BrowserInv
<1>1. BrowserInit => BrowserInv  BY BrowserInitInv
<1>2. BrowserInv /\ [BrowserNext]_browserVars => BrowserInv'  BY BrowserNextKeeps
<1>3. QED  BY <1>1, <1>2, PTL DEF BrowserSpec

(* The state of the page keeps its types.                                  *)
THEOREM BrowserTypes == BrowserSpec => []BrowserTypeOK
<1>1. BrowserInv => BrowserTypeOK  BY DEF BrowserInv
<1>2. QED  BY <1>1, BrowserInvariant, PTL

(* Unless updates overtook each other, what is rendered are the results of *)
(* the search that was asked for last, and the session that is polled is   *)
(* theirs (App.tsx, the disabled forms and the cleanup of the poll effect). *)
THEOREM NewestIsShown == BrowserSpec => []NewestShown
<1>1. BrowserInv => NewestShown
  BY DEF BrowserInv, NewestShown, LatestInv, CommitInv
<1>2. QED  BY <1>1, BrowserInvariant, PTL

(* What the banner says of a session is about the list below it (App.tsx,  *)
(* applyLiveResponse and loadPublishedCatalog).                            *)
THEOREM SessionIsOfResults == BrowserSpec => []SessionOfResults
<1>1. BrowserInv => SessionOfResults
  BY DEF BrowserInv, SessionOfResults, PageInv
<1>2. QED  BY <1>1, BrowserInvariant, PTL

(* What is rendered of a search never goes back to an earlier revision: an *)
(* update is rendered by a commit, and CommitInv orders what is queued.    *)
LEMMA RevisionsStep ==
  ASSUME BrowserInv, [BrowserNext]_browserVars,
         shown.results # None, shown'.results # None,
         shown'.results.search = shown.results.search
  PROVE  shown'.results.revision >= shown.results.revision
<1>1. shown \in Page /\ page \in Page  BY DEF BrowserInv, BrowserTypeOK
<1>2. shown.results.revision \in 0..1 /\ (page.results # None => page.results.revision \in 0..1)
  BY <1>1 DEF Page, LiveResults
<1>3. CASE shown'.results = shown.results  BY <1>2, <1>3
<1>4. CASE Commit
  <2>1. shown' = page  BY <1>4 DEF Commit
  <2>2. QED  BY <1>2, <2>1 DEF BrowserInv, CommitInv, NotAfter
<1>5. CASE UserStep
  <2>1. ASSUME NEW mode \in Mode, SwitchMode(mode) PROVE shown'.results = shown.results
    BY <1>1, <2>1 DEF SwitchMode, Click, Page
  <2>2. ASSUME BackToLive \/ SelectGym PROVE shown'.results = shown.results
    BY <1>1, <2>2 DEF BackToLive, SelectGym, Click, Page
  <2>3. QED
    BY <1>3, <1>5, <2>1, <2>2 DEF UserStep, Edit, EditFilters, Dismiss, SubmitInvalid,
       SubmitSearch, RetrySearch, SubmitLoad, RetryLoad, Send
<1>6. CASE ServerStep
  BY <1>3, <1>6 DEF ServerStep, ServeSearch, ServerSettles, ServerCloses, ServePoll,
     BrowserUnchanged
<1>7. CASE AnswerStep
  BY <1>3, <1>7 DEF AnswerStep, SearchAnswered, LoadAnswered, RequestFails, BootAnswered,
     BootFails, Ended, DetailAnswered, DetailFails
<1>8. CASE PollStep
  BY <1>3, <1>8 DEF PollStep, PollFires, PollAnswered, PollFails, PollEnds
<1>9. CASE UNCHANGED browserVars  BY <1>3, <1>9 DEF browserVars
<1>10. QED  BY <1>4, <1>5, <1>6, <1>7, <1>8, <1>9 DEF BrowserNext

(* However late its polls are answered, the page does not go back to an    *)
(* earlier revision of a search (App.tsx, the abort of the poll effect).   *)
THEOREM RevisionsOnlyAdvance == BrowserSpec => RevisionsAdvance
<1>1. BrowserInv /\ [BrowserNext]_browserVars =>
        [shown.results # None /\ shown'.results # None
           /\ shown'.results.search = shown.results.search
         => shown'.results.revision >= shown.results.revision]_browserVars
  BY RevisionsStep
<1>2. QED  BY <1>1, BrowserInvariant, PTL DEF BrowserSpec, RevisionsAdvance
----------------------------------------------------------------------------
(* The polling of a session that is enriching never stops by itself.       *)

LEMMA PollEffectDrives ==
  ASSUME NEW sh \in Page, shown' = sh, PollEffect(sh)
  PROVE  RefreshIsDriven'
<1>1. sh.session # None => sh.session.search \in Searches /\ sh.mode \in Mode
  BY DEF Page, LiveSession
<1>2. Enriching(sh.session) => timer' # None
  <2>1. ASSUME Enriching(sh.session)
        PROVE  [search |-> sh.session.search, mode |-> sh.mode] \in [search : Searches, mode : Mode]
    BY <1>1, <2>1 DEF Enriching
  <2>2. QED  BY <2>1, NoneAssumption DEF PollEffect
<1>3. ~Enriching(sh.session) => timer' = None
  BY DEF PollEffect
<1>4. polls' = {}
  BY DEF PollEffect
<1>5. QED  BY <1>2, <1>3, <1>4 DEF RefreshIsDriven

(* A step that leaves the poll alone and what is to be rendered of it.     *)
LEMMA IdleStepDrives ==
  ASSUME BrowserInv, RefreshIsDriven, UNCHANGED <<shown, timer>>,
         polls' = {} <=> polls = {},
         dirty # {} => dirty' # {}
  PROVE  RefreshIsDriven'
BY DEF RefreshIsDriven

LEMMA DriveKeeps ==
  BrowserInv /\ RefreshIsDriven /\ [BrowserNext]_browserVars => RefreshIsDriven'
<1> SUFFICES ASSUME BrowserInv, RefreshIsDriven, [BrowserNext]_browserVars
             PROVE  RefreshIsDriven'
  OBVIOUS
<1>1. BrowserInv'
  BY BrowserNextKeeps
<1>2. page \in Page /\ shown \in Page /\ shown' \in Page
  BY <1>1 DEF BrowserInv, BrowserTypeOK
<1>3. /\ dirty # {} => "session" \in dirty
      /\ dirty # {} => "session" \in dirty \ {"error"}
  BY DEF BrowserInv, CommitInv
<1>4. CASE ServerStep
  <2>1. UNCHANGED <<shown, timer, dirty>>
    BY <1>4 DEF ServerStep, ServeSearch, ServerSettles, ServerCloses, ServePoll,
                BrowserUnchanged
  <2>2. polls' = {} <=> polls = {}
    BY <1>4 DEF ServerStep, ServeSearch, ServerSettles, ServerCloses, ServePoll
  <2>3. QED  BY <1>3, <2>1, <2>2, IdleStepDrives
<1>5. CASE \/ Edit \/ \E mode \in Mode : SwitchMode(mode)
           \/ BackToLive \/ SelectGym
  <2>1. PollEffect(shown')
    BY <1>5 DEF Edit, SwitchMode, BackToLive, SelectGym, Click
  <2>2. QED  BY <1>2, <2>1, PollEffectDrives
<1>6. CASE \/ EditFilters \/ Dismiss \/ SubmitInvalid \/ DetailAnswered \/ DetailFails
           \/ \E s \in Searches : SubmitSearch(s) \/ RetrySearch(s)
           \/ \E l \in Loads : SubmitLoad(l) \/ RetryLoad(l)
           \/ UNCHANGED browserVars
  <2>1. UNCHANGED <<shown, timer, polls>>
    BY <1>6 DEF EditFilters, Clicks, Dismiss, SubmitInvalid, DetailAnswered, DetailFails,
                SubmitSearch, RetrySearch, SubmitLoad, RetryLoad, Send, browserVars
  <2>2. dirty' = dirty \/ dirty' = dirty \ {"error"}
    BY <1>6 DEF EditFilters, Clicks, Dismiss, SubmitInvalid, DetailAnswered, DetailFails,
                SubmitSearch, RetrySearch, SubmitLoad, RetryLoad, Send, browserVars
  <2>3. QED  BY <1>3, <2>1, <2>2, IdleStepDrives
<1>7. CASE \/ \E s \in Searches : SearchAnswered(s)
           \/ \E l \in Loads : LoadAnswered(l)
           \/ \E r \in Searches \cup Loads : RequestFails(r)
           \/ \E catalog \in BOOLEAN : BootAnswered(catalog) \/ BootFails(catalog)
  <2>1. UNCHANGED <<shown, timer, polls>>
    BY <1>7 DEF SearchAnswered, LoadAnswered, RequestFails, BootAnswered, BootFails, Ended
  <2>2. dirty # {} => "session" \in dirty'
    BY <1>3, <1>7 DEF SearchAnswered, LoadAnswered, RequestFails, BootAnswered, BootFails,
                      Queue
  <2>3. QED  BY <2>1, <2>2, IdleStepDrives
<1>8. CASE PollFires
  <2>1. timer # None /\ polls' # {} /\ timer' = None /\ UNCHANGED <<shown, dirty>>
    BY <1>8 DEF PollFires
  <2>2. QED  BY <2>1 DEF RefreshIsDriven
<1>9. CASE \E p \in polls : PollAnswered(p) \/ PollFails(p)
  <2>1. polls # {} /\ polls' \in SUBSET polls /\ UNCHANGED <<shown, timer>>
    BY <1>9 DEF PollAnswered, PollFails, PollEnds
  <2>2. "session" \in dirty'
    BY <1>9 DEF PollAnswered, PollFails, Queue
  <2>3. QED  BY <2>1, <2>2 DEF RefreshIsDriven
<1>10. CASE Commit
  <2>1. shown' = page /\ PollEffect(page)
    BY <1>10 DEF Commit
  <2>2. QED  BY <1>2, <2>1, PollEffectDrives
<1>11. QED
  BY <1>4, <1>5, <1>6, <1>7, <1>8, <1>9, <1>10
     DEF BrowserNext, UserStep, AnswerStep, PollStep

(* A page that says it is refreshing has the next poll before it, in       *)
(* flight, or an update to render that starts the effect again; and no     *)
(* other page polls.                                                       *)
THEOREM RefreshDriven == BrowserSpec => []RefreshIsDriven
<1>1. BrowserInit => RefreshIsDriven
  BY DEF BrowserInit, RefreshIsDriven, FirstPage, Enriching
<1>2. QED
  BY <1>1, DriveKeeps, BrowserInvariant, PTL DEF BrowserSpec

----------------------------------------------------------------------------
(* The server that the page talks to is one of the contract of sessions.   *)

(* The step of one session is a step of the contract.                      *)
LEMMA ContractStep ==
  ASSUME BrowserTypeOK, NEW s \in Searches, NEW answer, Becomes(s, answer),
         Contract!Open(s) \/ Contract!Settle(s) \/ Contract!Close(s)
  PROVE  Contract!Next
<1>1. visible' = [visible EXCEPT ![s] = answer] /\ DOMAIN visible = Searches
  BY DEF Becomes, BrowserTypeOK
<1>2. visible' = [t \in Searches |-> visible'[t]]
  BY <1>1
<1>3. \A t \in Searches : t # s => visible'[t] = visible[t]
  BY <1>1
<1>4. QED  BY <1>2, <1>3 DEF Contract!Next

LEMMA ServerSteps ==
  ASSUME BrowserTypeOK, [BrowserNext]_browserVars
  PROVE  [Contract!Next]_visible
<1>1. CASE \E s \in Searches : ServeSearch(s) \/ ServerSettles(s) \/ ServerCloses(s)
  BY <1>1, ContractStep DEF ServeSearch, ServerSettles, ServerCloses
<1>2. CASE \E p \in polls : ServePoll(p)  BY <1>2 DEF ServePoll
<1>3. CASE UserStep
  BY <1>3 DEF UserStep, Edit, EditFilters, SwitchMode, BackToLive, SelectGym, Click, Clicks,
     Dismiss, SubmitInvalid, SubmitSearch, RetrySearch, SubmitLoad, RetryLoad, Send
<1>4. CASE AnswerStep
  BY <1>4 DEF AnswerStep, SearchAnswered, LoadAnswered, RequestFails, BootAnswered,
     BootFails, Ended, DetailAnswered, DetailFails
<1>5. CASE PollStep
  BY <1>5 DEF PollStep, PollFires, PollAnswered, PollFails, PollEnds
<1>6. CASE Commit  BY <1>6 DEF Commit
<1>7. CASE UNCHANGED browserVars  BY <1>7 DEF browserVars
<1>8. QED  BY <1>1, <1>2, <1>3, <1>4, <1>5, <1>6, <1>7 DEF BrowserNext, ServerStep

(* What the page assumes of the server is the contract that the live       *)
(* search implements (StoreImplementsContract): nothing that a page does   *)
(* in between changes a session of the server (App.tsx only reads them).   *)
THEOREM ServerKeepsContract == BrowserSpec => Contract!Spec
<1>1. BrowserInit => Contract!Init  BY DEF BrowserInit, Contract!Init
<1>2. QED  BY <1>1, ServerSteps, BrowserTypes, PTL DEF BrowserSpec, Contract!Spec

=============================================================================
