---------------------------- MODULE SmartInsights ----------------------------
(***************************************************************************)
(* views/smart-insights/index.vue: a page of sections that are loaded      *)
(* together, reloaded when the language or the account changes, retried    *)
(* one by one, cached, and, for shared research, polled while a report is  *)
(* pending.  Every load carries a token: the page's requestSequence, and   *)
(* the section's newest request.                                           *)
(*                                                                         *)
(* A step is one macrotask of the page: what runs up to the next await     *)
(* that leaves the browser.  A request is answered in any order, or fails. *)
(***************************************************************************)
EXTENDS Naturals, FiniteSets

CONSTANTS
    Languages,
    None,
    MaxSteps,      \* bound: reloads, retries, visits and intervals
    MaxSent,       \* bound: requests in flight when one of them happens
    MaxFailures    \* bound: requests that fail

Sections == {"opinions", "overview", "calendar"}
Spinners == Sections \cup {"dates"}
Cells == {"overview", "calendar"}

Newest == "newest date"         \* dates[0]
Dates == {None, Newest}
Keys == Dates \X Languages      \* cacheKey: asOf and the language

VARIABLES
    mounted, guest, lang, asOf,
    requestSequence,    \* the newest load of the whole page
    sectionRequests,    \* the newest token of each section
    issued,             \* tokens created so far
    shown,              \* what each cell shows: the request it answers
    loading,            \* the spinners on the screen
    datesCached, cache, \* smartInsightsCache
    calendarFresh,      \* the cached calendar is under five minutes old
    states,             \* sharedResearchStates: none, pending or done
    timer, inFlight,    \* shared report polling
    sent,               \* requests whose promise has not settled
    steps, failures

pageVars == <<requestSequence, sectionRequests, issued>>
cacheVars == <<datesCached, cache, calendarFresh>>
pollVars == <<states, timer, inFlight>>
selection == <<mounted, guest, lang, asOf>>
vars == <<selection, pageVars, shown, loading, cacheVars, pollVars, sent,
          steps, failures>>

(* A request: what it asks, under which token and page, for what selection. *)
Request(what, section, token, page, a, l, g, force) ==
    [what |-> what, section |-> section, token |-> token, page |-> page,
     asOf |-> a, lang |-> l, guest |-> g, force |-> force]

(* dates and the polled states carry the number of the page, no token.     *)
(* Mutant: the section's newest token is not looked at.                    *)
IsCurrentPage(r) == r.page = requestSequence

IsCurrentRequest(r) ==
    /\ r.page = requestSequence
    /\ r.section # "page" => sectionRequests[r.section] = r.token

Value(r) == [token |-> r.token, asOf |-> r.asOf, lang |-> r.lang,
             guest |-> r.guest]
Nothing == [token |-> 0, asOf |-> None, lang |-> None, guest |-> FALSE]
-----------------------------------------------------------------------------
(* The loaders, as changes of what the page shows, loads and has sent.     *)
Hit(r) ==
    /\ ~r.force
    /\ cache[r.what][<<r.asOf, r.lang>>] # Nothing
    /\ r.what = "calendar" => calendarFresh

Cached(r) == [cache[r.what][<<r.asOf, r.lang>>] EXCEPT !.token = r.token]

LoadCell(x, r) ==
    IF Hit(r) THEN [x EXCEPT !.shown[r.what] = Cached(r)]
    ELSE [x EXCEPT !.sent = @ \cup {r}, !.loading = @ \cup {r.section}]

Becomes(x) == shown' = x.shown /\ loading' = x.loading /\ sent' = x.sent

(* loadAll: a new page, new tokens for all sections, everything cleared.   *)
LoadAll(g, l, a, known, force) ==
    LET page == requestSequence + 1
        needsDates == force \/ ~known
        date == IF needsDates \/ a # None THEN a ELSE Newest
        R(what, section, n) ==
            Request(what, section, issued + n, page, date, l, g, force)
        opinions == R(IF g THEN "public" ELSE "shared", "opinions", 1)
        dates == Request("dates", "page", 0, page, a, l, g, force)
        cleared == [shown |-> [c \in Cells |-> Nothing],
                    loading |-> {"opinions"} \cup
                                (IF needsDates THEN {"dates"} ELSE {}),
                    sent |-> sent \cup {opinions} \cup
                             (IF needsDates THEN {dates} ELSE {})]
        overview == LoadCell(cleared, R("overview", "overview", 2))
    IN  /\ requestSequence' = page
        /\ issued' = issued + 3
        /\ sectionRequests' = [opinions |-> issued + 1, overview |-> issued + 2,
                               calendar |-> issued + 3]
        /\ asOf' = date
        /\ Becomes(LoadCell(overview, R("calendar", "calendar", 3)))
-----------------------------------------------------------------------------
(* What happens to the page.                                               *)
Counted ==
    /\ steps < MaxSteps /\ steps' = steps + 1
    /\ Cardinality(sent) <= MaxSent
    /\ UNCHANGED failures

Step == mounted /\ Counted

(* Mutant: the reload for another language stops the polling.              *)
SetLocaleUnpolled(l) ==
    /\ Step /\ l # lang
    /\ lang' = l
    /\ timer' = FALSE /\ inFlight' = FALSE
    /\ LoadAll(guest, l, asOf, datesCached, FALSE)
    /\ UNCHANGED <<mounted, guest, cacheVars, states>>

(* Mutant: the new language does not start a new page.                     *)
SetLocaleInPlace(l) ==
    /\ Step /\ l # lang
    /\ lang' = l
    /\ UNCHANGED <<mounted, guest, asOf, pageVars, shown, loading, sent,
                   cacheVars, pollVars>>

SetLocale(l) ==
    /\ Step /\ l # lang
    /\ lang' = l
    /\ LoadAll(guest, l, asOf, datesCached, FALSE)
    /\ UNCHANGED <<mounted, guest, cacheVars, pollVars>>

(* The isGuest watcher: another account must not see this one's data.      *)
(* Mutant: the overview cache outlives the account it was filled for.      *)
SignInOrOutCached ==
    /\ Step
    /\ guest' = ~guest
    /\ states' = "none" /\ timer' = FALSE /\ inFlight' = FALSE
    /\ datesCached' = FALSE
    /\ LoadAll(~guest, lang, None, FALSE, TRUE)
    /\ UNCHANGED <<mounted, lang, cache, calendarFresh>>

SignInOrOut ==
    /\ Step
    /\ guest' = ~guest
    /\ states' = "none" /\ timer' = FALSE /\ inFlight' = FALSE
    /\ datesCached' = FALSE
    /\ cache' = [cache EXCEPT !["overview"] = [k \in Keys |-> Nothing]]
    /\ LoadAll(~guest, lang, None, FALSE, TRUE)
    /\ UNCHANGED <<mounted, lang, calendarFresh>>

Retry(section, r) ==
    /\ issued' = issued + 1
    /\ sectionRequests' = [sectionRequests EXCEPT ![section] = issued + 1]
    /\ Becomes([shown |-> shown, loading |-> loading \cup {section},
                sent |-> sent \cup {r}])
    /\ UNCHANGED <<selection, requestSequence, cacheVars, pollVars>>

RetryRequest(what, section) ==
    Request(what, section, issued + 1, requestSequence, asOf, lang, guest, TRUE)

(* The refresh of the opinions reloads the overview, under their token; the *)
(* button waits for both, an addition to the watchlist for neither.        *)
RetryOpinions ==
    /\ Step
    /\ guest => loading \cap {"opinions", "overview"} = {}
    /\ Retry("opinions", RetryRequest("overview", "opinions"))

RetryCalendar ==
    /\ Step
    /\ Retry("calendar", RetryRequest("calendar", "calendar"))

BeforeDestroy ==
    /\ Step
    /\ mounted' = FALSE
    /\ requestSequence' = requestSequence + 1
    /\ timer' = FALSE /\ inFlight' = FALSE
    /\ UNCHANGED <<guest, lang, asOf, sectionRequests, issued, shown, loading,
                   cacheVars, states, sent>>

CalendarExpires ==
    /\ calendarFresh
    /\ calendarFresh' = FALSE
    /\ UNCHANGED <<selection, pageVars, shown, loading, datesCached, cache,
                   pollVars, sent, steps, failures>>
-----------------------------------------------------------------------------
(* Shared report polling.                                                  *)
Pending(state) == ~guest /\ state = "pending"

(* The interval: refreshPendingSharedReports.                              *)
Poll ==
    /\ timer /\ ~inFlight
    /\ Counted
    /\ IF Pending(states)
       THEN /\ inFlight' = TRUE
            /\ sent' = sent \cup {Request("polled", "page", 0, requestSequence,
                                          asOf, lang, guest, FALSE)}
            /\ UNCHANGED timer
       ELSE timer' = FALSE /\ inFlight' = FALSE /\ UNCHANGED sent
    /\ UNCHANGED <<selection, pageVars, shown, loading, cacheVars, states>>

(* loadSharedResearchReports from the page, which then synchronises the    *)
(* timer with what it learnt.                                              *)
Sync(state) == timer' = Pending(state)

SharedAnswered(r, state) ==
    IF IsCurrentRequest(r) /\ ~guest
    THEN /\ states' = state
         /\ Sync(state)
         /\ inFlight' = (inFlight /\ Pending(state))
    ELSE UNCHANGED pollVars

(* From the interval: the finally block runs whether it is current or not. *)
PolledAnswered(r, state) ==
    /\ states' = IF IsCurrentRequest(r) /\ ~guest THEN state ELSE states
    /\ Sync(states')
    /\ inFlight' = FALSE
-----------------------------------------------------------------------------
(* The continuation of a request that is answered.                         *)
(* Mutant: the spinner of the dates is left on the screen.                 *)
SettledWithoutDates(r) ==
    IF IsCurrentRequest(r) /\ r.what # "polled"
    THEN loading \ {r.section}
    ELSE loading

Settled(r) ==
    IF IsCurrentRequest(r) /\ r.what # "polled"
    THEN loading \ {IF r.what = "dates" THEN "dates" ELSE r.section}
    ELSE loading

View(r) == [shown |-> shown, loading |-> Settled(r), sent |-> sent \ {r}]

Filed(r) ==
    CASE r.what = "overview" ->
            [cache EXCEPT !["overview"][<<r.asOf, r.lang>>] = Value(r)]
      [] r.what = "calendar" ->
            [cache EXCEPT !["calendar"] =
                [k \in Keys |-> IF k = <<r.asOf, r.lang>> THEN Value(r)
                                ELSE Nothing]]

CellAnswered(r) ==
    /\ r.what \in Cells
    /\ IF IsCurrentRequest(r)
       THEN /\ cache' = Filed(r)
            /\ calendarFresh' = (calendarFresh \/ r.what = "calendar")
            /\ Becomes([View(r) EXCEPT !.shown[r.what] = Value(r)])
       ELSE Becomes(View(r)) /\ UNCHANGED <<cache, calendarFresh>>
    /\ UNCHANGED <<asOf, datesCached, pollVars>>

DatesAnswered(r) ==
    /\ r.what = "dates"
    /\ IF IsCurrentRequest(r)
       THEN datesCached' = TRUE /\ asOf' = IF asOf = None THEN Newest ELSE asOf
       ELSE UNCHANGED <<datesCached, asOf>>
    /\ Becomes(View(r))
    /\ UNCHANGED <<cache, calendarFresh, pollVars>>

OpinionsAnswered(r) ==
    /\ \/ r.what = "public" /\ UNCHANGED pollVars
       \/ r.what = "shared" /\ \E s \in {"pending", "done"} : SharedAnswered(r, s)
       \/ r.what = "polled" /\ \E s \in {"pending", "done"} : PolledAnswered(r, s)
    /\ Becomes(View(r))
    /\ UNCHANGED <<asOf, cacheVars>>

Answer(r) ==
    /\ CellAnswered(r) \/ DatesAnswered(r) \/ OpinionsAnswered(r)
    /\ UNCHANGED <<mounted, guest, lang, pageVars, steps, failures>>

(* A failed calendar is emptied; a failed overview stays as it is.         *)
Fail(r) ==
    /\ failures < MaxFailures /\ failures' = failures + 1
    /\ Becomes(IF r.what = "calendar" /\ IsCurrentRequest(r)
               THEN [View(r) EXCEPT !.shown["calendar"] = Nothing]
               ELSE View(r))
    /\ IF r.what = "polled" THEN PolledAnswered(r, states)
                            ELSE UNCHANGED pollVars
    /\ UNCHANGED <<selection, pageVars, cacheVars, steps>>
-----------------------------------------------------------------------------
(* mounted: the first loadAll finds nothing cached.                        *)
Init ==
    /\ mounted = TRUE /\ guest \in BOOLEAN /\ lang \in Languages /\ asOf = None
    /\ requestSequence = 0
    /\ sectionRequests = [s \in Sections |-> 0]
    /\ issued = 0
    /\ shown = [c \in Cells |-> Nothing]
    /\ loading = {}
    /\ datesCached = FALSE
    /\ cache = [s \in Cells |-> [k \in Keys |-> Nothing]]
    /\ calendarFresh = FALSE
    /\ states = "none" /\ timer = FALSE /\ inFlight = FALSE
    /\ sent = {} /\ steps = 0 /\ failures = 0

Mounted ==
    /\ requestSequence = 0
    /\ LoadAll(guest, lang, asOf, datesCached, FALSE)
    /\ UNCHANGED <<mounted, guest, lang, cacheVars, pollVars, steps, failures>>

Reload == SignInOrOut \/ \E l \in Languages : SetLocale(l)

Next ==
    \/ Mounted
    \/ requestSequence > 0 /\ Reload
    \/ requestSequence > 0 /\ (RetryOpinions \/ RetryCalendar \/ BeforeDestroy)
    \/ CalendarExpires \/ Poll
    \/ \E r \in sent : Answer(r) \/ Fail(r)

(* The browser settles every request.                                      *)
Spec == Init /\ [][Next]_vars /\ WF_vars(Mounted)
             /\ WF_vars(\E r \in sent : Answer(r))
-----------------------------------------------------------------------------
(* Whatever was in flight when the reader changed the language or signed   *)
(* in or out, the page shows the overview and the calendar of the present  *)
(* language, and the overview of the present account.                      *)
ShowsSelection ==
    /\ \A c \in {"overview", "calendar"} :
         shown[c] # Nothing => shown[c].lang = lang
    /\ shown["overview"] # Nothing => shown["overview"].guest = guest

(* A cached answer was asked for the date and language it is filed under,  *)
(* and a cached overview for the account that can be served from it.       *)
CacheMatchesKey ==
    /\ \A s \in Cells, k \in Keys :
         cache[s][k] # Nothing =>
             cache[s][k].asOf = k[1] /\ cache[s][k].lang = k[2]
    /\ \A k \in Keys : cache["overview"][k] # Nothing =>
                           cache["overview"][k].guest = guest

(* While a shared report is known to be pending, its state is polled.      *)
PendingReportsArePolled ==
    mounted /\ Pending(states) => timer

(* No spinner of the page turns for ever, whichever request its section    *)
(* was waiting for was overtaken or failed.                                *)
SpinnersEnd ==
    \A s \in Spinners : s \in loading /\ mounted ~> s \notin loading \/ ~mounted

(* The calendar keeps the promise of a view that can be asked again, over  *)
(* reloads of the page, retries, its interval and its cache.               *)
Calendar == INSTANCE LatestAnswer
    WITH asked <- sectionRequests["calendar"], shown <- shown["calendar"].token
CalendarShowsLatest == Calendar!Spec
=============================================================================
