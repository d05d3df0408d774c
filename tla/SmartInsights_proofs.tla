------------------------ MODULE SmartInsights_proofs -------------------------
(***************************************************************************)
(* The calendar of the page implements LatestAnswer: over any number of    *)
(* reloads, retries and requests in flight, an answer that was overtaken   *)
(* is not shown.  The argument: tokens are never issued twice, so the      *)
(* newest question is always a new one, and what is put on the screen      *)
(* carries the token its section holds, a cached calendar included.        *)
(*                                                                         *)
(* What a loaded section shows is of the day, language and kind of user    *)
(* the page has selected, and so is what the cache hands out: an answer    *)
(* carries what its request asked for, and a request of the present token  *)
(* asked for the present selection (SelectionInv).                         *)
(***************************************************************************)
EXTENDS SmartInsights, TLAPS

CellValues == [token : Nat, asOf : Dates, lang : Languages, guest : BOOLEAN]

Requests ==
    [what : {"overview", "calendar", "dates", "public", "shared", "polled"},
     section : Sections \cup {"page"}, token : Nat, page : Nat, asOf : Dates,
     lang : Languages, guest : BOOLEAN, force : BOOLEAN]

(* A request for the calendar is one of the calendar's section.            *)
CalendarAsks(requests) ==
    \A r \in requests : r.what = "calendar" => r.section = "calendar"

PageInv ==
    /\ guest \in BOOLEAN /\ lang \in Languages /\ asOf \in Dates
    /\ datesCached \in BOOLEAN
    /\ requestSequence \in Nat /\ issued \in Nat
    /\ sectionRequests \in [Sections -> 0..issued]
    /\ shown \in [Cells -> CellValues \cup {Nothing}]
    /\ cache \in [Cells -> [Keys -> CellValues \cup {Nothing}]]
    /\ sent \subseteq Requests /\ CalendarAsks(sent)

(* What a loader makes of a request: its cell is answered from the cache   *)
(* under the request's token, or left as it is.                            *)
LEMMA LoadCellShows ==
    ASSUME PageInv, NEW x, x = [shown |-> x.shown, loading |-> x.loading, sent |-> x.sent],
           x.shown \in [Cells -> CellValues \cup {Nothing}],
           NEW r \in Requests, r.what \in Cells
    PROVE  /\ LoadCell(x, r).shown \in [Cells -> CellValues \cup {Nothing}]
           /\ \A c \in Cells : \/ LoadCell(x, r).shown[c] = x.shown[c]
                               \/ c = r.what /\ LoadCell(x, r).shown[c].token = r.token
           /\ LoadCell(x, r).sent \in {x.sent, x.sent \cup {r}}
<1>1. CASE Hit(r)
  <2>1. <<r.asOf, r.lang>> \in Keys
    BY DEF Requests, Keys
  <2> DEFINE v == cache[r.what][<<r.asOf, r.lang>>]
  <2>2. v \in CellValues
    BY <1>1, <2>1 DEF PageInv, Hit
  <2>3. Cached(r) \in CellValues /\ Cached(r).token = r.token
    <3>1. r.token \in Nat
      BY DEF Requests
    <3>2. Cached(r) = [v EXCEPT !.token = r.token]
      BY DEF Cached
    <3> HIDE DEF v
    <3> QED
      BY <2>2, <3>1, <3>2 DEF CellValues
  <2>4. LoadCell(x, r) = [x EXCEPT !.shown[r.what] = Cached(r)]
    BY <1>1 DEF LoadCell
  <2>5. /\ LoadCell(x, r).shown = [x.shown EXCEPT ![r.what] = Cached(r)]
        /\ LoadCell(x, r).sent = x.sent
    BY <2>4
  <2> QED
    BY <2>3, <2>5
<1>2. CASE ~Hit(r)
  <2>1. LoadCell(x, r) = [x EXCEPT !.sent = @ \cup {r}, !.loading = @ \cup {r.section}]
    BY <1>2 DEF LoadCell
  <2> QED
    BY <2>1
<1> QED
  BY <1>1, <1>2

(* A load of the whole page asks under new tokens, and shows a calendar    *)
(* only if it finds one cached.                                            *)
LEMMA LoadAllAsks ==
    ASSUME PageInv, NEW g \in BOOLEAN, NEW l \in Languages, NEW a \in Dates,
           NEW known \in BOOLEAN, NEW force \in BOOLEAN, LoadAll(g, l, a, known, force)
    PROVE  /\ requestSequence' \in Nat /\ issued' = issued + 3
           /\ sectionRequests' \in [Sections -> 0..issued']
           /\ sectionRequests'["calendar"] = issued + 3
           /\ shown' \in [Cells -> CellValues \cup {Nothing}]
           /\ shown'["calendar"].token \in {0, issued + 3}
           /\ asOf' \in Dates
           /\ sent' \subseteq Requests /\ CalendarAsks(sent')
<1> DEFINE page == requestSequence + 1
           needsDates == force \/ ~known
           date == IF needsDates \/ a # None THEN a ELSE Newest
           R(what, section, n) ==
               Request(what, section, issued + n, page, date, l, g, force)
           opinions == R(IF g THEN "public" ELSE "shared", "opinions", 1)
           dates == Request("dates", "page", 0, page, a, l, g, force)
           cleared == [shown |-> [c \in Cells |-> Nothing],
                       loading |-> {"opinions"} \cup
                                   (IF needsDates THEN {"dates"} ELSE {}),
                       sent |-> sent \cup {opinions} \cup
                                (IF needsDates THEN {dates} ELSE {})]
           rO == R("overview", "overview", 2)
           rC == R("calendar", "calendar", 3)
           overview == LoadCell(cleared, rO)
           calendar == LoadCell(overview, rC)
<1>1. /\ requestSequence' = page /\ issued' = issued + 3
      /\ sectionRequests' = [opinions |-> issued + 1, overview |-> issued + 2,
                             calendar |-> issued + 3]
      /\ asOf' = date
      /\ Becomes(calendar)
  BY DEF LoadAll
<1>2. page \in Nat /\ issued \in Nat /\ date \in Dates
  BY DEF PageInv, Dates
<1>3. /\ sectionRequests' \in [Sections -> 0..issued']
      /\ sectionRequests'["calendar"] = issued + 3
  BY <1>1, <1>2 DEF Sections
<1>4. /\ opinions \in Requests /\ opinions.what # "calendar"
      /\ dates \in Requests /\ dates.what # "calendar"
      /\ rO \in Requests /\ rO.what = "overview"
      /\ rC \in Requests /\ rC.what = "calendar" /\ rC.section = "calendar"
      /\ rC.token = issued + 3
  <2> HIDE DEF page, date, needsDates
  <2>1. ASSUME NEW what \in {"overview", "calendar", "dates", "public", "shared"},
               NEW section \in Sections \cup {"page"}, NEW n \in Nat, NEW d \in Dates
        PROVE  Request(what, section, n, page, d, l, g, force) \in Requests
    BY <1>2 DEF Request, Requests
  <2>2. issued + 1 \in Nat /\ issued + 2 \in Nat /\ issued + 3 \in Nat
    BY <1>2
  <2>3. opinions \in Requests /\ dates \in Requests /\ rO \in Requests /\ rC \in Requests
    BY <1>2, <2>1, <2>2 DEF Sections
  <2> QED
    BY <2>3 DEF Request
<1> HIDE DEF opinions, dates, rO, rC, page, date, needsDates
<1> DEFINE L == cleared.loading
<1> DEFINE S == cleared.sent
<1>5. S \subseteq Requests /\ CalendarAsks(S)
  BY <1>4 DEF PageInv, CalendarAsks
<1>6. /\ cleared = [shown |-> cleared.shown, loading |-> cleared.loading, sent |-> cleared.sent]
      /\ cleared.shown \in [Cells -> CellValues \cup {Nothing}]
  OBVIOUS
<1>7. "calendar" \in Cells /\ "overview" \in Cells
  BY DEF Cells
<1>8. cleared.shown["calendar"] = Nothing /\ cleared.sent = S
  BY <1>7
<1> HIDE DEF cleared, L, S
<1>9. /\ overview.shown \in [Cells -> CellValues \cup {Nothing}]
      /\ overview.shown["calendar"] = Nothing
      /\ overview.sent \in {S, S \cup {rO}}
      /\ overview = [shown |-> overview.shown, loading |-> overview.loading,
                      sent |-> overview.sent]
  <2>1. /\ overview.shown \in [Cells -> CellValues \cup {Nothing}]
        /\ overview.shown["calendar"] = Nothing
        /\ overview.sent \in {S, S \cup {rO}}
    BY <1>4, <1>6, <1>7, <1>8, LoadCellShows
  <2>2. \/ \E v : overview = [cleared EXCEPT !.shown = v]
        \/ \E n, u : overview = [cleared EXCEPT !.sent = u, !.loading = n]
    BY DEF LoadCell
  <2> QED
    BY <1>6, <2>1, <2>2
<1> HIDE DEF overview
<1>10. /\ calendar.shown \in [Cells -> CellValues \cup {Nothing}]
       /\ \/ calendar.shown["calendar"] = Nothing
          \/ calendar.shown["calendar"].token = issued + 3
       /\ calendar.sent \in {overview.sent, overview.sent \cup {rC}}
  BY <1>4, <1>7, <1>9, LoadCellShows
<1> HIDE DEF calendar
<1>11. shown' = calendar.shown /\ sent' = calendar.sent
  BY <1>1 DEF Becomes
<1>12. sent' \subseteq Requests /\ CalendarAsks(sent')
  BY <1>4, <1>5, <1>9, <1>10, <1>11 DEF CalendarAsks
<1>13. shown'["calendar"].token \in {0, issued + 3}
  BY <1>10, <1>11 DEF Nothing
<1> QED
  BY <1>1, <1>2, <1>3, <1>10, <1>11, <1>12, <1>13

(* What becomes of a request that is answered or fails.                    *)
LEMMA SettledKeeps ==
    ASSUME PageInv, NEW r \in sent, Becomes(View(r))
    PROVE  shown' = shown /\ sent' = sent \ {r}
BY DEF Becomes, View

(* Nothing is retried, cached or cleared behind the back of the invariant. *)
LEMMA QuietSteps ==
    ASSUME PageInv, UNCHANGED <<selection, pageVars, shown, cache, datesCached>>,
           sent' \subseteq sent
    PROVE  PageInv' /\ UNCHANGED <<sectionRequests, shown>>
BY DEF PageInv, selection, pageVars, CalendarAsks

(* What the steps do to the calendar: it is asked again, answered, emptied *)
(* or left alone.                                                          *)
CalendarAsked ==
    /\ sectionRequests'["calendar"] \in Nat
    /\ sectionRequests'["calendar"] > sectionRequests["calendar"]
    /\ shown'["calendar"].token \in {shown["calendar"].token, 0, sectionRequests'["calendar"]}

CalendarMoves ==
    \/ CalendarAsked
    \/ /\ sectionRequests'["calendar"] = sectionRequests["calendar"]
       /\ shown'["calendar"].token
             \in {shown["calendar"].token, 0, sectionRequests["calendar"]}

(* A load of the whole page asks the calendar.                             *)
LEMMA ReloadKeeps ==
    ASSUME PageInv, Mounted \/ Reload
    PROVE  PageInv' /\ CalendarAsked
<1>0. sectionRequests["calendar"] \in 0..issued /\ issued \in Nat
  BY DEF PageInv, Sections
<1>1. ASSUME NEW g \in BOOLEAN, NEW l \in Languages, NEW a \in Dates,
             NEW known \in BOOLEAN, NEW force \in BOOLEAN,
             LoadAll(g, l, a, known, force), guest' \in BOOLEAN, lang' \in Languages,
             datesCached' \in BOOLEAN,
             cache' \in [Cells -> [Keys -> CellValues \cup {Nothing}]]
      PROVE  PageInv' /\ CalendarAsked
  BY <1>0, <1>1, LoadAllAsks DEF PageInv, CalendarAsked
<1>2. CASE Mounted
  BY <1>1, <1>2 DEF Mounted, PageInv, cacheVars
<1>3. ASSUME NEW l \in Languages, SetLocale(l)
      PROVE  PageInv' /\ CalendarAsked
  BY <1>1, <1>3 DEF SetLocale, PageInv, cacheVars
<1>4. CASE SignInOrOut
  <2>1. cache' \in [Cells -> [Keys -> CellValues \cup {Nothing}]]
    BY <1>4 DEF SignInOrOut, PageInv, Cells
  <2>2. (~guest) \in BOOLEAN /\ FALSE \in BOOLEAN /\ TRUE \in BOOLEAN
    OBVIOUS
  <2>4. None \in Dates /\ lang \in Languages
    BY DEF PageInv, Dates
  <2>3. LoadAll(~guest, lang, None, FALSE, TRUE) /\ guest' = ~guest /\ lang' = lang
        /\ datesCached' = FALSE
    BY <1>4 DEF SignInOrOut
  <2> QED
    BY <1>1, <2>1, <2>2, <2>3, <2>4
<1> QED
  BY <1>2, <1>3, <1>4 DEF Reload

(* A retry asks the calendar, or leaves it alone.                          *)
LEMMA RetryKeeps ==
    ASSUME PageInv, RetryOpinions \/ RetryCalendar
    PROVE  PageInv' /\ CalendarMoves
<1>0. sectionRequests["calendar"] \in 0..issued /\ issued \in Nat
  BY DEF PageInv, Sections
<1>1. ASSUME NEW what \in {"overview", "calendar"}, NEW section \in Sections,
             what = "calendar" => section = "calendar",
             Retry(section, RetryRequest(what, section))
      PROVE  PageInv' /\ CalendarMoves
  <2> DEFINE r == RetryRequest(what, section)
  <2>1. r \in Requests /\ r.what = what /\ r.section = section
    BY <1>0 DEF RetryRequest, Request, Requests, PageInv
  <2>2. /\ issued' = issued + 1 /\ shown' = shown /\ sent' = sent \cup {r}
        /\ sectionRequests' = [sectionRequests EXCEPT ![section] = issued + 1]
        /\ UNCHANGED <<guest, lang, asOf, requestSequence, datesCached, cache>>
    BY <1>1 DEF Retry, Becomes, selection, cacheVars
  <2> HIDE DEF r
  <2>3. sectionRequests' \in [Sections -> 0..issued']
    BY <1>0, <2>2 DEF PageInv
  <2>4. CalendarAsks(sent')
    BY <1>1, <2>1, <2>2 DEF PageInv, CalendarAsks
  <2>5. PageInv'
    BY <1>0, <2>1, <2>2, <2>3, <2>4 DEF PageInv
  <2>6. sectionRequests'["calendar"] \in {sectionRequests["calendar"], issued + 1}
    BY <2>2 DEF PageInv, Sections
  <2> QED
    BY <1>0, <2>2, <2>5, <2>6 DEF CalendarMoves, CalendarAsked
<1> QED
  BY <1>1 DEF RetryOpinions, RetryCalendar, Sections

(* An answer is shown only if it is the newest question's.                 *)
LEMMA AnswerKeeps ==
    ASSUME PageInv, NEW r \in sent, Answer(r)
    PROVE  PageInv' /\ CalendarMoves
<1>0. r \in Requests /\ r.token \in Nat /\ (r.what = "calendar" => r.section = "calendar")
  BY DEF PageInv, Requests, CalendarAsks
<1>1. UNCHANGED <<guest, lang, requestSequence, sectionRequests, issued>>
  BY DEF Answer, pageVars
<1>2. CASE CellAnswered(r)
  <2>1. CASE ~IsCurrentRequest(r)
    <3>1. UNCHANGED <<shown, cache, asOf, datesCached>> /\ sent' \subseteq sent
      BY <1>2, <2>1, SettledKeeps DEF CellAnswered
    <3> QED
      BY <1>1, <3>1 DEF PageInv, CalendarAsks, CalendarMoves
  <2>2. CASE IsCurrentRequest(r)
    <3>1. /\ shown' = [shown EXCEPT ![r.what] = Value(r)]
          /\ sent' = sent \ {r} /\ cache' = Filed(r) /\ r.what \in Cells
          /\ asOf' = asOf /\ datesCached' = datesCached
      BY <1>2, <2>2 DEF CellAnswered, Becomes, View
    <3>2. Value(r) \in CellValues /\ Value(r).token = r.token
      BY <1>0 DEF Value, CellValues, Requests
    <3>3. cache' \in [Cells -> [Keys -> CellValues \cup {Nothing}]]
      <4>1. <<r.asOf, r.lang>> \in Keys
        BY <1>0 DEF Requests, Keys
      <4>2. CASE r.what = "overview"
        BY <3>1, <3>2, <4>1, <4>2 DEF Filed, PageInv
      <4>3. CASE r.what = "calendar"
        BY <3>1, <3>2, <4>1, <4>3 DEF Filed, PageInv
      <4> QED
        BY <3>1, <4>2, <4>3 DEF Cells
    <3>4. PageInv'
      BY <1>1, <3>1, <3>2, <3>3 DEF PageInv, CalendarAsks
    <3>5. shown'["calendar"].token \in {shown["calendar"].token, sectionRequests["calendar"]}
      <4>1. CASE r.what = "calendar"
        BY <1>0, <2>2, <3>1, <3>2, <4>1 DEF IsCurrentRequest, PageInv
      <4>2. CASE r.what # "calendar"
        BY <3>1, <4>2 DEF PageInv, Cells
      <4> QED
        BY <4>1, <4>2
    <3> QED
      BY <1>1, <3>4, <3>5 DEF CalendarMoves
  <2> QED
    BY <2>1, <2>2
<1>3. CASE DatesAnswered(r) \/ OpinionsAnswered(r)
  <2>1. UNCHANGED <<shown, cache>> /\ sent' \subseteq sent
    BY <1>3, SettledKeeps DEF DatesAnswered, OpinionsAnswered, cacheVars
  <2>2. asOf' \in {asOf, Newest} /\ datesCached' \in {datesCached, TRUE}
    BY <1>3 DEF DatesAnswered, OpinionsAnswered, cacheVars
  <2>3. asOf' \in Dates
    BY <2>2 DEF PageInv, Dates
  <2>4. datesCached' \in BOOLEAN
    BY <2>2 DEF PageInv
  <2> QED
    BY <1>1, <2>1, <2>3, <2>4 DEF PageInv, CalendarAsks, CalendarMoves
<1> QED
  BY <1>2, <1>3 DEF Answer

(* A failure empties the calendar at most.                                 *)
LEMMA FailKeeps ==
    ASSUME PageInv, NEW r \in sent, Fail(r)
    PROVE  PageInv' /\ CalendarMoves
<1>1. UNCHANGED <<selection, pageVars, cacheVars>>
  BY DEF Fail
<1>2. CASE Becomes(View(r))
  BY <1>1, <1>2, SettledKeeps
     DEF PageInv, CalendarAsks, CalendarMoves, selection, pageVars, cacheVars
<1>3. CASE Becomes([View(r) EXCEPT !.shown["calendar"] = Nothing])
  <2>1. shown' = [shown EXCEPT !["calendar"] = Nothing] /\ sent' = sent \ {r}
    BY <1>3 DEF Becomes, View
  <2>2. shown'["calendar"] = Nothing
    BY <2>1 DEF PageInv, Cells
  <2>3. shown'["calendar"].token = 0
    BY <2>2 DEF Nothing
  <2>4. PageInv'
    BY <1>1, <2>1 DEF PageInv, CalendarAsks, selection, pageVars, cacheVars
  <2> QED
    BY <1>1, <2>3, <2>4 DEF CalendarMoves, pageVars
<1> QED
  BY <1>2, <1>3 DEF Fail

(* The invariant is inductive, and every step is one of the calendar's.    *)
LEMMA StepKeeps ==
    ASSUME PageInv, [Next]_vars
    PROVE  PageInv' /\ CalendarMoves
<1>1. ASSUME UNCHANGED <<selection, pageVars, shown, cache, datesCached>>,
             sent' \subseteq sent
      PROVE  PageInv' /\ CalendarMoves
  BY <1>1, QuietSteps DEF CalendarMoves
<1>2. CASE CalendarExpires \/ UNCHANGED vars
  BY <1>1, <1>2 DEF CalendarExpires, vars, cacheVars
<1>3. CASE Poll
  <2> DEFINE r == Request("polled", "page", 0, requestSequence, asOf, lang, guest, FALSE)
  <2>1. UNCHANGED <<selection, pageVars, shown, cacheVars>> /\ sent' \in {sent, sent \cup {r}}
    BY <1>3 DEF Poll
  <2>2. r \in Requests /\ r.what # "calendar"
    BY DEF Request, Requests, PageInv
  <2> HIDE DEF r
  <2> QED
    BY <2>1, <2>2 DEF PageInv, CalendarAsks, CalendarMoves, selection, pageVars, cacheVars
<1>4. CASE BeforeDestroy
  <2>1. /\ UNCHANGED <<guest, lang, asOf, sectionRequests, issued, shown, cacheVars, sent>>
        /\ requestSequence' = requestSequence + 1
    BY <1>4 DEF BeforeDestroy
  <2> QED
    BY <2>1 DEF PageInv, CalendarMoves, cacheVars
<1>5. CASE \E r \in sent : Answer(r) \/ Fail(r)
  BY <1>5, AnswerKeeps, FailKeeps
<1> QED
  BY <1>2, <1>3, <1>4, <1>5, ReloadKeeps, RetryKeeps DEF Next, CalendarMoves

(* The page is mounted with everything empty.                              *)
LEMMA InitPage == Init => PageInv
<1> SUFFICES ASSUME Init PROVE PageInv
  OBVIOUS
<1>1. guest \in BOOLEAN /\ datesCached \in BOOLEAN
  BY DEF Init
<1>2. lang \in Languages /\ asOf \in Dates /\ sent \subseteq Requests /\ CalendarAsks(sent)
  BY DEF Init, Dates, CalendarAsks
<1>3. /\ requestSequence \in Nat /\ issued \in Nat
      /\ sectionRequests \in [Sections -> 0..issued]
  BY DEF Init
<1>4. /\ shown \in [Cells -> CellValues \cup {Nothing}]
      /\ cache \in [Cells -> [Keys -> CellValues \cup {Nothing}]]
  BY DEF Init
<1> QED
  BY <1>1, <1>2, <1>3, <1>4 DEF PageInv

(* Once the calendar has been asked again, by a reload in another language *)
(* or account, or by a retry, no older answer is put on the screen: the    *)
(* page implements LatestAnswer.                                           *)
THEOREM CalendarIsLatest == Spec => CalendarShowsLatest
<1>1. Init => Calendar!Init
  BY DEF Init, Calendar!Init, Sections, Cells, Nothing
<1>2. PageInv /\ [Next]_vars
        => PageInv' /\ [Calendar!Next]_<<sectionRequests["calendar"], shown["calendar"].token>>
  BY StepKeeps DEF CalendarMoves, CalendarAsked, Calendar!Next, Calendar!Ask,
     Calendar!Show, Calendar!Clear
<1> QED
  BY InitPage, <1>1, <1>2, PTL DEF Spec, CalendarShowsLatest, Calendar!Spec

-----------------------------------------------------------------------------
(* The selection: what is asked for the page on the screen is asked for    *)
(* the present language and account, which change only with a new page.    *)
AskedFor(r, l, g) == r.lang = l /\ r.guest = g
PageAsksForSelection ==
    \A r \in sent : /\ r.page <= requestSequence
                    /\ r.page = requestSequence => AskedFor(r, lang, guest)

SelectionInv ==
    PageInv /\ PageAsksForSelection /\ ShowsSelection /\ CacheMatchesKey

(* What a cell shows fits a language and an account.                       *)
Fits(cells, l, g) ==
    /\ \A c \in Cells : cells[c] # Nothing => cells[c].lang = l
    /\ cells["overview"] # Nothing => cells["overview"].guest = g

(* A loader that may be served from the cache shows what fits.             *)
LEMMA LoadCellFits ==
    ASSUME PageInv, CacheMatchesKey,
           NEW x, x = [shown |-> x.shown, loading |-> x.loading, sent |-> x.sent],
           x.shown \in [Cells -> CellValues \cup {Nothing}],
           NEW r \in Requests, r.what \in Cells, r.force \/ r.guest = guest,
           Fits(x.shown, r.lang, r.guest)
    PROVE  Fits(LoadCell(x, r).shown, r.lang, r.guest)
<1>1. CASE Hit(r)
  <2>1. <<r.asOf, r.lang>> \in Keys
    BY DEF Requests, Keys
  <2> DEFINE k == <<r.asOf, r.lang>>
             v == cache[r.what][k]
  <2>2. v \in CellValues /\ v # Nothing /\ r.guest = guest
    BY <1>1, <2>1 DEF PageInv, Hit
  <2>3. v.lang = r.lang /\ (r.what = "overview" => v.guest = r.guest)
    BY <2>1, <2>2 DEF CacheMatchesKey
  <2>4. Cached(r).lang = r.lang /\ (r.what = "overview" => Cached(r).guest = r.guest)
    <3>1. Cached(r) = [v EXCEPT !.token = r.token]
      BY DEF Cached
    <3> HIDE DEF v, k
    <3> QED
      BY <2>2, <2>3, <3>1 DEF CellValues
  <2>5. LoadCell(x, r) = [x EXCEPT !.shown[r.what] = Cached(r)]
    BY <1>1 DEF LoadCell
  <2>6. LoadCell(x, r).shown = [x.shown EXCEPT ![r.what] = Cached(r)]
    BY <2>5
  <2> QED
    BY <2>4, <2>6 DEF Fits, Cells
<1>2. CASE ~Hit(r)
  <2>1. LoadCell(x, r) = [x EXCEPT !.sent = @ \cup {r}, !.loading = @ \cup {r.section}]
    BY <1>2 DEF LoadCell
  <2>2. LoadCell(x, r).shown = x.shown
    BY <2>1
  <2> QED
    BY <2>2
<1> QED
  BY <1>1, <1>2

(* A load of the whole page asks for its selection only, and shows nothing *)
(* but what fits it.                                                       *)
LEMMA LoadAllFits ==
    ASSUME PageInv, CacheMatchesKey, NEW g \in BOOLEAN, NEW l \in Languages,
           NEW a \in Dates, NEW known \in BOOLEAN, NEW force \in BOOLEAN,
           force \/ g = guest, LoadAll(g, l, a, known, force)
    PROVE  /\ requestSequence' = requestSequence + 1
           /\ Fits(shown', l, g)
           /\ \A r \in sent' :
                 r \in sent \/ (r.page = requestSequence + 1 /\ AskedFor(r, l, g))
<1> DEFINE page == requestSequence + 1
           needsDates == force \/ ~known
           date == IF needsDates \/ a # None THEN a ELSE Newest
           R(what, section, n) ==
               Request(what, section, issued + n, page, date, l, g, force)
           opinions == R(IF g THEN "public" ELSE "shared", "opinions", 1)
           dates == Request("dates", "page", 0, page, a, l, g, force)
           cleared == [shown |-> [c \in Cells |-> Nothing],
                       loading |-> {"opinions"} \cup
                                   (IF needsDates THEN {"dates"} ELSE {}),
                       sent |-> sent \cup {opinions} \cup
                                (IF needsDates THEN {dates} ELSE {})]
           rO == R("overview", "overview", 2)
           rC == R("calendar", "calendar", 3)
           overview == LoadCell(cleared, rO)
           calendar == LoadCell(overview, rC)
           New(r) == r.page = requestSequence + 1 /\ AskedFor(r, l, g)
<1>1. requestSequence' = page /\ Becomes(calendar)
  BY DEF LoadAll
<1>2. page \in Nat /\ issued + 2 \in Nat /\ issued + 3 \in Nat /\ date \in Dates
  BY DEF PageInv, Dates
<1>3. New(opinions) /\ New(dates) /\ New(rO) /\ New(rC)
  BY DEF Request, AskedFor
<1>4. /\ rO \in Requests /\ rO.what = "overview" /\ rO.lang = l /\ rO.guest = g
      /\ rC \in Requests /\ rC.what = "calendar" /\ rC.lang = l /\ rC.guest = g
      /\ rO.force = force /\ rC.force = force
  <2> HIDE DEF page, date, needsDates
  <2> QED
    BY <1>2 DEF Request, Requests, Sections
<1> HIDE DEF opinions, dates, rO, rC, page, date, needsDates, New
<1> DEFINE S == cleared.sent
<1>5. \A r \in S : r \in sent \/ New(r)
  BY <1>3
<1>6. /\ cleared = [shown |-> cleared.shown, loading |-> cleared.loading, sent |-> cleared.sent]
      /\ cleared.shown \in [Cells -> CellValues \cup {Nothing}]
      /\ cleared.sent = S
      /\ \A c \in Cells : cleared.shown[c] = Nothing
  OBVIOUS
<1>7. "calendar" \in Cells /\ "overview" \in Cells
  BY DEF Cells
<1>8. Fits(cleared.shown, l, g)
  BY <1>6, <1>7 DEF Fits
<1> HIDE DEF cleared, S
<1>9. /\ overview.shown \in [Cells -> CellValues \cup {Nothing}]
      /\ overview.sent \in {S, S \cup {rO}}
      /\ Fits(overview.shown, l, g)
      /\ overview = [shown |-> overview.shown, loading |-> overview.loading,
                      sent |-> overview.sent]
  <2>1. /\ overview.shown \in [Cells -> CellValues \cup {Nothing}]
        /\ overview.sent \in {S, S \cup {rO}}
    BY <1>4, <1>6, <1>7, LoadCellShows
  <2>2. Fits(overview.shown, l, g)
    BY <1>4, <1>6, <1>7, <1>8, LoadCellFits
  <2>3. \/ \E v : overview = [cleared EXCEPT !.shown = v]
        \/ \E n, u : overview = [cleared EXCEPT !.sent = u, !.loading = n]
    BY DEF LoadCell
  <2>4. overview = [shown |-> overview.shown, loading |-> overview.loading,
                    sent |-> overview.sent]
    BY <1>6, <2>3
  <2> QED
    BY <2>1, <2>2, <2>4
<1> HIDE DEF overview
<1>10. /\ Fits(calendar.shown, l, g)
       /\ calendar.sent \in {overview.sent, overview.sent \cup {rC}}
  <2>1. Fits(calendar.shown, l, g)
    BY <1>4, <1>7, <1>9, LoadCellFits
  <2> QED
    BY <1>4, <1>7, <1>9, <2>1, LoadCellShows
<1> HIDE DEF calendar
<1>11. shown' = calendar.shown /\ sent' = calendar.sent
  BY <1>1 DEF Becomes
<1>12. \A r \in sent' : r \in sent \/ New(r)
  BY <1>3, <1>5, <1>9, <1>10, <1>11
<1>13. requestSequence' = requestSequence + 1
  BY <1>1 DEF page
<1> QED
  BY <1>10, <1>11, <1>12, <1>13 DEF New

(* A load of the whole page leaves only its own requests on the new page.  *)
LEMMA ReloadSelects ==
    ASSUME SelectionInv, Mounted \/ Reload
    PROVE  SelectionInv'
<1>0. PageInv /\ PageInv' /\ requestSequence \in Nat
  BY ReloadKeeps DEF SelectionInv, PageInv
<1>1. ASSUME NEW g \in BOOLEAN, NEW l \in Languages, NEW a \in Dates,
             NEW known \in BOOLEAN, NEW force \in BOOLEAN, force \/ g = guest,
             LoadAll(g, l, a, known, force), guest' = g, lang' = l, CacheMatchesKey'
      PROVE  SelectionInv'
  <2>1. /\ requestSequence' = requestSequence + 1
        /\ Fits(shown', l, g)
        /\ \A r \in sent' : r \in sent \/ (r.page = requestSequence + 1 /\ AskedFor(r, l, g))
    BY <1>0, <1>1, LoadAllFits DEF SelectionInv
  <2>2. PageAsksForSelection'
    <3> SUFFICES ASSUME NEW r \in sent'
                 PROVE  /\ r.page <= requestSequence'
                        /\ r.page = requestSequence' => AskedFor(r, lang', guest')
      BY DEF PageAsksForSelection
    <3>1. CASE r \in sent
      <4>1. r.page <= requestSequence /\ r.page \in Nat
        BY <1>0, <3>1 DEF SelectionInv, PageAsksForSelection, PageInv, Requests
      <4> QED
        BY <1>0, <2>1, <4>1
    <3>2. CASE r.page = requestSequence + 1 /\ AskedFor(r, l, g)
      BY <1>0, <1>1, <2>1, <3>2
    <3> QED
      BY <2>1, <3>1, <3>2
  <2>3. ShowsSelection'
    BY <1>1, <2>1 DEF ShowsSelection, Fits, Cells
  <2> QED
    BY <1>0, <1>1, <2>2, <2>3 DEF SelectionInv
<1>2. CASE Mounted
  <2>1. /\ LoadAll(guest, lang, asOf, datesCached, FALSE)
        /\ guest' = guest /\ lang' = lang /\ cache' = cache
    BY <1>2 DEF Mounted, cacheVars
  <2>2. CacheMatchesKey'
    BY <2>1 DEF SelectionInv, CacheMatchesKey
  <2>3. guest \in BOOLEAN /\ lang \in Languages /\ asOf \in Dates /\ datesCached \in BOOLEAN
    BY <1>0 DEF PageInv
  <2> QED
    BY <1>1, <2>1, <2>2, <2>3
<1>3. ASSUME NEW l \in Languages, SetLocale(l)
      PROVE  SelectionInv'
  <2>1. /\ LoadAll(guest, l, asOf, datesCached, FALSE)
        /\ guest' = guest /\ lang' = l /\ cache' = cache
    BY <1>3 DEF SetLocale, cacheVars
  <2>2. CacheMatchesKey'
    BY <2>1 DEF SelectionInv, CacheMatchesKey
  <2>3. guest \in BOOLEAN /\ asOf \in Dates /\ datesCached \in BOOLEAN
    BY <1>0 DEF PageInv
  <2> QED
    BY <1>1, <2>1, <2>2, <2>3
<1>4. CASE SignInOrOut
  <2>1. /\ LoadAll(~guest, lang, None, FALSE, TRUE)
        /\ guest' = ~guest /\ lang' = lang
        /\ cache' = [cache EXCEPT !["overview"] = [k \in Keys |-> Nothing]]
    BY <1>4 DEF SignInOrOut
  <2>2. /\ \A k \in Keys : cache'["overview"][k] = Nothing
        /\ \A c \in Cells \ {"overview"} : cache'[c] = cache[c]
    BY <1>0, <2>1 DEF PageInv, Cells
  <2>3. CacheMatchesKey'
    BY <2>2 DEF SelectionInv, CacheMatchesKey, Cells
  <2>4. (~guest) \in BOOLEAN /\ lang \in Languages /\ None \in Dates
    BY <1>0 DEF PageInv, Dates
  <2>5. FALSE \in BOOLEAN /\ TRUE \in BOOLEAN
    OBVIOUS
  <2> QED
    BY <1>1, <2>1, <2>3, <2>4, <2>5
<1> QED
  BY <1>2, <1>3, <1>4 DEF Reload

(* An answer to the page on the screen fits it and the key it is filed     *)
(* under.                                                                  *)
LEMMA AnswerSelects ==
    ASSUME SelectionInv, NEW r \in sent, Answer(r)
    PROVE  SelectionInv'
<1>0. PageInv /\ PageInv' /\ r \in Requests
  BY AnswerKeeps DEF SelectionInv, PageInv
<1>1. UNCHANGED <<guest, lang, requestSequence>>
  BY DEF Answer, pageVars
<1>2. sent' \subseteq sent
  BY SettledKeeps, <1>0
     DEF Answer, CellAnswered, DatesAnswered, OpinionsAnswered, Becomes, View
<1>3. PageAsksForSelection'
  BY <1>1, <1>2 DEF SelectionInv, PageAsksForSelection
<1>4. CASE UNCHANGED <<shown, cache>>
  BY <1>0, <1>1, <1>3, <1>4 DEF SelectionInv, ShowsSelection, CacheMatchesKey
<1>5. CASE CellAnswered(r) /\ IsCurrentRequest(r)
  <2>1. /\ shown' = [shown EXCEPT ![r.what] = Value(r)]
        /\ cache' = Filed(r) /\ r.what \in Cells
    BY <1>5 DEF CellAnswered, Becomes, View
  <2>2. r.lang = lang /\ r.guest = guest
    BY <1>5 DEF IsCurrentRequest, SelectionInv, PageAsksForSelection, AskedFor
  <2>3. /\ Value(r).lang = lang /\ Value(r).guest = guest
        /\ Value(r).asOf = r.asOf /\ Value(r).lang = r.lang
    BY <2>2 DEF Value
  <2>4. ShowsSelection'
    BY <1>0, <1>1, <2>1, <2>3 DEF SelectionInv, ShowsSelection, PageInv, Cells
  <2>5. <<r.asOf, r.lang>> \in Keys
    BY <1>0 DEF Requests, Keys
  <2>6. CASE r.what = "overview"
    <3>1. /\ cache'["calendar"] = cache["calendar"]
          /\ cache'["overview"] = [cache["overview"] EXCEPT ![<<r.asOf, r.lang>>] = Value(r)]
      BY <1>0, <2>1, <2>6 DEF Filed, PageInv, Cells
    <3>2. \A k \in Keys : cache'["overview"][k] =
               IF k = <<r.asOf, r.lang>> THEN Value(r) ELSE cache["overview"][k]
      BY <1>0, <3>1 DEF PageInv, Cells
    <3>3. ASSUME NEW k \in Keys, cache'["overview"][k] # Nothing
          PROVE  /\ cache'["overview"][k].asOf = k[1]
                 /\ cache'["overview"][k].lang = k[2]
                 /\ cache'["overview"][k].guest = guest'
      <4>1. CASE k = <<r.asOf, r.lang>>
        BY <1>1, <2>3, <3>2, <4>1
      <4>2. CASE k # <<r.asOf, r.lang>>
        BY <1>1, <3>2, <3>3, <4>2 DEF SelectionInv, CacheMatchesKey, Cells
      <4> QED
        BY <4>1, <4>2
    <3>4. ASSUME NEW k \in Keys, cache'["calendar"][k] # Nothing
          PROVE  cache'["calendar"][k].asOf = k[1] /\ cache'["calendar"][k].lang = k[2]
      BY <3>1, <3>4 DEF SelectionInv, CacheMatchesKey, Cells
    <3>5. CacheMatchesKey'
      BY <3>3, <3>4 DEF CacheMatchesKey, Cells
    <3> QED
      BY <1>0, <1>3, <2>4, <3>5 DEF SelectionInv
  <2>7. CASE r.what = "calendar"
    <3>1. /\ cache'["overview"] = cache["overview"]
          /\ \A k \in Keys : cache'["calendar"][k] =
                 IF k = <<r.asOf, r.lang>> THEN Value(r) ELSE Nothing
      BY <1>0, <2>1, <2>7 DEF Filed, PageInv, Cells
    <3>2. CacheMatchesKey'
      BY <1>1, <2>3, <3>1 DEF SelectionInv, CacheMatchesKey, Cells
    <3> QED
      BY <1>0, <1>3, <2>4, <3>2 DEF SelectionInv
  <2> QED
    BY <2>1, <2>6, <2>7 DEF Cells
<1> QED
  BY <1>4, <1>5 DEF Answer, CellAnswered, DatesAnswered, OpinionsAnswered, Becomes,
     View, cacheVars

(* No step of the page mixes selections.                                   *)
LEMMA StepSelects ==
    ASSUME SelectionInv, [Next]_vars
    PROVE  SelectionInv'
<1>0. PageInv /\ PageInv' /\ requestSequence \in Nat
  BY StepKeeps DEF SelectionInv, PageInv
<1>1. ASSUME UNCHANGED <<guest, lang, requestSequence, shown, cache>>,
             \A r \in sent' : r \in sent \/
                 (r.page = requestSequence /\ AskedFor(r, lang, guest))
      PROVE  SelectionInv'
  <2>1. PageAsksForSelection'
    BY <1>0, <1>1 DEF SelectionInv, PageAsksForSelection
  <2> QED
    BY <1>0, <1>1, <2>1 DEF SelectionInv, ShowsSelection, CacheMatchesKey
<1>2. CASE CalendarExpires \/ UNCHANGED vars
  BY <1>1, <1>2 DEF CalendarExpires, vars, selection, pageVars, cacheVars
<1>3. CASE Poll
  <2> DEFINE r == Request("polled", "page", 0, requestSequence, asOf, lang, guest, FALSE)
  <2>1. UNCHANGED <<selection, pageVars, shown, cacheVars>> /\ sent' \in {sent, sent \cup {r}}
    BY <1>3 DEF Poll
  <2>2. r.page = requestSequence /\ AskedFor(r, lang, guest)
    BY DEF Request, AskedFor
  <2> HIDE DEF r
  <2> QED
    BY <1>1, <2>1, <2>2 DEF selection, pageVars, cacheVars
<1>4. CASE RetryOpinions \/ RetryCalendar
  <2> PICK what \in {"overview", "calendar"}, section \in Sections :
           Retry(section, RetryRequest(what, section))
    BY <1>4 DEF RetryOpinions, RetryCalendar, Sections
  <2> DEFINE r == RetryRequest(what, section)
  <2>1. /\ UNCHANGED <<selection, requestSequence, shown, cacheVars>>
        /\ sent' = sent \cup {r}
    BY DEF Retry, Becomes
  <2>2. r.page = requestSequence /\ AskedFor(r, lang, guest)
    BY DEF RetryRequest, Request, AskedFor
  <2> HIDE DEF r
  <2> QED
    BY <1>1, <2>1, <2>2 DEF selection, cacheVars
<1>5. CASE BeforeDestroy
  <2>1. /\ UNCHANGED <<guest, lang, shown, cache, sent>>
        /\ requestSequence' = requestSequence + 1
    BY <1>5 DEF BeforeDestroy, cacheVars
  <2>2. PageAsksForSelection'
    <3> SUFFICES ASSUME NEW r \in sent
                 PROVE  r.page <= requestSequence' /\ r.page # requestSequence'
      BY <2>1 DEF PageAsksForSelection
    <3>1. r.page <= requestSequence /\ r.page \in Nat
      BY <1>0 DEF SelectionInv, PageAsksForSelection, PageInv, Requests
    <3> QED
      BY <1>0, <2>1, <3>1
  <2> QED
    BY <1>0, <2>1, <2>2 DEF SelectionInv, ShowsSelection, CacheMatchesKey
<1>6. ASSUME NEW r \in sent, Fail(r)
      PROVE  SelectionInv'
  <2>1. UNCHANGED <<guest, lang, requestSequence, cache>>
    BY <1>6 DEF Fail, selection, pageVars, cacheVars
  <2>2. sent' = sent \ {r} /\ shown' \in {shown, [shown EXCEPT !["calendar"] = Nothing]}
    BY <1>6 DEF Fail, Becomes, View
  <2>3. PageAsksForSelection' /\ CacheMatchesKey'
    BY <2>1, <2>2 DEF SelectionInv, PageAsksForSelection, CacheMatchesKey
  <2>4. ShowsSelection'
    BY <1>0, <2>1, <2>2 DEF SelectionInv, ShowsSelection, PageInv, Cells
  <2> QED
    BY <1>0, <2>3, <2>4 DEF SelectionInv
<1> QED
  BY <1>2, <1>3, <1>4, <1>5, <1>6, ReloadSelects, AnswerSelects DEF Next, Reload

(* Nothing has been asked, shown or cached when the page is mounted.       *)
LEMMA InitSelects == Init => SelectionInv
<1> SUFFICES ASSUME Init PROVE SelectionInv
  OBVIOUS
<1>1. \A c \in Cells : shown[c] = Nothing
  BY DEF Init
<1>2. \A c \in Cells, k \in Keys : cache[c][k] = Nothing
  BY DEF Init
<1>3. PageAsksForSelection
  BY DEF Init, PageAsksForSelection
<1>4. ShowsSelection /\ CacheMatchesKey
  BY <1>1, <1>2 DEF ShowsSelection, CacheMatchesKey, Cells
<1> QED
  BY <1>3, <1>4, InitPage DEF SelectionInv

(* Whatever was in flight when the language or the account changed, the    *)
(* page shows the overview and the calendar of the present selection.      *)
THEOREM PageShowsSelection == Spec => []ShowsSelection
<1>1. SelectionInv /\ [Next]_vars => SelectionInv'
  BY StepSelects
<1>2. SelectionInv => ShowsSelection
  BY DEF SelectionInv
<1> QED
  BY InitSelects, <1>1, <1>2, PTL DEF Spec

(* What the cache files under a date and a language was asked for them,    *)
(* and a cached overview for the account that can be served from it.       *)
THEOREM CacheIsKeyed == Spec => []CacheMatchesKey
<1>1. SelectionInv /\ [Next]_vars => SelectionInv'
  BY StepSelects
<1>2. SelectionInv => CacheMatchesKey
  BY DEF SelectionInv
<1> QED
  BY InitSelects, <1>1, <1>2, PTL DEF Spec
-----------------------------------------------------------------------------
(* While a shared report is known to be pending the interval is on: what   *)
(* an answer teaches the page it synchronises with, the interval's own     *)
(* failures included.                                                      *)
THEOREM PendingArePolled == Spec => []PendingReportsArePolled
<1>1. Init => PendingReportsArePolled
  BY DEF Init, PendingReportsArePolled, Pending
<1>2. ASSUME PendingReportsArePolled, [Next]_vars
      PROVE  PendingReportsArePolled'
  <2> USE DEF PendingReportsArePolled, Pending
  <2>1. CASE Mounted
    BY <1>2, <2>1 DEF Mounted, pollVars
  <2>2. ASSUME NEW l \in Languages, SetLocale(l)
        PROVE  PendingReportsArePolled'
    BY <1>2, <2>2 DEF SetLocale, pollVars
  <2>3. CASE SignInOrOut
    BY <1>2, <2>3 DEF SignInOrOut
  <2>4. CASE RetryOpinions \/ RetryCalendar
    BY <1>2, <2>4 DEF RetryOpinions, RetryCalendar, Retry, selection, pollVars
  <2>5. CASE BeforeDestroy
    BY <2>5 DEF BeforeDestroy
  <2>6. CASE CalendarExpires \/ UNCHANGED vars
    BY <1>2, <2>6 DEF CalendarExpires, vars, selection, pollVars
  <2>7. CASE Poll
    BY <1>2, <2>7 DEF Poll, selection
  <2>8. ASSUME NEW r \in sent, NEW state, SharedAnswered(r, state) \/ PolledAnswered(r, state),
               UNCHANGED <<mounted, guest>>
        PROVE  PendingReportsArePolled'
    BY <1>2, <2>8 DEF SharedAnswered, PolledAnswered, Sync, pollVars
  <2>9. ASSUME NEW r \in sent, Answer(r)
        PROVE  PendingReportsArePolled'
    <3>1. UNCHANGED <<mounted, guest>>
      BY <2>9 DEF Answer
    <3>2. CASE UNCHANGED pollVars
      BY <1>2, <3>1, <3>2 DEF pollVars
    <3> QED
      BY <2>8, <2>9, <3>1, <3>2
         DEF Answer, CellAnswered, DatesAnswered, OpinionsAnswered
  <2>10. ASSUME NEW r \in sent, Fail(r)
         PROVE  PendingReportsArePolled'
    <3>1. UNCHANGED <<mounted, guest>>
      BY <2>10 DEF Fail, selection
    <3>2. CASE UNCHANGED pollVars
      BY <1>2, <3>1, <3>2 DEF pollVars
    <3> QED
      BY <2>8, <2>10, <3>1, <3>2 DEF Fail
  <2> QED
    BY <1>2, <2>1, <2>2, <2>3, <2>4, <2>5, <2>6, <2>7, <2>9, <2>10 DEF Next, Reload
<1> QED
  BY <1>1, <1>2, PTL DEF Spec
=============================================================================
