----------------------- MODULE DeepAnalysisPanel_proofs -----------------------
(***************************************************************************)
(* For any number of assets, clicks and failures: what the panel shows is  *)
(* of one asset, a report is compared with its own predecessor, a hidden   *)
(* panel does not poll and a shown one polls once at a time.               *)
(*                                                                         *)
(* An answer is applied only when the request carries the present number   *)
(* of the history, so the invariant says what requests of that number may  *)
(* still be under way, and what they may do to the run on the screen.  The *)
(* handlers call one another, so the lemmas say of each function of the    *)
(* panel that it keeps the invariant, and the actions compose them.        *)
(***************************************************************************)
EXTENDS DeepAnalysisPanel, FiniteSetTheorems, TLAPS

(* The types.  Known are the runs that have a row: a run of today has one  *)
(* once it was created.                                                    *)
Records(known) == [id : known, status : Statuses]
Thens == [kind : {"none", "poll", "open", "start"}, gen : Nat]
Data(known) ==
    {None, Done} \cup Records(known)
    \cup [run : Records(known), limit : BOOLEAN]
    \cup [history : SUBSET known, todayRun : {None} \cup Records(known)]

(* What is asked, and what the server answers to it.                       *)
HistoryData(q, known) ==
    /\ q.data.history \subseteq known /\ q.data.todayRun \in {None} \cup Records(known)
    /\ \A r \in q.data.history : ContextOf(r) = q.id
    /\ q.data.todayRun # None => ContextOf(q.data.todayRun.id) = q.id

CreateData(q, known) ==
    /\ q.data.run \in Records(known) /\ q.data.limit \in BOOLEAN
    /\ ContextOf(q.data.run.id) = q.id

RunData(q, known) == q.data \in Records(known) /\ q.data.id = q.id

Shape(q, known) ==
    /\ q.id \in IF q.kind \in {"history", "create"} THEN Contexts ELSE known
    /\ q.then.kind = "start" => q.kind = "history"
    /\ q.then.kind \in {"open", "poll"} => q.kind = "artifact"
    /\ q.kind = "previous" => PreviousOf(q.id) # {}
    /\ q.data # None =>
         /\ q.kind = "history" => HistoryData(q, known)
         /\ q.kind = "create" => CreateData(q, known)
         /\ q.kind \in {"poll", "open"} => RunData(q, known)

Query(kind, id, gen, then) ==
    [kind |-> kind, id |-> id, gen |-> gen, then |-> then, data |-> None]

Queries(known) ==
    {q \in [kind : Kinds, id : known \cup Contexts, gen : Nat, then : Thens,
            data : Data(known)] : Shape(q, known)}

Panels(known) ==
    [visible : BOOLEAN, mounted : BOOLEAN, ctx : Contexts,
     run : {None} \cup Records(known), content : {None} \cup known,
     previous : {None} \cup known, previousError : BOOLEAN,
     history : SUBSET known, todayRun : {None} \cup Records(known),
     opening : {None} \cup known, busy : SUBSET Buttons,
     pollTimer : BOOLEAN, pollGeneration : Nat, pollingRequest : {None} \cup Nat,
     reportRequest : {None} \cup (Nat \X known), historyRequestId : Nat,
     historyLoading : BOOLEAN, historyError : BOOLEAN,
     reportError : BOOLEAN, errorMessage : BOOLEAN,
     sent : SUBSET Queries(known)]

IsKnown(known) == known \subseteq Runs /\ \A c \in Contexts : Old(c) \in known

(* What can change the screen: the requests of the present number.         *)
Asks(s, kind) == {q \in s.sent : q.kind = kind /\ q.gen = s.historyRequestId}

About(q, c) ==
    IF q.kind \in {"history", "create"} THEN q.id = c ELSE ContextOf(q.id) = c

Aimed(s) ==
    \A q \in s.sent : q.kind \notin {"poll", "pdf"} =>
        /\ q.gen <= s.historyRequestId
        /\ q.gen = s.historyRequestId => s.mounted /\ About(q, s.ctx)

OneContext(s) ==
    /\ s.run # None => ContextOf(s.run.id) = s.ctx
    /\ s.todayRun # None => ContextOf(s.todayRun.id) = s.ctx
    /\ s.content # None => ContextOf(s.content) = s.ctx
    /\ s.previous # None => ContextOf(s.previous) = s.ctx
    /\ \A r \in s.history : ContextOf(r) = s.ctx

(* A comparison that was asked for is with the report on the screen.       *)
Compared(s) ==
    /\ s.run = None =>
         s.previous = None /\ ~s.previousError /\ Asks(s, "previous") = {}
    /\ s.previous # None =>
         s.content # None /\ s.previous \in PreviousOf(s.content)
    /\ s.previousError /\ s.content # None => PreviousOf(s.content) # {}
    /\ \A p \in Asks(s, "previous") : s.run.id = p.id => s.content = p.id

(* The run on the screen is replaced at most once from the history and     *)
(* once by a created run, and the comparison asked for was of neither.     *)
Replaced(s) ==
    /\ \A q \in Asks(s, "open") \cup Asks(s, "create"), p \in Asks(s, "previous") :
         s.run.id = p.id
    /\ \A q \in Asks(s, "open"), p \in Asks(s, "create") : s.run = None
    /\ \A q, p \in Asks(s, "open") : q = p
    /\ Asks(s, "create") # {} => s.todayRun = None /\ ~s.historyLoading

Loads(s) ==
    /\ \A q, p \in Asks(s, "history") : q = p
    /\ Asks(s, "history") # {} => s.historyLoading

(* start holds its latch until the history it asked for is there.          *)
Chain(q) == q.kind = "create" \/ (q.kind = "history" /\ q.then.kind = "start")
Latched(s) ==
    /\ \A q, p \in s.sent : Chain(q) /\ Chain(p) => q = p
    /\ \A q \in s.sent : Chain(q) => "start" \in s.busy

ShownInv(s) ==
    Aimed(s) /\ OneContext(s) /\ Compared(s) /\ Replaced(s) /\ Loads(s) /\ Latched(s)

(* The polls, each of a generation.                                        *)
Polling(s) == {q \in s.sent : q.kind = "poll" /\ q.gen = s.pollGeneration}

PollInv(s) ==
    /\ \A q \in s.sent : q.kind = "poll" => q.gen <= s.pollGeneration
    /\ \A q \in Polling(s) : s.pollingRequest = s.pollGeneration /\ s.mounted
    /\ \A q, p \in Polling(s) : q = p
    /\ \A q \in s.sent : q.then.kind = "poll" => q.then.gen <= s.pollGeneration
    /\ ~(s.visible /\ s.mounted) => ~s.pollTimer

Good(s, known) == s \in Panels(known) /\ ShownInv(s) /\ PollInv(s)
-----------------------------------------------------------------------------
(* A panel with another value in one field is a panel.                     *)
LEMMA PanelWith ==
    ASSUME NEW known, NEW s \in Panels(known), NEW n \in Nat, NEW b \in BOOLEAN
    PROVE  /\ [s EXCEPT !.historyRequestId = n] \in Panels(known)
           /\ [s EXCEPT !.visible = b] \in Panels(known)
           /\ [s EXCEPT !.mounted = b] \in Panels(known)
           /\ [s EXCEPT !.historyLoading = b] \in Panels(known)
           /\ [s EXCEPT !.previousError = b] \in Panels(known)
<1>1. [s EXCEPT !.historyRequestId = n] \in Panels(known)
  BY DEF Panels
<1>2. [s EXCEPT !.visible = b] \in Panels(known)
  BY DEF Panels
<1>3. [s EXCEPT !.mounted = b] \in Panels(known)
  BY DEF Panels
<1>4. [s EXCEPT !.historyLoading = b] \in Panels(known)
  BY DEF Panels
<1>5. [s EXCEPT !.previousError = b] \in Panels(known)
  BY DEF Panels
<1> QED
  BY <1>1, <1>2, <1>3, <1>4, <1>5

(* What a function leaves of the screen.                                   *)
SameShown(j, s) ==
    /\ j.visible = s.visible /\ j.mounted = s.mounted /\ j.ctx = s.ctx
    /\ j.run = s.run /\ j.content = s.content /\ j.previous = s.previous
    /\ j.previousError = s.previousError /\ j.history = s.history
    /\ j.todayRun = s.todayRun /\ j.historyRequestId = s.historyRequestId
    /\ j.historyLoading = s.historyLoading

SamePolls(j, s) ==
    /\ j.pollTimer = s.pollTimer /\ j.pollGeneration = s.pollGeneration
    /\ j.pollingRequest = s.pollingRequest

Unchained(s) == \A q \in s.sent : ~Chain(q)

(* A request that can replace nothing on the screen but the report.        *)
Harmless(q, s) ==
    \/ q.kind \in {"poll", "pdf"}
    \/ /\ q.kind \in {"artifact", "cancel", "resume", "clear"}
       /\ q.gen = s.historyRequestId /\ s.mounted /\ ContextOf(q.id) = s.ctx

(* What is said of the screen stays true while it stays, whatever requests *)
(* are gone and whatever harmless ones are sent.                           *)
LEMMA ShownFollows ==
    ASSUME NEW s, NEW j, ShownInv(s), SameShown(j, s), s.historyRequestId \in Nat,
           \A q \in j.sent : q \in s.sent \/ Harmless(q, s),
           Unchained(j) \/ ("start" \in s.busy => "start" \in j.busy)
    PROVE  ShownInv(j)
<1>1. \A kind \in {"history", "create", "open", "previous"} :
        Asks(j, kind) \subseteq Asks(s, kind)
  BY DEF Asks, SameShown, Harmless
<1>2. Aimed(j) /\ OneContext(j)
  BY DEF ShownInv, Aimed, OneContext, SameShown, Harmless, About
<1>3. Compared(j)
  BY <1>1 DEF ShownInv, Compared, SameShown
<1>4. Replaced(j)
  BY <1>1 DEF ShownInv, Replaced, SameShown
<1>5. Loads(j)
  BY <1>1 DEF ShownInv, Loads, SameShown
<1>6. Latched(j)
  BY DEF ShownInv, Latched, Unchained, Chain, Harmless
<1> QED
  BY <1>2, <1>3, <1>4, <1>5, <1>6 DEF ShownInv

(* A new generation of polls: none of the ones under way is of it.         *)
LEMMA StopPollingGood ==
    ASSUME NEW known, NEW s, Good(s, known)
    PROVE  LET j == StopPolling(s) IN
           /\ Good(j, known) /\ SameShown(j, s) /\ j.sent = s.sent /\ j.busy = s.busy
           /\ ~j.pollTimer /\ j.pollGeneration = s.pollGeneration + 1
           /\ Polling(j) = {}
<1> DEFINE n == s.pollGeneration + 1
           j == StopPolling(s)
<1>1. n \in Nat /\ n > s.pollGeneration
  BY DEF Good, Panels
<1>2. j = [s EXCEPT !.pollGeneration = n, !.pollTimer = FALSE]
  BY DEF StopPolling
<1> HIDE DEF n, j
<1>3. j \in Panels(known)
  BY <1>1, <1>2 DEF Good, Panels
<1>4. SameShown(j, s) /\ j.sent = s.sent /\ j.busy = s.busy
  BY <1>2 DEF Good, Panels, SameShown
<1>5. ~j.pollTimer /\ j.pollGeneration = n
  BY <1>2 DEF Good, Panels
<1>6. \A q \in s.sent : q.gen \in Nat /\ q.then.gen \in Nat
  BY DEF Good, Panels, Queries, Thens
<1>7. \A q \in s.sent : /\ q.kind = "poll" => q.gen < n
                        /\ q.then.kind = "poll" => q.then.gen < n
  <2>1. s.pollGeneration \in Nat
    BY DEF Good, Panels
  <2> QED
    BY <1>1, <1>6, <2>1 DEF Good, PollInv
<1>8. Polling(j) = {}
  BY <1>1, <1>4, <1>5, <1>6, <1>7 DEF Polling
<1>9. PollInv(j)
  BY <1>1, <1>4, <1>5, <1>6, <1>7, <1>8 DEF PollInv
<1>10. ShownInv(j)
  BY <1>4, ShownFollows DEF Good, Panels
<1> QED
  BY <1>3, <1>4, <1>5, <1>8, <1>9, <1>10 DEF Good, j, n

(* A call adds its request, which is well formed.                          *)
WellAsked(kind, id, then, known) ==
    /\ kind \in Kinds /\ then \in Thens
    /\ id \in IF kind \in {"history", "create"} THEN Contexts ELSE known
    /\ then.kind = "start" => kind = "history"
    /\ then.kind \in {"open", "poll"} => kind = "artifact"
    /\ kind = "previous" => PreviousOf(id) # {}

(* So the request is well formed, and nothing else changes.                *)
LEMMA CallDoes ==
    ASSUME NEW known, NEW s \in Panels(known), NEW kind, NEW id,
           NEW gen \in Nat, NEW then, WellAsked(kind, id, then, known)
    PROVE  LET j == Call(s, kind, id, gen, then)
               q == Query(kind, id, gen, then)
           IN  /\ j \in Panels(known) /\ j.sent = s.sent \cup {q} /\ SameShown(j, s) /\ SamePolls(j, s)
               /\ j.busy = s.busy
               /\ q.kind = kind /\ q.id = id /\ q.gen = gen /\ q.then = then
<1> DEFINE q == Query(kind, id, gen, then)
<1>1. q.kind = kind /\ q.id = id /\ q.gen = gen /\ q.then = then /\ q.data = None
  BY DEF Query
<1>2. q \in [kind : Kinds, id : known \cup Contexts, gen : Nat, then : Thens,
             data : Data(known)]
  <2>1. None \in Data(known)
    BY DEF Data
  <2>2. id \in known \cup Contexts
    BY DEF WellAsked
  <2> QED
    BY <2>1, <2>2 DEF Query, WellAsked
<1>3. Shape(q, known)
  BY <1>1 DEF Shape, WellAsked
<1>4. q \in Queries(known)
  BY <1>2, <1>3 DEF Queries
<1>5. Call(s, kind, id, gen, then) = [s EXCEPT !.sent = s.sent \cup {q}]
  BY DEF Call, Query
<1> HIDE DEF q
<1> DEFINE j == [s EXCEPT !.sent = s.sent \cup {q}]
<1>6. j \in Panels(known)
  BY <1>4 DEF Panels
<1>7. j.sent = s.sent \cup {q} /\ j.busy = s.busy
  BY DEF Panels
<1>8. SameShown(j, s) /\ SamePolls(j, s)
  BY DEF Panels, SameShown, SamePolls
<1> QED
  BY <1>1, <1>5, <1>6, <1>7, <1>8 DEF q

(* What is said of the polls stays true while they stay.                   *)
LEMMA PollsFollow ==
    ASSUME NEW s, NEW j, PollInv(s), SamePolls(j, s),
           j.visible = s.visible, j.mounted = s.mounted,
           \A q \in j.sent : \/ q \in s.sent
                             \/ q.kind # "poll" /\ q.then.kind # "poll"
    PROVE  PollInv(j) /\ Polling(j) \subseteq Polling(s)
<1>1. Polling(j) \subseteq Polling(s)
  BY DEF Polling, SamePolls
<1> QED
  BY <1>1 DEF PollInv, SamePolls

(* The latch of the poll keeps it single.                                  *)
LEMMA RefreshRunGood ==
    ASSUME NEW known, NEW s, Good(s, known), s.mounted
    PROVE  LET j == RefreshRun(s) IN
           /\ Good(j, known) /\ SameShown(j, s) /\ j.busy = s.busy
           /\ j.pollTimer = s.pollTimer /\ j.pollGeneration = s.pollGeneration
           /\ \A q : q.kind # "poll" => (q \in j.sent <=> q \in s.sent)
<1>1. CASE s.run = None \/ s.pollingRequest = s.pollGeneration
  BY <1>1 DEF RefreshRun, SameShown
<1>2. CASE s.run # None /\ s.pollingRequest # s.pollGeneration
  <2> DEFINE n == s.pollGeneration
             x == [s EXCEPT !.pollingRequest = n]
             j == Call(x, "poll", s.run.id, n, NoThen)
             q == Query("poll", s.run.id, n, NoThen)
  <2>1. RefreshRun(s) = j
    BY <1>2 DEF RefreshRun
  <2>2. n \in Nat /\ s.run.id \in known /\ NoThen \in Thens /\ NoThen.kind = "none"
    BY <1>2 DEF Good, Panels, Records, NoThen, Thens
  <2> HIDE DEF n
  <2>3. x \in Panels(known)
    BY <2>2 DEF Good, Panels
  <2>4. /\ SameShown(x, s) /\ x.busy = s.busy /\ x.sent = s.sent
        /\ x.pollTimer = s.pollTimer /\ x.pollGeneration = s.pollGeneration
        /\ x.pollingRequest = n
    BY DEF Good, Panels, SameShown
  <2> HIDE DEF x
  <2>5. /\ j \in Panels(known) /\ j.sent = x.sent \cup {q} /\ SameShown(j, x)
        /\ SamePolls(j, x) /\ j.busy = x.busy
        /\ q.kind = "poll" /\ q.gen = n /\ q.then = NoThen
    <3>1. WellAsked("poll", s.run.id, NoThen, known)
      BY <2>2 DEF WellAsked, Kinds
    <3> QED
      BY <2>2, <2>3, <3>1, CallDoes
  <2> HIDE DEF j, q
  <2>6. SameShown(j, s) /\ j.busy = s.busy /\ j.sent = s.sent \cup {q}
    BY <2>4, <2>5 DEF SameShown
  <2>7. /\ j.pollTimer = s.pollTimer /\ j.pollGeneration = n /\ n = s.pollGeneration
        /\ j.pollingRequest = n
    BY <2>4, <2>5 DEF SamePolls, n
  <2>8. Polling(s) = {}
    BY <1>2 DEF Good, PollInv
  <2>9. Polling(j) = {q}
    BY <2>5, <2>6, <2>7, <2>8 DEF Polling
  <2>10. PollInv(j)
    BY <2>2, <2>5, <2>6, <2>7, <2>9 DEF Good, PollInv, SameShown
  <2>11. ShownInv(j)
    BY <2>5, <2>6, ShownFollows DEF Good, Harmless, Panels
  <2> QED
    BY <2>1, <2>5, <2>6, <2>7, <2>10, <2>11 DEF Good
<1> QED
  BY <1>1, <1>2

(* The interval of a panel that is on the screen.                          *)
LEMMA StartPollingGood ==
    ASSUME NEW known, NEW s, Good(s, known), s.visible, s.mounted
    PROVE  LET j == StartPolling(s) IN
           /\ Good(j, known) /\ SameShown(j, s) /\ j.busy = s.busy
           /\ \A q : q.kind # "poll" => (q \in j.sent <=> q \in s.sent)
<1> DEFINE x == StopPolling(s)
           y == RefreshRun(x)
           j == [y EXCEPT !.pollTimer = TRUE]
<1>1. StartPolling(s) = j
  BY DEF StartPolling
<1>2. Good(x, known) /\ SameShown(x, s) /\ x.sent = s.sent /\ x.busy = s.busy
  BY StopPollingGood
<1> HIDE DEF x
<1>3. x.mounted
  BY <1>2 DEF SameShown
<1>4. /\ Good(y, known) /\ SameShown(y, x) /\ y.busy = x.busy
      /\ \A q : q.kind # "poll" => (q \in y.sent <=> q \in x.sent)
  BY <1>2, <1>3, RefreshRunGood
<1> HIDE DEF y
<1>5. j \in Panels(known)
  <2>1. y \in Panels(known)
    BY <1>4 DEF Good
  <2> QED
    BY <2>1 DEF Panels
<1>6. /\ SameShown(j, y) /\ j.busy = y.busy /\ j.sent = y.sent
      /\ j.pollGeneration = y.pollGeneration /\ j.pollingRequest = y.pollingRequest
  BY <1>4 DEF Good, Panels, SameShown
<1> HIDE DEF j
<1>7. SameShown(j, s) /\ j.busy = s.busy /\ j.visible /\ j.mounted
  BY <1>2, <1>4, <1>6 DEF SameShown
<1>8. Polling(j) = Polling(y)
  BY <1>6 DEF Polling
<1>9. PollInv(j)
  BY <1>4, <1>6, <1>7, <1>8 DEF Good, PollInv, SameShown
<1>10. ShownInv(j)
  BY <1>4, <1>6, ShownFollows DEF Good, Panels
<1> QED
  BY <1>1, <1>2, <1>4, <1>5, <1>6, <1>7, <1>9, <1>10 DEF Good

-----------------------------------------------------------------------------
(* What the caller does in the end: Due says that it may.                  *)
Due(s, then) ==
    /\ then \in Thens
    /\ then.kind = "poll" => then.gen <= s.pollGeneration
    /\ then.kind = "start" => Unchained(s)

(* A poll that is over leaves its latch.                                   *)
LEMMA PollSettledGood ==
    ASSUME NEW known, NEW s, Good(s, known), NEW gen,
           gen # s.pollGeneration \/ Polling(s) = {}
    PROVE  LET j == PollSettled(s, gen) IN
           Good(j, known) /\ SameShown(j, s) /\ j.sent = s.sent
<1> DEFINE p == IF s.pollingRequest = gen THEN None ELSE s.pollingRequest
           j == [s EXCEPT !.pollingRequest = p]
<1>1. PollSettled(s, gen) = j
  BY DEF PollSettled
<1>2. p \in {None} \cup Nat /\ (s.pollingRequest # gen => p = s.pollingRequest)
  BY DEF Good, Panels
<1> HIDE DEF p
<1>3. j \in Panels(known)
  BY <1>2 DEF Good, Panels
<1>4. /\ SameShown(j, s) /\ j.busy = s.busy /\ j.sent = s.sent /\ j.pollingRequest = p
      /\ j.pollGeneration = s.pollGeneration /\ j.pollTimer = s.pollTimer
  BY DEF Good, Panels, SameShown
<1> HIDE DEF j
<1>5. Polling(j) = Polling(s)
  BY <1>4 DEF Polling
<1>6. PollInv(j)
  BY <1>2, <1>4, <1>5 DEF Good, PollInv, SameShown
<1>7. ShownInv(j)
  BY <1>4, ShownFollows DEF Good, Panels
<1> QED
  BY <1>1, <1>3, <1>4, <1>6, <1>7 DEF Good

(* The latch of an opened report is no part of the invariant.              *)
LEMMA OpenSettledGood ==
    ASSUME NEW known, NEW s, Good(s, known), NEW gen
    PROVE  LET j == OpenSettled(s, gen) IN
           Good(j, known) /\ SameShown(j, s) /\ j.sent = s.sent
<1> DEFINE o == IF s.historyRequestId = gen THEN None ELSE s.opening
           j == [s EXCEPT !.opening = o]
<1>1. OpenSettled(s, gen) = j
  BY DEF OpenSettled
<1>2. o \in {None} \cup known
  BY DEF Good, Panels
<1> HIDE DEF o
<1>3. j \in Panels(known)
  BY <1>2 DEF Good, Panels
<1>4. SameShown(j, s) /\ j.busy = s.busy /\ j.sent = s.sent /\ SamePolls(j, s)
  BY DEF Good, Panels, SameShown, SamePolls
<1> HIDE DEF j
<1>5. PollInv(j)
  BY <1>4, PollsFollow DEF Good, SameShown
<1>6. ShownInv(j)
  BY <1>4, ShownFollows DEF Good, Panels
<1> QED
  BY <1>1, <1>3, <1>4, <1>5, <1>6 DEF Good

(* start gives its latch back when nothing is left of its chain.           *)
LEMMA StartedGood ==
    ASSUME NEW known, NEW s, Good(s, known), Unchained(s)
    PROVE  LET j == Started(s) IN
           Good(j, known) /\ SameShown(j, s) /\ j.sent = s.sent
<1> DEFINE b == s.busy \ {"start"}
           j == [s EXCEPT !.busy = b]
<1>1. Started(s) = j
  BY DEF Started
<1>2. b \in SUBSET Buttons
  BY DEF Good, Panels
<1> HIDE DEF b
<1>3. j \in Panels(known)
  BY <1>2 DEF Good, Panels
<1>4. SameShown(j, s) /\ j.sent = s.sent /\ SamePolls(j, s)
  BY DEF Good, Panels, SameShown, SamePolls
<1> HIDE DEF j
<1>5. PollInv(j)
  BY <1>4, PollsFollow DEF Good, SameShown
<1>6. Unchained(j)
  BY <1>4 DEF Unchained
<1>7. ShownInv(j)
  BY <1>4, <1>6, ShownFollows DEF Good, Panels
<1> QED
  BY <1>1, <1>3, <1>4, <1>5, <1>7 DEF Good

(* What a caller does in the end keeps the invariant, if it is due.        *)
LEMMA ContinueGood ==
    ASSUME NEW known, NEW s, Good(s, known), NEW then, Due(s, then)
    PROVE  LET j == Continue(s, then) IN
           Good(j, known) /\ SameShown(j, s) /\ j.sent = s.sent
<1>1. CASE then.kind = "none"
  BY <1>1 DEF Continue, SameShown
<1>2. CASE then.kind = "poll"
  <2> DEFINE x == StopPolling(s)
             j == PollSettled(x, then.gen)
  <2>1. Continue(s, then) = j
    BY <1>2 DEF Continue
  <2>2. Good(x, known) /\ SameShown(x, s) /\ x.sent = s.sent /\ Polling(x) = {}
    BY StopPollingGood
  <2> HIDE DEF x
  <2>3. Good(j, known) /\ SameShown(j, x) /\ j.sent = x.sent
    BY <2>2, PollSettledGood
  <2> QED
    BY <2>1, <2>2, <2>3 DEF SameShown
<1>3. CASE then.kind = "open"
  BY <1>3, OpenSettledGood DEF Continue
<1>4. CASE then.kind = "start"
  BY <1>4, StartedGood DEF Continue, Started, Due
<1> QED
  BY <1>1, <1>2, <1>3, <1>4 DEF Due, Thens

(* The report asked for is of the run on the screen.                       *)
LEMMA LoadReportGood ==
    ASSUME NEW known, NEW s, Good(s, known), s.run # None, s.mounted,
           NEW then, Due(s, then), then.kind # "start"
    PROVE  LET j == LoadReport(s, then) IN
           Good(j, known) /\ SameShown(j, s)
<1> DEFINE key == <<s.historyRequestId, s.run.id>>
           id == s.run.id
           n == s.historyRequestId
<1>1. n \in Nat /\ id \in known /\ key \in Nat \X known
  BY DEF Good, Panels, Records
<1>2. CASE s.content # None \/ s.reportRequest = key
  BY <1>2, ContinueGood DEF LoadReport
<1>3. CASE ~(s.content # None \/ s.reportRequest = key) /\ id \notin Reported
  <2> DEFINE x == [s EXCEPT !.reportError = TRUE]
  <2>1. LoadReport(s, then) = Continue(x, then)
    BY <1>3 DEF LoadReport
  <2>2. x \in Panels(known)
    BY DEF Good, Panels
  <2>3. SameShown(x, s) /\ x.sent = s.sent /\ x.busy = s.busy /\ SamePolls(x, s)
    BY DEF Good, Panels, SameShown, SamePolls
  <2> HIDE DEF x
  <2>4. PollInv(x)
    BY <2>3, PollsFollow DEF Good, SameShown
  <2>6. ShownInv(x)
    BY <2>3, ShownFollows DEF Good, Panels
  <2>5. Good(x, known)
    BY <2>2, <2>4, <2>6 DEF Good
  <2>7. Due(x, then)
    BY <2>3 DEF Due, SamePolls
  <2>8. Good(Continue(x, then), known) /\ SameShown(Continue(x, then), x)
    BY <2>5, <2>7, ContinueGood
  <2> QED
    BY <2>1, <2>3, <2>8 DEF SameShown
<1>4. CASE ~(s.content # None \/ s.reportRequest = key) /\ id \in Reported
  <2> DEFINE x == [s EXCEPT !.reportError = FALSE, !.reportRequest = key]
             j == Call(x, "artifact", id, n, then)
             q == Query("artifact", id, n, then)
  <2>1. LoadReport(s, then) = j
    BY <1>4 DEF LoadReport
  <2> HIDE DEF key
  <2>2. x \in Panels(known)
    <3>1. s \in Panels(known) /\ key \in {None} \cup (Nat \X known)
      BY <1>1 DEF Good
    <3> QED
      BY <3>1 DEF Panels
  <2>3. SameShown(x, s) /\ x.sent = s.sent /\ x.busy = s.busy /\ SamePolls(x, s)
    BY DEF Good, Panels, SameShown, SamePolls
  <2> HIDE DEF x, n, id
  <2>4. WellAsked("artifact", id, then, known)
    BY <1>1 DEF WellAsked, Kinds, Due
  <2>5. /\ j \in Panels(known) /\ j.sent = x.sent \cup {q} /\ SameShown(j, x)
        /\ SamePolls(j, x) /\ j.busy = x.busy
        /\ q.kind = "artifact" /\ q.id = id /\ q.gen = n /\ q.then = then
    BY <1>1, <2>2, <2>4, CallDoes
  <2> HIDE DEF j, q
  <2>6. /\ SameShown(j, s) /\ j.busy = s.busy /\ j.sent = s.sent \cup {q}
        /\ SamePolls(j, s)
    BY <2>3, <2>5 DEF SameShown, SamePolls
  <2>7. Harmless(q, s)
    <3>1. ContextOf(id) = s.ctx
      BY DEF id, Good, ShownInv, OneContext
    <3> QED
      BY <2>5, <3>1 DEF Harmless, n
  <2>8. ShownInv(j)
    BY <2>6, <2>7, ShownFollows DEF Good, Panels
  <2>9. PollInv(j)
    <3>1. Polling(j) = Polling(s)
      BY <2>5, <2>6 DEF Polling, SamePolls
    <3> QED
      BY <2>5, <2>6, <3>1 DEF Good, PollInv, SameShown, SamePolls, Due
  <2> QED
    BY <2>1, <2>5, <2>6, <2>8, <2>9 DEF Good
<1> QED
  BY <1>2, <1>3, <1>4

(* No request is of a number that is new.                                  *)
LEMMA BumpedGood ==
    ASSUME NEW known, NEW s, Good(s, known), NEW j,
           j.historyRequestId = s.historyRequestId + 1, j.sent = s.sent,
           j.busy = s.busy, OneContext(j),
           j.run = None => j.previous = None /\ ~j.previousError,
           j.previous # None =>
             j.content # None /\ j.previous \in PreviousOf(j.content),
           j.previousError /\ j.content # None => PreviousOf(j.content) # {}
    PROVE  ShownInv(j) /\ \A kind \in Kinds \ {"poll", "pdf"} : Asks(j, kind) = {}
<1>1. s.historyRequestId \in Nat /\ \A q \in s.sent : q.gen \in Nat
  BY DEF Good, Panels, Queries
<1>2. \A q \in j.sent : q.kind \notin {"poll", "pdf"} => q.gen < j.historyRequestId
  BY <1>1 DEF Good, ShownInv, Aimed
<1>3. \A kind \in Kinds \ {"poll", "pdf"} : Asks(j, kind) = {}
  BY <1>1, <1>2 DEF Asks
<1>4. Asks(j, "open") = {} /\ Asks(j, "create") = {} /\ Asks(j, "history") = {}
      /\ Asks(j, "previous") = {}
  BY <1>3 DEF Kinds
<1>5. Aimed(j)
  BY <1>1, <1>2 DEF Aimed
<1>6. Compared(j) /\ Replaced(j) /\ Loads(j)
  BY <1>4 DEF Compared, Replaced, Loads
<1>7. Latched(j)
  BY DEF Good, ShownInv, Latched
<1> QED
  BY <1>3, <1>5, <1>6, <1>7 DEF ShownInv

(* Every load of the history has a number of its own.                      *)
LEMMA LoadHistoryGood ==
    ASSUME NEW known, NEW s, Good(s, known), s.mounted, NEW then, then \in Thens,
           \/ then.kind = "none"
           \/ then.kind = "start" /\ Unchained(s) /\ "start" \in s.busy
    PROVE  LET j == LoadReportHistory(s, then) IN
           /\ Good(j, known) /\ j.run = s.run /\ j.visible = s.visible
           /\ j.mounted = s.mounted
<1> DEFINE n == s.historyRequestId + 1
           x == [s EXCEPT !.historyRequestId = n, !.historyLoading = TRUE,
                          !.historyError = FALSE]
           c == s.ctx
           j == Call(x, "history", c, n, then)
           q == Query("history", c, n, then)
<1>1. LoadReportHistory(s, then) = j
  BY DEF LoadReportHistory
<1>2. n \in Nat /\ c \in Contexts
  BY DEF Good, Panels
<1>3. n = s.historyRequestId + 1 /\ c = s.ctx
  OBVIOUS
<1> HIDE DEF n, c
<1>4. x \in Panels(known)
  <2>1. s \in Panels(known)
    BY DEF Good
  <2> DEFINE y == [s EXCEPT !.historyRequestId = n]
  <2>2. y \in Panels(known)
    BY <1>2, <2>1 DEF Panels
  <2>3. x = [y EXCEPT !.historyLoading = TRUE, !.historyError = FALSE]
    BY <2>1 DEF Panels
  <2> HIDE DEF x, y
  <2> QED
    BY <2>2, <2>3 DEF Panels
<1>5. /\ x.historyRequestId = n /\ x.historyLoading /\ x.sent = s.sent
      /\ x.busy = s.busy /\ x.run = s.run /\ x.ctx = s.ctx /\ x.content = s.content
      /\ x.previous = s.previous /\ x.previousError = s.previousError
      /\ x.history = s.history /\ x.todayRun = s.todayRun
      /\ x.visible = s.visible /\ x.mounted = s.mounted
  BY DEF Good, Panels
<1>6. SamePolls(x, s)
  BY DEF Good, Panels, SamePolls
<1> HIDE DEF x
<1>7. WellAsked("history", c, then, known)
  BY <1>2 DEF WellAsked, Kinds
<1>8. /\ j \in Panels(known) /\ j.sent = x.sent \cup {q} /\ SameShown(j, x)
      /\ SamePolls(j, x) /\ j.busy = x.busy
      /\ q.kind = "history" /\ q.id = c /\ q.gen = n /\ q.then = then
  BY <1>2, <1>4, <1>7, CallDoes
<1> HIDE DEF j, q
<1>9. ShownInv(x) /\ \A kind \in Kinds \ {"poll", "pdf"} : Asks(x, kind) = {}
  <2>1. OneContext(x)
    BY <1>5 DEF Good, ShownInv, OneContext
  <2> QED
    BY <1>3, <1>5, <2>1, BumpedGood DEF Good, ShownInv, Compared
<1>17. /\ Asks(x, "history") = {} /\ Asks(x, "open") = {} /\ Asks(x, "create") = {}
       /\ Asks(x, "previous") = {}
  BY <1>9 DEF Kinds
<1>10. Asks(j, "history") = {q}
  BY <1>5, <1>8, <1>17 DEF Asks, SameShown
<1>11. Asks(j, "open") = {} /\ Asks(j, "create") = {} /\ Asks(j, "previous") = {}
  BY <1>8, <1>17 DEF Asks, SameShown
<1>12. Aimed(j)
  <2>1. About(q, j.ctx)
    BY <1>3, <1>5, <1>8 DEF About, SameShown
  <2> QED
    BY <1>2, <1>5, <1>8, <1>9, <2>1 DEF ShownInv, Aimed, SameShown
<1>13. OneContext(j) /\ Compared(j)
  BY <1>8, <1>9, <1>11 DEF ShownInv, OneContext, Compared, SameShown
<1>14. Replaced(j) /\ Loads(j)
  BY <1>5, <1>8, <1>10, <1>11 DEF Replaced, Loads, SameShown
<1>15. Latched(j)
  <2>1. Chain(q) => Unchained(s) /\ "start" \in s.busy
    BY <1>8 DEF Chain
  <2> QED
    BY <1>5, <1>8, <1>9, <2>1 DEF ShownInv, Latched, Unchained
<1>16. PollInv(j)
  <2>1. SamePolls(j, s) /\ j.visible = s.visible /\ j.mounted = s.mounted
    BY <1>5, <1>6, <1>8 DEF SamePolls, SameShown
  <2> QED
    BY <1>5, <1>8, <2>1, PollsFollow DEF Good
<1> QED
  BY <1>1, <1>5, <1>8, <1>12, <1>13, <1>14, <1>15, <1>16 DEF Good, ShownInv, SameShown

(* Only a run of today is compared, and an asset has one of those.         *)
LEMMA ComparedRuns ==
    ASSUME NEW p \in Runs, NEW r \in Runs, ContextOf(p) = ContextOf(r),
           PreviousOf(p) # {}, PreviousOf(r) # {}
    PROVE  p = r
BY DEF Runs, ContextOf, PreviousOf

(* The comparison with the predecessor of the report on the screen.        *)
LEMMA LoadPreviousGood ==
    ASSUME NEW known, IsKnown(known), NEW s, Good(s, known), s.run # None, s.mounted,
           s.content # None, s.content = s.run.id \/ s.previousError
    PROVE  LET j == LoadPreviousReport(s) IN
           /\ Good(j, known) /\ SamePolls(j, s)
           /\ j.run = s.run /\ j.content = s.content
<1> DEFINE x == [s EXCEPT !.previous = None, !.previousError = FALSE]
           id == s.run.id
           n == s.historyRequestId
           j == Call(x, "previous", id, n, NoThen)
           q == Query("previous", id, n, NoThen)
<1>1. x \in Panels(known)
  BY DEF Good, Panels
<1>2. /\ x.historyRequestId = s.historyRequestId /\ x.sent = s.sent
      /\ x.historyLoading = s.historyLoading
      /\ x.busy = s.busy /\ x.run = s.run /\ x.ctx = s.ctx /\ x.content = s.content
      /\ x.previous = None /\ ~x.previousError
      /\ x.history = s.history /\ x.todayRun = s.todayRun
      /\ x.visible = s.visible /\ x.mounted = s.mounted
  BY DEF Good, Panels
<1>3. SamePolls(x, s)
  BY DEF Good, Panels, SamePolls
<1> HIDE DEF x
<1>4. ShownInv(x) /\ \A kind : Asks(x, kind) = Asks(s, kind)
  <2>1. \A kind : Asks(x, kind) = Asks(s, kind)
    BY <1>2 DEF Asks
  <2>2. Aimed(x) /\ OneContext(x) /\ Latched(x)
    BY <1>2 DEF Good, ShownInv, Aimed, OneContext, Latched
  <2>3. Compared(x) /\ Replaced(x) /\ Loads(x)
    BY <1>2, <2>1 DEF Good, ShownInv, Compared, Replaced, Loads
  <2> QED
    BY <2>1, <2>2, <2>3 DEF ShownInv
<1>5. PollInv(x)
  BY <1>2, <1>3, PollsFollow DEF Good
<1>6. CASE PreviousOf(id) \cap s.history = {}
  BY <1>1, <1>2, <1>3, <1>4, <1>5, <1>6 DEF LoadPreviousReport, Good, x
<1>7. CASE PreviousOf(id) \cap s.history # {}
  <2>1. LoadPreviousReport(s) = j
    BY <1>7 DEF LoadPreviousReport, x
  <2>2. n \in Nat /\ id \in known /\ NoThen \in Thens /\ NoThen.kind = "none"
    BY DEF Good, Panels, Records, NoThen, Thens
  <2>3. s.content = id
    <3>1. CASE s.previousError
      <4>1. PreviousOf(s.content) # {} /\ PreviousOf(id) # {}
        BY <1>7, <3>1 DEF Good, ShownInv, Compared
      <4>2. ContextOf(s.content) = ContextOf(id)
        BY DEF Good, ShownInv, OneContext
      <4>3. s.content \in Runs /\ id \in Runs
        BY <2>2 DEF Good, Panels, IsKnown
      <4> QED
        BY <4>1, <4>2, <4>3, ComparedRuns
    <3> QED
      BY <3>1
  <2>4. n = s.historyRequestId /\ id = s.run.id
    OBVIOUS
  <2> HIDE DEF n, id
  <2>5. WellAsked("previous", id, NoThen, known)
    BY <1>7, <2>2 DEF WellAsked, Kinds
  <2>6. /\ j \in Panels(known) /\ j.sent = x.sent \cup {q} /\ SameShown(j, x)
        /\ SamePolls(j, x) /\ j.busy = x.busy
        /\ q.kind = "previous" /\ q.id = id /\ q.gen = n /\ q.then = NoThen
    BY <1>1, <2>2, <2>5, CallDoes
  <2> HIDE DEF j, q
  <2>7. /\ Asks(j, "previous") = Asks(x, "previous") \cup {q}
        /\ Asks(j, "open") = Asks(x, "open") /\ Asks(j, "create") = Asks(x, "create")
        /\ Asks(j, "history") = Asks(x, "history")
    BY <1>2, <2>4, <2>6 DEF Asks, SameShown
  <2>8. Aimed(j)
    <3>1. About(q, s.ctx)
      BY <2>4, <2>6 DEF About, Good, ShownInv, OneContext
    <3> QED
      BY <1>2, <1>4, <2>2, <2>4, <2>6, <3>1 DEF ShownInv, Aimed, SameShown
  <2>9. OneContext(j) /\ Compared(j)
    BY <1>2, <1>4, <2>3, <2>4, <2>6, <2>7 DEF ShownInv, OneContext, Compared, SameShown
  <2>10. Replaced(j)
    BY <1>2, <1>4, <2>4, <2>6, <2>7 DEF ShownInv, Replaced, SameShown
  <2>11. Loads(j) /\ Latched(j)
    BY <1>4, <2>6, <2>7 DEF ShownInv, Loads, Latched, Chain, SameShown
  <2>12. PollInv(j)
    BY <1>5, <2>2, <2>6, PollsFollow DEF SameShown
  <2> QED
    BY <1>2, <1>3, <2>1, <2>6, <2>8, <2>9, <2>10, <2>11, <2>12
       DEF Good, ShownInv, SamePolls, SameShown
<1> QED
  BY <1>6, <1>7

(* A run put on the screen is polled, or its report is loaded.             *)
LEMMA RestorePollingGood ==
    ASSUME NEW known, NEW s, Good(s, known), s.visible, s.mounted
    PROVE  Good(RestorePolling(s), known)
<1>1. CASE StatusOfRun(s) = Active
  BY <1>1, StartPollingGood DEF RestorePolling
<1>2. CASE StatusOfRun(s) = "succeeded"
  <2>1. s.run # None
    BY <1>2 DEF StatusOfRun
  <2>2. NoThen \in Thens /\ Due(s, NoThen) /\ NoThen.kind # "start"
    BY DEF Due, NoThen, Thens
  <2> QED
    BY <1>2, <2>1, <2>2, LoadReportGood DEF RestorePolling, Active
<1>3. CASE StatusOfRun(s) \notin {Active, "succeeded"}
  BY <1>3 DEF RestorePolling
<1> QED
  BY <1>1, <1>2, <1>3

-----------------------------------------------------------------------------
(* What the user does.                                                     *)
LEMMA NoThenDue == \A s : NoThen \in Thens /\ Due(s, NoThen) /\ NoThen.kind = "none"
BY DEF Due, NoThen, Thens

(* Opening shows what is there and asks for the history.                   *)
LEMMA OpenGood ==
    ASSUME NEW known, Good(panel, known), Open
    PROVE  Good(panel', known)
<1> DEFINE x == [panel EXCEPT !.visible = TRUE]
           y == LoadReportHistory(x, NoThen)
<1>1. panel' = RestorePolling(y) /\ panel.mounted
  BY DEF Open, ByUser
<1>2. x \in Panels(known)
  BY DEF Good, Panels
<1>3. /\ x.mounted = panel.mounted /\ x.ctx = panel.ctx /\ x.visible
      /\ x.run = panel.run /\ x.content = panel.content /\ x.previous = panel.previous
      /\ x.previousError = panel.previousError /\ x.history = panel.history
      /\ x.todayRun = panel.todayRun /\ x.historyRequestId = panel.historyRequestId
      /\ x.historyLoading = panel.historyLoading
      /\ x.busy = panel.busy /\ x.sent = panel.sent
  BY DEF Good, Panels
<1>4. SamePolls(x, panel)
  BY DEF Good, Panels, SamePolls
<1> HIDE DEF x
<1>5. \A kind : Asks(x, kind) = Asks(panel, kind)
  BY <1>3 DEF Asks
<1>6. ShownInv(x)
  <2>1. Aimed(x) /\ OneContext(x) /\ Latched(x)
    BY <1>3 DEF Good, ShownInv, Aimed, OneContext, Latched
  <2>2. Compared(x) /\ Replaced(x) /\ Loads(x)
    BY <1>3, <1>5 DEF Good, ShownInv, Compared, Replaced, Loads
  <2> QED
    BY <2>1, <2>2 DEF ShownInv
<1>7. PollInv(x)
  <2>1. Polling(x) = Polling(panel)
    BY <1>3, <1>4 DEF Polling, SamePolls
  <2> QED
    BY <1>1, <1>3, <1>4, <2>1 DEF Good, PollInv, SamePolls
<1>8. Good(x, known) /\ x.mounted
  BY <1>1, <1>2, <1>3, <1>6, <1>7 DEF Good
<1>9. Good(y, known) /\ y.visible /\ y.mounted
  BY <1>3, <1>8, LoadHistoryGood, NoThenDue
<1> QED
  BY <1>1, <1>9, RestorePollingGood

(* Closing or destroying the panel stops the polling and ages its requests.*)
LEMMA CloseGood ==
    ASSUME NEW known, Good(panel, known), Close \/ BeforeDestroy
    PROVE  Good(panel', known)
<1> DEFINE n == panel.historyRequestId + 1
           y == StopPolling(panel)
<1>1. n \in Nat
  BY DEF Good, Panels
<1>2. /\ Good(y, known) /\ SameShown(y, panel) /\ y.sent = panel.sent
      /\ y.busy = panel.busy /\ ~y.pollTimer /\ Polling(y) = {}
  BY StopPollingGood
<1>3. n = y.historyRequestId + 1
  BY <1>2 DEF SameShown
<1>4. \/ panel' = [[y EXCEPT !.visible = FALSE] EXCEPT !.historyRequestId = n]
      \/ panel' = [[y EXCEPT !.mounted = FALSE] EXCEPT !.historyRequestId = n]
  BY DEF Close, BeforeDestroy, ByUser, StopPolling, Good, Panels
<1> HIDE DEF y, n
<1>5. panel' \in Panels(known)
  <2>1. y \in Panels(known)
    BY <1>2 DEF Good
  <2>2. [y EXCEPT !.visible = FALSE] \in Panels(known)
        /\ [y EXCEPT !.mounted = FALSE] \in Panels(known)
    BY <2>1, PanelWith, FALSE \in BOOLEAN
  <2>3. /\ [[y EXCEPT !.visible = FALSE] EXCEPT !.historyRequestId = n] \in Panels(known)
        /\ [[y EXCEPT !.mounted = FALSE] EXCEPT !.historyRequestId = n] \in Panels(known)
    BY <1>1, <2>2, PanelWith
  <2> QED
    BY <1>4, <2>3
<1>6. /\ panel'.historyRequestId = y.historyRequestId + 1 /\ panel'.sent = y.sent
      /\ panel'.busy = y.busy /\ panel'.run = y.run /\ panel'.content = y.content
      /\ panel'.previous = y.previous /\ panel'.previousError = y.previousError
      /\ panel'.todayRun = y.todayRun /\ panel'.history = y.history
      /\ panel'.ctx = y.ctx
      /\ panel'.pollTimer = y.pollTimer /\ panel'.pollGeneration = y.pollGeneration
  BY <1>2, <1>3, <1>4 DEF Good, Panels
<1>7. ShownInv(panel')
  <2>1. OneContext(panel')
    BY <1>2, <1>6 DEF Good, ShownInv, OneContext
  <2> QED
    BY <1>2, <1>6, <2>1, BumpedGood DEF Good, ShownInv, Compared
<1>8. PollInv(panel')
  <2>1. Polling(panel') = {}
    BY <1>2, <1>6 DEF Polling
  <2> QED
    BY <1>2, <1>6, <2>1 DEF Good, PollInv
<1> QED
  BY <1>5, <1>7, <1>8 DEF Good

(* Another asset: nothing of the last one stays.                           *)
LEMMA SwitchGood ==
    ASSUME NEW known, Good(panel, known), NEW c \in Contexts, SwitchContext(c)
    PROVE  Good(panel', known)
<1> DEFINE n == panel.historyRequestId + 1
           x == [panel EXCEPT
               !.ctx = c, !.historyRequestId = n, !.run = None,
               !.content = None, !.reportRequest = None, !.reportError = FALSE,
               !.previous = None, !.previousError = FALSE,
               !.errorMessage = FALSE, !.history = {}, !.todayRun = None]
           y == StopPolling(x)
<1>1. /\ panel.mounted
      /\ panel' = IF panel.visible THEN LoadReportHistory(y, NoThen) ELSE y
  BY DEF SwitchContext, ByUser
<1>2. n \in Nat /\ n = panel.historyRequestId + 1
  BY DEF Good, Panels
<1> HIDE DEF n
<1>3. x \in Panels(known)
  <2> DEFINE v == [panel EXCEPT !.ctx = c, !.historyRequestId = n]
             w == [v EXCEPT !.run = None, !.content = None, !.reportRequest = None,
                            !.previous = None, !.todayRun = None, !.history = {}]
  <2>0. panel \in Panels(known)
    BY DEF Good
  <2>1. v \in Panels(known)
    <3> DEFINE z == [panel EXCEPT !.ctx = c]
    <3>1. z \in Panels(known)
      BY <2>0 DEF Panels
    <3> HIDE DEF z
    <3>2. [z EXCEPT !.historyRequestId = n] \in Panels(known)
      BY <1>2, <3>1 DEF Panels
    <3> QED
      BY <3>2 DEF z
  <2>2. x = [w EXCEPT !.reportError = FALSE, !.previousError = FALSE,
                      !.errorMessage = FALSE]
    BY DEF Good, Panels
  <2> HIDE DEF v, x
  <2>3. w \in Panels(known)
    BY <2>1 DEF Panels
  <2> HIDE DEF w
  <2> QED
    BY <2>2, <2>3 DEF Panels
<1>4. /\ x.historyRequestId = n /\ x.sent = panel.sent /\ x.busy = panel.busy
      /\ x.visible = panel.visible /\ x.mounted = panel.mounted
      /\ x.run = None /\ x.content = None /\ x.previous = None /\ ~x.previousError
      /\ x.history = {} /\ x.todayRun = None
  BY DEF Good, Panels
<1>5. SamePolls(x, panel)
  BY DEF Good, Panels, SamePolls
<1> HIDE DEF x
<1>6. ShownInv(x)
  <2>1. OneContext(x)
    BY <1>4 DEF OneContext
  <2> QED
    BY <1>2, <1>4, <2>1, BumpedGood
<1>7. PollInv(x)
  BY <1>4, <1>5, PollsFollow DEF Good
<1>8. Good(y, known) /\ y.mounted
  BY <1>1, <1>3, <1>4, <1>6, <1>7, StopPollingGood DEF Good, SameShown
<1> HIDE DEF y
<1>9. Good(LoadReportHistory(y, NoThen), known)
  BY <1>8, LoadHistoryGood, NoThenDue
<1> QED
  BY <1>1, <1>8, <1>9

(* The retry buttons.                                                      *)
LEMMA RetryGood ==
    ASSUME NEW known, IsKnown(known), Good(panel, known),
           RetryHistory \/ RetryReport \/ RetryComparison
    PROVE  Good(panel', known)
<1>1. CASE RetryHistory
  BY <1>1, LoadHistoryGood, NoThenDue DEF RetryHistory, ByUser
<1>2. CASE RetryReport
  <2>1. panel.run # None /\ panel.mounted /\ panel' = LoadReport(panel, NoThen)
    BY <1>2 DEF RetryReport, ByUser, StatusOfRun
  <2> QED
    BY <2>1, LoadReportGood, NoThenDue
<1>3. CASE RetryComparison
  BY <1>3, LoadPreviousGood DEF RetryComparison, ByUser
<1> QED
  BY <1>1, <1>2, <1>3

(* A run is created when none is on the screen or known of.                *)
LEMMA StartGood ==
    ASSUME NEW known, Good(panel, known), Start
    PROVE  Good(panel', known)
<1> DEFINE b == panel.busy \cup {"start"}
           c == panel.ctx
           n == panel.historyRequestId
           x == [panel EXCEPT !.busy = b, !.errorMessage = FALSE,
                              !.historyError = FALSE, !.content = None]
           j == Call(x, "create", c, n, NoThen)
           q == Query("create", c, n, NoThen)
<1>1. /\ panel.mounted /\ panel.run = None /\ ~panel.historyLoading
      /\ panel.todayRun = None /\ "start" \notin panel.busy
      /\ panel' = j
  BY DEF Start, ByUser, EmptyState
<1>2. b \in SUBSET Buttons /\ n \in Nat /\ c \in Contexts /\ "start" \in b
  BY DEF Good, Panels, Buttons
<1>3. n = panel.historyRequestId /\ c = panel.ctx
  OBVIOUS
<1> HIDE DEF b, n, c
<1>4. x \in Panels(known)
  <2> DEFINE y == [panel EXCEPT !.busy = b, !.content = None]
  <2>1. y \in Panels(known)
    BY <1>2 DEF Good, Panels
  <2>2. x = [y EXCEPT !.errorMessage = FALSE, !.historyError = FALSE]
    BY DEF Good, Panels
  <2> HIDE DEF x, y
  <2> QED
    BY <2>1, <2>2 DEF Panels
<1>5. /\ x.mounted = panel.mounted /\ x.ctx = panel.ctx /\ x.visible = panel.visible
      /\ x.run = panel.run /\ x.content = None /\ x.previous = panel.previous
      /\ x.previousError = panel.previousError /\ x.history = panel.history
      /\ x.todayRun = panel.todayRun /\ x.historyRequestId = panel.historyRequestId
      /\ x.historyLoading = panel.historyLoading
      /\ x.busy = b /\ x.sent = panel.sent
  BY DEF Good, Panels
<1>6. SamePolls(x, panel)
  BY DEF Good, Panels, SamePolls
<1> HIDE DEF x
<1>7. WellAsked("create", c, NoThen, known)
  BY <1>2, NoThenDue DEF WellAsked, Kinds
<1>8. /\ j \in Panels(known) /\ j.sent = x.sent \cup {q} /\ SameShown(j, x)
      /\ SamePolls(j, x) /\ j.busy = x.busy
      /\ q.kind = "create" /\ q.id = c /\ q.gen = n /\ q.then = NoThen
  BY <1>2, <1>4, <1>7, CallDoes
<1> HIDE DEF j, q
<1>9. /\ Asks(j, "previous") = Asks(panel, "previous")
      /\ Asks(j, "open") = Asks(panel, "open")
      /\ Asks(j, "history") = Asks(panel, "history")
  BY <1>5, <1>8 DEF Asks, SameShown
<1>10. Asks(j, "previous") = {} /\ Unchained(panel)
  BY <1>1, <1>9 DEF Good, ShownInv, Compared, Latched, Unchained
<1>11. Aimed(j)
  <2>1. About(q, c)
    BY <1>8 DEF About
  <2> QED
    BY <1>1, <1>2, <1>3, <1>5, <1>8, <2>1 DEF Good, ShownInv, Aimed, SameShown
<1>12. OneContext(j)
  BY <1>5, <1>8 DEF Good, ShownInv, OneContext, SameShown
<1>13. Compared(j)
  BY <1>1, <1>5, <1>8, <1>10 DEF Good, ShownInv, Compared, SameShown
<1>14. Replaced(j)
  BY <1>1, <1>5, <1>8, <1>9, <1>10 DEF Good, ShownInv, Replaced, SameShown
<1>15. Loads(j)
  BY <1>5, <1>8, <1>9 DEF Good, ShownInv, Loads, SameShown
<1>16. Latched(j)
  BY <1>2, <1>5, <1>8, <1>10 DEF Latched, Unchained
<1>17. PollInv(j)
  <2>1. SamePolls(j, panel) /\ j.visible = panel.visible /\ j.mounted = panel.mounted
    BY <1>5, <1>6, <1>8 DEF SamePolls, SameShown
  <2> QED
    BY <1>5, <1>8, <2>1, PollsFollow, NoThenDue DEF Good
<1> QED
  BY <1>1, <1>8, <1>11, <1>12, <1>13, <1>14, <1>15, <1>16, <1>17 DEF Good, ShownInv

(* The run of today is known of: none is being created.                    *)
LEMMA ViewTodayRunGood ==
    ASSUME NEW known, Good(panel, known), ViewTodayRun
    PROVE  Good(panel', known)
<1> DEFINE r == panel.todayRun
           x == [panel EXCEPT !.run = r]
<1>1. /\ panel.mounted /\ panel.visible /\ panel.run = None
      /\ r # None /\ panel' = RestorePolling(x)
  BY DEF ViewTodayRun, ByUser, EmptyState
<1>2. r \in {None} \cup Records(known) /\ r = panel.todayRun
  BY DEF Good, Panels
<1> HIDE DEF r
<1>3. x \in Panels(known)
  BY <1>2 DEF Good, Panels
<1>4. /\ x.mounted = panel.mounted /\ x.ctx = panel.ctx /\ x.visible = panel.visible
      /\ x.run = r /\ x.content = panel.content /\ x.previous = panel.previous
      /\ x.previousError = panel.previousError /\ x.history = panel.history
      /\ x.todayRun = panel.todayRun /\ x.historyRequestId = panel.historyRequestId
      /\ x.historyLoading = panel.historyLoading
      /\ x.busy = panel.busy /\ x.sent = panel.sent
  BY DEF Good, Panels
<1>5. SamePolls(x, panel)
  BY DEF Good, Panels, SamePolls
<1> HIDE DEF x
<1>6. \A kind : Asks(x, kind) = Asks(panel, kind)
  BY <1>4 DEF Asks
<1>7. Asks(x, "create") = {} /\ Asks(x, "previous") = {}
  BY <1>1, <1>2, <1>6 DEF Good, ShownInv, Replaced, Compared
<1>8. Aimed(x) /\ OneContext(x) /\ Latched(x)
  BY <1>1, <1>2, <1>4 DEF Good, ShownInv, Aimed, OneContext, Latched
<1>9. Compared(x) /\ Loads(x)
  BY <1>1, <1>4, <1>6, <1>7 DEF Good, ShownInv, Compared, Loads
<1>10. Replaced(x)
  BY <1>6, <1>7 DEF Good, ShownInv, Replaced
<1>11. PollInv(x)
  BY <1>4, <1>5, PollsFollow DEF Good
<1>12. Good(x, known)
  BY <1>3, <1>8, <1>9, <1>10, <1>11 DEF Good, ShownInv
<1> QED
  BY <1>1, <1>4, <1>12, RestorePollingGood

(* A harmless request.                                                     *)
LEMMA SendGood ==
    ASSUME NEW known, NEW s, Good(s, known), NEW kind \in {"pdf", "cancel", "resume", "clear"},
           NEW id \in known, NEW gen \in Nat,
           \/ kind = "pdf"
           \/ gen = s.historyRequestId /\ s.mounted /\ ContextOf(id) = s.ctx
    PROVE  Good(Call(s, kind, id, gen, NoThen), known)
<1> DEFINE j == Call(s, kind, id, gen, NoThen)
           q == Query(kind, id, gen, NoThen)
<1>1. WellAsked(kind, id, NoThen, known)
  BY NoThenDue DEF WellAsked, Kinds
<1>2. /\ j \in Panels(known) /\ j.sent = s.sent \cup {q} /\ SameShown(j, s)
      /\ SamePolls(j, s) /\ j.busy = s.busy
      /\ q.kind = kind /\ q.id = id /\ q.gen = gen /\ q.then = NoThen
  BY <1>1, CallDoes DEF Good
<1> HIDE DEF j, q
<1>3. Harmless(q, s)
  BY <1>2 DEF Harmless
<1>4. ShownInv(j)
  BY <1>2, <1>3, ShownFollows DEF Good, Panels
<1>5. PollInv(j)
  BY <1>2, PollsFollow, NoThenDue DEF Good, SameShown
<1> QED
  BY <1>2, <1>4, <1>5 DEF Good, j

(* A PDF is opened beside the panel.                                       *)
LEMMA OpenPdfGood ==
    ASSUME NEW known, Good(panel, known), NEW r, OpenPdf(r)
    PROVE  Good(panel', known)
<1> DEFINE x == [panel EXCEPT !.opening = r]
<1>1. panel' = Call(x, "pdf", r, 0, NoThen)
  BY DEF OpenPdf, ByUser
<1>2. r \in known
  <2>1. CASE r \in panel.history
    BY <2>1 DEF Good, Panels
  <2>2. CASE panel.todayRun # None /\ panel.todayRun = [id |-> r, status |-> "succeeded"]
    BY <2>2 DEF Good, Panels, Records
  <2> QED
    BY <2>1, <2>2 DEF OpenPdf
<1>3. x \in Panels(known)
  BY <1>2 DEF Good, Panels
<1>4. SameShown(x, panel) /\ x.sent = panel.sent /\ x.busy = panel.busy /\ SamePolls(x, panel)
  BY DEF Good, Panels, SameShown, SamePolls
<1> HIDE DEF x
<1>5. PollInv(x)
  BY <1>4, PollsFollow DEF Good, SameShown
<1>6. ShownInv(x)
  BY <1>4, ShownFollows DEF Good, Panels
<1>7. Good(x, known)
  BY <1>3, <1>5, <1>6 DEF Good
<1> QED
  BY <1>1, <1>2, <1>7, SendGood

(* cancel, resume and clearCheckpoint are about the run on the screen.     *)
LEMMA PressGood ==
    ASSUME NEW known, Good(panel, known), Cancel \/ Resume \/ ClearCheckpoint
    PROVE  Good(panel', known)
<1>1. PICK button \in {"cancel", "resume", "clear"}, allowed \in SUBSET Statuses :
        Press(button, allowed)
  BY DEF Cancel, Resume, ClearCheckpoint, Statuses, Terminal, Active
<1> DEFINE b == panel.busy \cup {button}
           e == panel.errorMessage /\ button # "resume"
           x == [panel EXCEPT !.busy = b, !.errorMessage = e]
           id == panel.run.id
           n == panel.historyRequestId
<1>2. panel.mounted /\ panel' = Call(x, button, id, n, NoThen) /\ panel.run # None
  BY <1>1 DEF Press, ByUser, StatusOfRun, Statuses, Terminal, Active
<1>3. b \in SUBSET Buttons /\ e \in BOOLEAN /\ id \in known /\ n \in Nat
  BY <1>2 DEF Good, Panels, Records, Buttons
<1>4. panel.busy \subseteq b /\ n = panel.historyRequestId /\ ContextOf(id) = panel.ctx
  BY <1>2 DEF Good, ShownInv, OneContext
<1> HIDE DEF b, e, id, n
<1>5. x \in Panels(known)
  <2> DEFINE y == [panel EXCEPT !.busy = b]
  <2>1. panel \in Panels(known)
    BY DEF Good
  <2>2. y \in Panels(known)
    BY <1>3, <2>1 DEF Panels
  <2>3. x = [y EXCEPT !.errorMessage = e]
    BY <2>1 DEF Panels
  <2> HIDE DEF x, y
  <2> QED
    BY <1>3, <2>2, <2>3 DEF Panels
<1>6. SameShown(x, panel) /\ x.sent = panel.sent /\ x.busy = b /\ SamePolls(x, panel)
  BY DEF Good, Panels, SameShown, SamePolls
<1> HIDE DEF x
<1>7. PollInv(x)
  BY <1>6, PollsFollow DEF Good, SameShown
<1>8. ShownInv(x)
  BY <1>4, <1>6, ShownFollows DEF Good, Panels
<1>9. Good(x, known)
  BY <1>5, <1>7, <1>8 DEF Good
<1>11. button \in {"pdf", "cancel", "resume", "clear"}
  OBVIOUS
<1>10. n = x.historyRequestId /\ x.mounted /\ ContextOf(id) = x.ctx
  BY <1>2, <1>4, <1>6 DEF SameShown
<1> QED
  BY <1>2, <1>3, <1>9, <1>10, <1>11, SendGood

(* The report of the history takes the place of the run once it is there.  *)
LEMMA OpenPrivateReportGood ==
    ASSUME NEW known, Good(panel, known), NEW r, OpenPrivateReport(r)
    PROVE  Good(panel', known)
<1> DEFINE n == panel.historyRequestId + 1
           x == [panel EXCEPT !.historyRequestId = n]
           y == StopPolling(x)
           z == [y EXCEPT !.opening = r, !.content = None, !.previous = None]
           j == Call(z, "open", r, n, NoThen)
           q == Query("open", r, n, NoThen)
<1>1. panel.mounted /\ r \in panel.history
  BY DEF OpenPrivateReport, ByUser
<1>2. n \in Nat /\ n = panel.historyRequestId + 1 /\ r \in known
  BY <1>1 DEF Good, Panels
<1>3. panel' = Call(z, "open", r, y.historyRequestId, NoThen)
  BY DEF OpenPrivateReport, ByUser
<1> HIDE DEF n
<1>4. x \in Panels(known)
  BY <1>2, PanelWith DEF Good
<1>5. /\ x.mounted = panel.mounted /\ x.ctx = panel.ctx /\ x.visible = panel.visible
      /\ x.run = panel.run /\ x.content = panel.content /\ x.previous = panel.previous
      /\ x.previousError = panel.previousError /\ x.history = panel.history
      /\ x.todayRun = panel.todayRun /\ x.historyRequestId = n
      /\ x.busy = panel.busy /\ x.sent = panel.sent
  BY DEF Good, Panels
<1>6. SamePolls(x, panel)
  BY DEF Good, Panels, SamePolls
<1> HIDE DEF x
<1>7. ShownInv(x) /\ \A kind \in Kinds \ {"poll", "pdf"} : Asks(x, kind) = {}
  <2>1. OneContext(x)
    BY <1>5 DEF Good, ShownInv, OneContext
  <2> QED
    BY <1>2, <1>5, <2>1, BumpedGood DEF Good, ShownInv, Compared
<1>8. PollInv(x)
  BY <1>5, <1>6, PollsFollow DEF Good
<1>9. Good(y, known) /\ SameShown(y, x) /\ y.sent = x.sent /\ y.busy = x.busy
  BY <1>4, <1>7, <1>8, StopPollingGood DEF Good
<1> HIDE DEF y
<1>10. z \in Panels(known)
  <2>1. y \in Panels(known)
    BY <1>9 DEF Good
  <2> QED
    BY <1>2, <2>1 DEF Panels
<1>11. /\ z.mounted /\ z.ctx = panel.ctx /\ z.visible = panel.visible
       /\ z.run = panel.run /\ z.content = None /\ z.previous = None
       /\ z.previousError = panel.previousError /\ z.history = panel.history
       /\ z.todayRun = panel.todayRun /\ z.historyRequestId = n
       /\ z.busy = panel.busy /\ z.sent = panel.sent
  <2>1. /\ z.mounted = y.mounted /\ z.ctx = y.ctx /\ z.visible = y.visible
        /\ z.run = y.run /\ z.content = None /\ z.previous = None
        /\ z.previousError = y.previousError /\ z.history = y.history
        /\ z.todayRun = y.todayRun /\ z.historyRequestId = y.historyRequestId
        /\ z.busy = y.busy /\ z.sent = y.sent
    BY <1>9 DEF Good, Panels
  <2> HIDE DEF z
  <2> QED
    BY <1>1, <1>5, <1>9, <2>1 DEF SameShown
<1>12. SamePolls(z, y) /\ z.visible = y.visible /\ z.mounted = y.mounted /\ z.sent = y.sent
  BY <1>9 DEF Good, Panels, SamePolls
<1> HIDE DEF z
<1>13. PollInv(z)
  BY <1>9, <1>12, PollsFollow DEF Good
<1>14. WellAsked("open", r, NoThen, known)
  BY <1>2, NoThenDue DEF WellAsked, Kinds
<1>15. /\ j \in Panels(known) /\ j.sent = z.sent \cup {q} /\ SameShown(j, z)
       /\ SamePolls(j, z) /\ j.busy = z.busy
       /\ q.kind = "open" /\ q.id = r /\ q.gen = n /\ q.then = NoThen
  BY <1>2, <1>10, <1>14, CallDoes
<1>16. panel' = j
  BY <1>3, <1>5, <1>9 DEF SameShown
<1> HIDE DEF j, q
<1>17. /\ Asks(x, "previous") = {} /\ Asks(x, "open") = {}
       /\ Asks(x, "history") = {} /\ Asks(x, "create") = {}
  BY <1>7 DEF Kinds
<1>18. /\ Asks(j, "previous") = {} /\ Asks(j, "open") = {q}
       /\ Asks(j, "history") = {} /\ Asks(j, "create") = {}
  BY <1>5, <1>11, <1>15, <1>17 DEF Asks, SameShown
<1>19. Aimed(j)
  <2>1. About(q, panel.ctx)
    BY <1>1, <1>15 DEF About, Good, ShownInv, OneContext
  <2> QED
    BY <1>2, <1>5, <1>7, <1>11, <1>15, <2>1 DEF ShownInv, Aimed, SameShown
<1>20. OneContext(j)
  BY <1>11, <1>15 DEF Good, ShownInv, OneContext, SameShown
<1>21. Compared(j)
  BY <1>11, <1>15, <1>18 DEF Good, ShownInv, Compared, SameShown
<1>22. Replaced(j) /\ Loads(j)
  BY <1>18 DEF Replaced, Loads
<1>23. Latched(j)
  BY <1>11, <1>15, NoThenDue DEF Good, ShownInv, Latched, Chain
<1>24. PollInv(j)
  BY <1>13, <1>15, PollsFollow, NoThenDue DEF SameShown
<1> QED
  BY <1>15, <1>16, <1>19, <1>20, <1>21, <1>22, <1>23, <1>24 DEF Good, ShownInv

(* Whatever the user does keeps the invariant.                             *)
LEMMA UserGood ==
    ASSUME NEW known, IsKnown(known), Good(panel, known), User
    PROVE  Good(panel', known)
BY OpenGood, CloseGood, SwitchGood, RetryGood, StartGood, ViewTodayRunGood,
   OpenPdfGood, PressGood, OpenPrivateReportGood DEF User

-----------------------------------------------------------------------------
(* A request that has settled, and what was true of it while it had not.   *)
Leaves(s, q, known) ==
    /\ q \in Queries(known) /\ Due(s, q.then)
    /\ q.kind \notin {"poll", "pdf"} /\ q.gen = s.historyRequestId =>
         s.mounted /\ About(q, s.ctx)
    /\ q.kind = "previous" /\ q.gen = s.historyRequestId =>
         s.run # None /\ (s.run.id = q.id => s.content = q.id)
    /\ q.kind \in {"open", "create"} /\ q.gen = s.historyRequestId =>
         /\ \A p \in Asks(s, "previous") : s.run.id = p.id
         /\ Asks(s, "open") = {} \/ Asks(s, "create") = {}
         /\ Asks(s, "open") \cup Asks(s, "create") # {} => s.run = None
    /\ q.kind = "create" /\ q.gen = s.historyRequestId => Asks(s, "create") = {}
    /\ q.kind = "open" /\ q.gen = s.historyRequestId => Asks(s, "open") = {}
    /\ q.kind = "history" /\ q.gen = s.historyRequestId =>
         Asks(s, "history") = {} /\ Asks(s, "create") = {}
    /\ Chain(q) => Unchained(s) /\ "start" \in s.busy
    /\ q.kind = "poll" =>
         /\ q.gen <= s.pollGeneration
         /\ q.gen = s.pollGeneration => s.mounted /\ Polling(s) = {}

(* It is gone, and the panel without it is as good.                        *)
LEMMA WithoutLeaves ==
    ASSUME NEW known, Good(panel, known), NEW q \in panel.sent
    PROVE  Good(Without(q), known) /\ Leaves(Without(q), q, known)
<1> DEFINE s == Without(q)
<1>1. s = [panel EXCEPT !.sent = panel.sent \ {q}]
  BY DEF Without
<1>2. q \in Queries(known) /\ panel.sent \ {q} \in SUBSET Queries(known)
  BY DEF Good, Panels
<1>3. s \in Panels(known)
  BY <1>1, <1>2 DEF Good, Panels
<1>4. /\ SameShown(s, panel) /\ SamePolls(s, panel) /\ s.sent = panel.sent \ {q}
      /\ s.busy = panel.busy
  BY <1>1 DEF Good, Panels, SameShown, SamePolls
<1> HIDE DEF s
<1>5. ShownInv(s)
  BY <1>4, ShownFollows DEF Good, Panels
<1>6. PollInv(s)
  BY <1>4, PollsFollow DEF Good, SameShown
<1>7. \A kind : Asks(s, kind) = Asks(panel, kind) \ {q}
  BY <1>4 DEF Asks, SameShown
<1>8. Polling(s) = Polling(panel) \ {q}
  BY <1>4 DEF Polling, SamePolls
<1>9. /\ q.then \in Thens /\ (q.then.kind = "start" => q.kind = "history")
  BY <1>2 DEF Queries, Shape
<1>10. Chain(q) => Unchained(s) /\ "start" \in s.busy
  BY <1>4 DEF Good, ShownInv, Latched, Unchained
<1>11. Due(s, q.then)
  BY <1>4, <1>9, <1>10 DEF Due, Chain, Good, PollInv, SamePolls
<1>12. q.kind \notin {"poll", "pdf"} /\ q.gen = s.historyRequestId =>
         s.mounted /\ About(q, s.ctx)
  BY <1>4 DEF Good, ShownInv, Aimed, SameShown
<1>13. q.kind = "previous" /\ q.gen = s.historyRequestId =>
         s.run # None /\ (s.run.id = q.id => s.content = q.id)
  BY <1>4 DEF Good, ShownInv, Compared, SameShown, Asks
<1>14. ASSUME q.kind \in {"open", "create"}, q.gen = s.historyRequestId
       PROVE  /\ \A p \in Asks(s, "previous") : s.run.id = p.id
              /\ Asks(s, "open") = {} \/ Asks(s, "create") = {}
              /\ Asks(s, "open") \cup Asks(s, "create") # {} => s.run = None
              /\ q.kind = "create" => Asks(s, "create") = {}
              /\ q.kind = "open" => Asks(s, "open") = {}
  <2>1. q \in Asks(panel, q.kind)
    BY <1>4, <1>14 DEF Asks, SameShown
  <2>2. \A p \in Asks(s, "previous") : s.run.id = p.id
    BY <1>4, <1>7, <1>14, <2>1 DEF Good, ShownInv, Replaced, SameShown
  <2>3. CASE q.kind = "create"
    <3>1. Asks(s, "create") = {}
      BY <1>7, <2>1, <2>3 DEF Good, ShownInv, Latched, Chain, Asks
    <3>2. Asks(s, "open") # {} => s.run = None
      BY <1>4, <1>7, <2>1, <2>3 DEF Good, ShownInv, Replaced, SameShown
    <3> QED
      BY <2>2, <2>3, <3>1, <3>2
  <2>4. CASE q.kind = "open"
    <3>1. Asks(s, "open") = {}
      BY <1>7, <2>1, <2>4 DEF Good, ShownInv, Replaced
    <3>2. Asks(s, "create") # {} => s.run = None
      BY <1>4, <1>7, <2>1, <2>4 DEF Good, ShownInv, Replaced, SameShown
    <3> QED
      BY <2>2, <2>4, <3>1, <3>2
  <2> QED
    BY <1>14, <2>3, <2>4
<1>15. q.kind = "history" /\ q.gen = s.historyRequestId =>
         Asks(s, "history") = {} /\ Asks(s, "create") = {}
  <2> SUFFICES ASSUME q.kind = "history", q.gen = s.historyRequestId
               PROVE  Asks(s, "history") = {} /\ Asks(s, "create") = {}
    OBVIOUS
  <2>1. q \in Asks(panel, "history")
    BY <1>4 DEF Asks, SameShown
  <2>2. Asks(s, "history") = {}
    BY <1>7, <2>1 DEF Good, ShownInv, Loads
  <2>3. Asks(s, "create") = {}
    BY <1>7, <2>1 DEF Good, ShownInv, Loads, Replaced
  <2> QED
    BY <2>2, <2>3
<1>16. q.kind = "poll" =>
         /\ q.gen <= s.pollGeneration
         /\ q.gen = s.pollGeneration => s.mounted /\ Polling(s) = {}
  <2> SUFFICES ASSUME q.kind = "poll"
               PROVE  /\ q.gen <= s.pollGeneration
                      /\ q.gen = s.pollGeneration => s.mounted /\ Polling(s) = {}
    OBVIOUS
  <2>1. q.gen <= s.pollGeneration
    BY <1>4 DEF Good, PollInv, SamePolls
  <2>2. q.gen = s.pollGeneration => q \in Polling(panel)
    BY <1>4 DEF Polling, SamePolls
  <2> QED
    BY <1>4, <1>8, <2>1, <2>2 DEF Good, PollInv, SameShown
<1>17. Good(s, known)
  BY <1>3, <1>5, <1>6 DEF Good
<1>18. Leaves(s, q, known)
  BY <1>2, <1>10, <1>11, <1>12, <1>13, <1>14, <1>15, <1>16 DEF Leaves
<1> QED
  BY <1>17, <1>18 DEF s

(* What else is in the panel, the invariant does not look at.              *)
LEMMA SameGood ==
    ASSUME NEW known, NEW s, Good(s, known), NEW j \in Panels(known),
           SameShown(j, s), SamePolls(j, s), j.sent = s.sent,
           "start" \in s.busy => "start" \in j.busy
    PROVE  Good(j, known)
<1>1. ShownInv(j)
  BY ShownFollows DEF Good, Panels
<1>2. PollInv(j)
  BY PollsFollow DEF Good, SameShown
<1> QED
  BY <1>1, <1>2 DEF Good

(* Another run on the screen: the same one, or one that was asked for.     *)
MayShow(s, q, r) ==
    /\ ContextOf(r.id) = s.ctx
    /\ \/ s.run # None /\ r.id = s.run.id
       \/ q.kind \in {"open", "create"} /\ q.gen = s.historyRequestId

(* The run it brings replaces the one on the screen.                       *)
LEMMA RunGood ==
    ASSUME NEW known, IsKnown(known), NEW s, Good(s, known), NEW q, Leaves(s, q, known),
           NEW r \in Records(known), MayShow(s, q, r)
    PROVE  LET j == [s EXCEPT !.run = r] IN
           /\ Good(j, known) /\ SamePolls(j, s) /\ j.run = r /\ j.sent = s.sent
           /\ j.visible = s.visible /\ j.mounted = s.mounted
           /\ j.historyRequestId = s.historyRequestId /\ j.busy = s.busy
<1> DEFINE j == [s EXCEPT !.run = r]
<1>1. j \in Panels(known)
  BY DEF Good, Panels
<1>2. /\ j.mounted = s.mounted /\ j.ctx = s.ctx /\ j.visible = s.visible
      /\ j.run = r /\ j.content = s.content /\ j.previous = s.previous
      /\ j.previousError = s.previousError /\ j.history = s.history
      /\ j.todayRun = s.todayRun /\ j.historyRequestId = s.historyRequestId
      /\ j.historyLoading = s.historyLoading
      /\ j.busy = s.busy /\ j.sent = s.sent
  BY DEF Good, Panels
<1>3. SamePolls(j, s)
  BY DEF Good, Panels, SamePolls
<1> HIDE DEF j
<1>4. \A kind : Asks(j, kind) = Asks(s, kind)
  BY <1>2 DEF Asks
<1>5. r # None
  BY NoneAssumption DEF Records, IsKnown
<1>6. Aimed(j) /\ OneContext(j) /\ Latched(j)
  BY <1>2 DEF MayShow, Good, ShownInv, Aimed, OneContext, Latched
<1>7. Loads(j)
  BY <1>2, <1>4 DEF Good, ShownInv, Loads
<1>8. Compared(j) /\ Replaced(j)
  <2>1. CASE s.run # None /\ r.id = s.run.id
    BY <1>2, <1>4, <1>5, <2>1 DEF Good, ShownInv, Compared, Replaced
  <2>2. CASE q.kind \in {"open", "create"} /\ q.gen = s.historyRequestId
    <3>1. Asks(s, "open") \cup Asks(s, "create") # {} => Asks(s, "previous") = {}
      BY <2>2 DEF Leaves, Good, ShownInv, Compared
    <3>2. Compared(j)
      <4>1. \A p \in Asks(s, "previous") : r.id = p.id => s.content = p.id
        BY <2>2 DEF Leaves, Good, ShownInv, Compared
      <4> QED
        BY <1>2, <1>4, <1>5, <4>1 DEF Good, ShownInv, Compared
    <3>3. Replaced(j)
      BY <1>2, <1>4, <2>2, <3>1 DEF Leaves, Good, ShownInv, Replaced
    <3> QED
      BY <3>2, <3>3
  <2> QED
    BY <2>1, <2>2 DEF MayShow
<1>9. PollInv(j)
  BY <1>2, <1>3, PollsFollow DEF Good
<1>10. Good(j, known)
  BY <1>1, <1>6, <1>7, <1>8, <1>9 DEF Good, ShownInv
<1> QED
  BY <1>2, <1>3, <1>10 DEF j

(* What is due stays due while the requests and the polls stay.            *)
LEMMA DueSame ==
    ASSUME NEW s, NEW j, NEW then, Due(s, then), j.sent = s.sent,
           j.pollGeneration = s.pollGeneration
    PROVE  Due(j, then)
BY DEF Due, Unchained

(* The history that arrives, or its failure, ends the spinner it belongs   *)
(* to and replaces the history only of its own number.                     *)
LEMMA TakenGood ==
    ASSUME NEW known, NEW s, Good(s, known), NEW q, Leaves(s, q, known),
           q.kind = "history", NEW j \in Panels(known),
           j.visible = s.visible, j.mounted = s.mounted, j.ctx = s.ctx,
           j.run = s.run, j.content = s.content, j.previous = s.previous,
           j.previousError = s.previousError, j.sent = s.sent, j.busy = s.busy,
           j.historyRequestId = s.historyRequestId, SamePolls(j, s),
           j.historyLoading = (s.historyLoading /\ q.gen # s.historyRequestId),
           OneContext(j),
           j.todayRun = s.todayRun \/ q.gen = s.historyRequestId
    PROVE  Good(j, known)
<1>1. \A kind : Asks(j, kind) = Asks(s, kind)
  BY DEF Asks
<1>2. Aimed(j) /\ Compared(j) /\ Latched(j)
  BY <1>1 DEF Good, ShownInv, Aimed, Compared, Latched
<1>3. Replaced(j)
  <2>1. q.gen = s.historyRequestId => Asks(s, "create") = {}
    BY DEF Leaves
  <2> QED
    BY <1>1, <2>1 DEF Good, ShownInv, Replaced
<1>4. Loads(j)
  <2>1. q.gen = s.historyRequestId => Asks(s, "history") = {}
    BY DEF Leaves
  <2> QED
    BY <1>1, <2>1 DEF Good, ShownInv, Loads
<1>5. PollInv(j)
  BY PollsFollow DEF Good
<1> QED
  BY <1>2, <1>3, <1>4, <1>5 DEF Good, ShownInv

(* What is in the history, of an asset, is of that asset.                  *)
LEMMA HistoryAnsweredGood ==
    ASSUME NEW known, NEW s, Good(s, known), NEW q, Leaves(s, q, known),
           q.kind = "history", q.data # None
    PROVE  Good(HistoryAnswered(s, q), known)
<1> DEFINE h == q.data.history
           t == q.data.todayRun
           l == s.historyLoading /\ q.gen # s.historyRequestId
           x == [s EXCEPT !.history = h, !.todayRun = t, !.historyLoading = FALSE]
           y == [s EXCEPT !.historyLoading = l]
           j == IF IsCurrent(s, q) THEN x ELSE y
<1>1. s \in Panels(known) /\ Due(s, q.then)
  BY DEF Good, Leaves
<1>2. HistoryData(q, known)
  BY DEF Leaves, Queries, Shape
<1>3. HistoryAnswered(s, q) = Continue(j, q.then)
  BY DEF HistoryAnswered
<1>4. CASE IsCurrent(s, q)
  <2>1. q.gen = s.historyRequestId /\ s.mounted /\ q.id = s.ctx
    BY <1>4 DEF IsCurrent, Leaves, About
  <2>2. h \in SUBSET known /\ t \in {None} \cup Records(known)
    BY <1>2 DEF HistoryData
  <2>3. /\ \A r \in h : ContextOf(r) = s.ctx
        /\ t # None => ContextOf(t.id) = s.ctx
    BY <1>2, <2>1 DEF HistoryData
  <2> HIDE DEF h, t
  <2>4. x \in Panels(known)
    <3> DEFINE z == [s EXCEPT !.history = h]
               w == [z EXCEPT !.todayRun = t]
    <3>1. z \in Panels(known)
      BY <1>1, <2>2 DEF Panels
    <3>2. w \in Panels(known)
      <4> HIDE DEF z
      <4> QED
        BY <3>1, <2>2 DEF Panels
    <3>3. x = [w EXCEPT !.historyLoading = FALSE]
      BY <1>1 DEF Panels
    <3> HIDE DEF w, x
    <3> QED
      BY <3>2, <3>3, PanelWith
  <2>5. /\ x.visible = s.visible /\ x.mounted = s.mounted /\ x.ctx = s.ctx
        /\ x.run = s.run /\ x.content = s.content /\ x.previous = s.previous
        /\ x.previousError = s.previousError /\ x.sent = s.sent
        /\ x.busy = s.busy /\ x.historyRequestId = s.historyRequestId
        /\ x.historyLoading = FALSE /\ x.history = h /\ x.todayRun = t
    BY <1>1 DEF Panels
  <2>6. SamePolls(x, s)
    BY <1>1 DEF Panels, SamePolls
  <2> HIDE DEF x
  <2>7. OneContext(x)
    BY <2>3, <2>5 DEF Good, ShownInv, OneContext
  <2>8. Good(x, known)
    BY <2>1, <2>4, <2>5, <2>6, <2>7, TakenGood
  <2>9. Due(x, q.then)
    BY <1>1, <2>5, <2>6, DueSame DEF SamePolls
  <2>10. Good(Continue(x, q.then), known)
    BY <2>8, <2>9, ContinueGood
  <2> QED
    BY <1>3, <1>4, <2>10
<1>5. CASE ~IsCurrent(s, q)
  <2>1. l \in BOOLEAN
    OBVIOUS
  <2>2. l = (s.historyLoading /\ q.gen # s.historyRequestId)
    OBVIOUS
  <2> HIDE DEF l
  <2>4. y \in Panels(known)
    BY <1>1, <2>1, PanelWith
  <2>5. /\ y.visible = s.visible /\ y.mounted = s.mounted /\ y.ctx = s.ctx
        /\ y.run = s.run /\ y.content = s.content /\ y.previous = s.previous
        /\ y.previousError = s.previousError /\ y.sent = s.sent
        /\ y.busy = s.busy /\ y.historyRequestId = s.historyRequestId
        /\ y.historyLoading = l /\ y.history = s.history
        /\ y.todayRun = s.todayRun
    BY <1>1 DEF Panels
  <2>6. SamePolls(y, s)
    BY <1>1 DEF Panels, SamePolls
  <2> HIDE DEF y
  <2>7. OneContext(y)
    BY <2>5 DEF Good, ShownInv, OneContext
  <2>8. Good(y, known)
    BY <2>2, <2>4, <2>5, <2>6, <2>7, TakenGood
  <2>9. Due(y, q.then)
    BY <1>1, <2>5, <2>6, DueSame DEF SamePolls
  <2>10. Good(Continue(y, q.then), known)
    BY <2>8, <2>9, ContinueGood
  <2> QED
    BY <1>3, <1>5, <2>10
<1> QED
  BY <1>4, <1>5

(* A function that leaves the screen, the polls and the requests.          *)
Aside(j, s) ==
    /\ SameShown(j, s) /\ SamePolls(j, s) /\ j.sent = s.sent
    /\ "start" \in s.busy => "start" \in j.busy

(* The marks of an error, the latches and the buttons but start.           *)
LEMMA MarksGood ==
    ASSUME NEW known, NEW s, Good(s, known), NEW b \in BOOLEAN
    PROVE  /\ LET j == [s EXCEPT !.errorMessage = b] IN Good(j, known) /\ Aside(j, s)
           /\ LET j == [s EXCEPT !.reportError = b] IN Good(j, known) /\ Aside(j, s)
<1>1. s \in Panels(known)
  BY DEF Good
<1>2. \A j \in Panels(known) : Aside(j, s) => Good(j, known)
  BY SameGood DEF Aside
<1>3. LET j == [s EXCEPT !.errorMessage = b] IN j \in Panels(known) /\ Aside(j, s)
  BY <1>1 DEF Panels, Aside, SameShown, SamePolls
<1>4. LET j == [s EXCEPT !.reportError = b] IN j \in Panels(known) /\ Aside(j, s)
  BY <1>1 DEF Panels, Aside, SameShown, SamePolls
<1> QED
  BY <1>2, <1>3, <1>4

(* The latch of the PDF.                                                   *)
LEMMA OpeningGood ==
    ASSUME NEW known, NEW s, Good(s, known)
    PROVE  Good([s EXCEPT !.opening = None], known)
<1> DEFINE j == [s EXCEPT !.opening = None]
<1>1. j \in Panels(known) /\ Aside(j, s)
  BY DEF Good, Panels, Aside, SameShown, SamePolls
<1> QED
  BY <1>1, SameGood DEF Aside

(* The latch of the report.                                                *)
LEMMA ReportSettledGood ==
    ASSUME NEW known, NEW s, Good(s, known), NEW q
    PROVE  LET j == ReportSettled(s, q) IN Good(j, known) /\ Aside(j, s)
<1> DEFINE k == IF s.reportRequest = <<q.gen, q.id>> THEN None ELSE s.reportRequest
           j == [s EXCEPT !.reportRequest = k]
<1>1. k \in {None} \cup (Nat \X known)
  BY DEF Good, Panels
<1>2. ReportSettled(s, q) = j
  BY DEF ReportSettled
<1> HIDE DEF k
<1>3. j \in Panels(known) /\ Aside(j, s)
  BY <1>1 DEF Good, Panels, Aside, SameShown, SamePolls
<1> HIDE DEF j
<1>4. Good(j, known)
  BY <1>3, SameGood DEF Aside
<1> QED
  BY <1>2, <1>3, <1>4

(* The latch of a button.                                                  *)
LEMMA ReleasedGood ==
    ASSUME NEW known, NEW s, Good(s, known), NEW q, q.kind # "start"
    PROVE  Good(Released(s, q), known)
<1> DEFINE b == s.busy \ {q.kind}
           j == [s EXCEPT !.busy = b]
<1>1. b \in SUBSET Buttons /\ ("start" \in s.busy => "start" \in b)
  BY DEF Good, Panels
<1>2. Released(s, q) = j
  BY DEF Released
<1> HIDE DEF b
<1>3. j \in Panels(known)
  BY <1>1 DEF Good, Panels
<1>4. Aside(j, s)
  BY <1>1 DEF Good, Panels, Aside, SameShown, SamePolls
<1> HIDE DEF j
<1>5. Good(j, known)
  BY <1>3, <1>4, SameGood DEF Aside
<1> QED
  BY <1>2, <1>5

(* A history that failed empties the list it was asked for.                *)
LEMMA HistoryFailedGood ==
    ASSUME NEW known, NEW s, Good(s, known), NEW q, Leaves(s, q, known),
           q.kind = "history"
    PROVE  Good(Failed(s, q), known)
<1> DEFINE l == s.historyLoading /\ q.gen # s.historyRequestId
           x == [s EXCEPT !.history = {}, !.todayRun = None,
                          !.historyError = TRUE, !.historyLoading = FALSE]
           y == [s EXCEPT !.historyLoading = l]
           j == IF IsCurrent(s, q) THEN x ELSE y
<1>1. s \in Panels(known) /\ Due(s, q.then)
  BY DEF Good, Leaves
<1>3. Failed(s, q) = Continue(j, q.then)
  BY DEF Failed
<1>4. CASE IsCurrent(s, q)
  <2>1. q.gen = s.historyRequestId
    BY <1>4 DEF IsCurrent
  <2>4. x \in Panels(known)
    <3> DEFINE z == [s EXCEPT !.history = {}, !.todayRun = None]
               w == [z EXCEPT !.historyError = TRUE]
    <3>1. z \in Panels(known)
      BY <1>1 DEF Panels
    <3>2. w \in Panels(known)
      <4> HIDE DEF z
      <4> QED
        BY <3>1 DEF Panels
    <3>3. x = [w EXCEPT !.historyLoading = FALSE]
      BY <1>1 DEF Panels
    <3> HIDE DEF w, x
    <3> QED
      BY <3>2, <3>3, PanelWith
  <2>5. /\ x.visible = s.visible /\ x.mounted = s.mounted /\ x.ctx = s.ctx
        /\ x.run = s.run /\ x.content = s.content /\ x.previous = s.previous
        /\ x.previousError = s.previousError /\ x.sent = s.sent
        /\ x.busy = s.busy /\ x.historyRequestId = s.historyRequestId
        /\ x.historyLoading = FALSE /\ x.history = {} /\ x.todayRun = None
    BY <1>1 DEF Panels
  <2>6. SamePolls(x, s)
    BY <1>1 DEF Panels, SamePolls
  <2> HIDE DEF x
  <2>7. OneContext(x)
    BY <2>5 DEF Good, ShownInv, OneContext
  <2>8. Good(x, known)
    BY <2>1, <2>4, <2>5, <2>6, <2>7, TakenGood
  <2>9. Due(x, q.then)
    BY <1>1, <2>5, <2>6, DueSame DEF SamePolls
  <2>10. Good(Continue(x, q.then), known)
    BY <2>8, <2>9, ContinueGood
  <2> QED
    BY <1>3, <1>4, <2>10
<1>5. CASE ~IsCurrent(s, q)
  <2>2. l \in BOOLEAN /\ l = (s.historyLoading /\ q.gen # s.historyRequestId)
    OBVIOUS
  <2> HIDE DEF l
  <2>4. y \in Panels(known)
    BY <1>1, <2>2, PanelWith
  <2>5. /\ y.visible = s.visible /\ y.mounted = s.mounted /\ y.ctx = s.ctx
        /\ y.run = s.run /\ y.content = s.content /\ y.previous = s.previous
        /\ y.previousError = s.previousError /\ y.sent = s.sent
        /\ y.busy = s.busy /\ y.historyRequestId = s.historyRequestId
        /\ y.historyLoading = l /\ y.history = s.history
        /\ y.todayRun = s.todayRun
    BY <1>1 DEF Panels
  <2>6. SamePolls(y, s)
    BY <1>1 DEF Panels, SamePolls
  <2> HIDE DEF y
  <2>7. OneContext(y)
    BY <2>5 DEF Good, ShownInv, OneContext
  <2>8. Good(y, known)
    BY <2>2, <2>4, <2>5, <2>6, <2>7, TakenGood
  <2>9. Due(y, q.then)
    BY <1>1, <2>5, <2>6, DueSame DEF SamePolls
  <2>10. Good(Continue(y, q.then), known)
    BY <2>8, <2>9, ContinueGood
  <2> QED
    BY <1>3, <1>5, <2>10
<1> QED
  BY <1>4, <1>5

(* The other requests that fail leave marks and give back their latches.   *)
LEMMA FailedGood ==
    ASSUME NEW known, NEW s, Good(s, known), NEW q, Leaves(s, q, known)
    PROVE  Good(Failed(s, q), known)
<1> DEFINE c == IsCurrent(s, q)
           d == IsCurrentRun(s, q)
           message(b) == [s EXCEPT !.errorMessage = b]
<1>1. s \in Panels(known) /\ q \in Queries(known) /\ Due(s, q.then)
  BY DEF Good, Leaves
<1>3. \A b \in BOOLEAN : Good(message(b), known) /\ Aside(message(b), s)
  <2> TAKE b \in BOOLEAN
  <2>1. Good([s EXCEPT !.errorMessage = b], known) /\ Aside([s EXCEPT !.errorMessage = b], s)
    BY MarksGood
  <2> QED
    BY <2>1
<1>4. CASE q.kind = "history"
  BY <1>4, HistoryFailedGood
<1>5. CASE q.kind = "create"
  <2> DEFINE b == s.errorMessage \/ c
             x == message(b)
  <2>1. Failed(s, q) = Started(x)
    BY <1>5 DEF Failed
  <2>2. Unchained(s)
    BY <1>5 DEF Leaves, Chain
  <2>3. Good(x, known) /\ Aside(x, s)
    <3>1. b \in BOOLEAN
      BY <1>1 DEF Panels
    <3> HIDE DEF b
    <3> QED
      BY <1>3, <3>1
  <2> HIDE DEF x
  <2>4. Unchained(x)
    BY <2>2, <2>3 DEF Aside, Unchained
  <2>5. Good(Started(x), known)
    BY <2>3, <2>4, StartedGood
  <2> QED
    BY <2>1, <2>5
<1>6. CASE q.kind = "poll"
  <2>1. q.gen # s.pollGeneration \/ Polling(s) = {}
    BY <1>6 DEF Leaves
  <2>2. Good(PollSettled(s, q.gen), known)
    BY <2>1, PollSettledGood
  <2> QED
    BY <1>6, <2>2 DEF Failed
<1>7. CASE q.kind = "artifact"
  <2> DEFINE b == s.reportError \/ c
             x == [s EXCEPT !.reportError = b]
             y == ReportSettled(x, q)
  <2>1. Failed(s, q) = Continue(y, q.then)
    BY <1>7 DEF Failed
  <2>2. Good(x, known) /\ Aside(x, s)
    <3>1. b \in BOOLEAN
      BY <1>1 DEF Panels
    <3> HIDE DEF b
    <3> QED
      BY <3>1, MarksGood
  <2> HIDE DEF x
  <2>3. Good(y, known) /\ Aside(y, x)
    BY <2>2, ReportSettledGood
  <2> HIDE DEF y
  <2>4. Due(y, q.then)
    <3>1. Due(x, q.then)
      BY <1>1, <2>2, DueSame DEF Aside, SamePolls
    <3> QED
      BY <2>3, <3>1, DueSame DEF Aside, SamePolls
  <2>5. Good(Continue(y, q.then), known)
    BY <2>3, <2>4, ContinueGood
  <2> QED
    BY <2>1, <2>5
<1>8. CASE q.kind = "previous"
  <2> DEFINE b == s.previousError \/ d
             j == [s EXCEPT !.previousError = b]
  <2>1. Failed(s, q) = j
    BY <1>8 DEF Failed
  <2>2. b \in BOOLEAN /\ b = (s.previousError \/ d)
    BY <1>1 DEF Panels
  <2>3. d => /\ s.run # None /\ s.run.id = q.id /\ s.content = q.id
             /\ PreviousOf(q.id) # {}
    BY <1>1, <1>8 DEF IsCurrentRun, Leaves, Queries, Shape
  <2> HIDE DEF b, d
  <2>4. j \in Panels(known)
    BY <1>1, <2>2, PanelWith
  <2>5. /\ j.mounted = s.mounted /\ j.ctx = s.ctx /\ j.visible = s.visible
        /\ j.run = s.run /\ j.content = s.content /\ j.previous = s.previous
        /\ j.previousError = b /\ j.history = s.history
        /\ j.todayRun = s.todayRun /\ j.historyRequestId = s.historyRequestId
        /\ j.historyLoading = s.historyLoading
        /\ j.busy = s.busy /\ j.sent = s.sent
    BY <1>1 DEF Panels
  <2>6. SamePolls(j, s)
    BY <1>1 DEF Panels, SamePolls
  <2> HIDE DEF j
  <2>7. \A kind : Asks(j, kind) = Asks(s, kind)
    BY <2>5 DEF Asks
  <2>8. Aimed(j) /\ OneContext(j) /\ Latched(j)
    BY <2>5 DEF Good, ShownInv, Aimed, OneContext, Latched
  <2>9. Replaced(j) /\ Loads(j)
    BY <2>5, <2>7 DEF Good, ShownInv, Replaced, Loads
  <2>10. Compared(j)
    BY <2>2, <2>3, <2>5, <2>7 DEF Good, ShownInv, Compared
  <2>11. PollInv(j)
    BY <2>5, <2>6, PollsFollow DEF Good
  <2> QED
    BY <2>1, <2>4, <2>8, <2>9, <2>10, <2>11 DEF Good, ShownInv
<1>9. CASE q.kind = "open"
  <2> DEFINE b == s.errorMessage \/ c
             x == message(b)
  <2>1. Failed(s, q) = OpenSettled(x, q.gen)
    BY <1>9 DEF Failed
  <2>3. Good(x, known)
    <3>1. b \in BOOLEAN
      BY <1>1 DEF Panels
    <3> HIDE DEF b
    <3> QED
      BY <1>3, <3>1
  <2> HIDE DEF x
  <2>5. Good(OpenSettled(x, q.gen), known)
    BY <2>3, OpenSettledGood
  <2> QED
    BY <2>1, <2>5
<1>10. CASE q.kind = "pdf"
  <2>1. Good([s EXCEPT !.opening = None], known)
    BY OpeningGood
  <2> QED
    BY <1>10, <2>1 DEF Failed
<1>11. CASE q.kind \in {"cancel", "resume", "clear"}
  <2> DEFINE b == s.errorMessage \/ d
             x == message(b)
  <2>1. Failed(s, q) = Released(x, q)
    BY <1>11 DEF Failed
  <2>2. Good(x, known)
    <3>1. b \in BOOLEAN
      BY <1>1 DEF Panels
    <3> HIDE DEF b
    <3> QED
      BY <1>3, <3>1
  <2> HIDE DEF x
  <2>3. Good(Released(x, q), known)
    BY <1>11, <2>2, ReleasedGood
  <2> QED
    BY <2>1, <2>3
<1> QED
  BY <1>1, <1>4, <1>5, <1>6, <1>7, <1>8, <1>9, <1>10, <1>11 DEF Queries, Kinds

(* The run of today that a second start is told of.                        *)
LEMMA LimitGood ==
    ASSUME NEW known, NEW s, Good(s, known), NEW r \in Records(known),
           ContextOf(r.id) = s.ctx, Asks(s, "create") = {}
    PROVE  LET j == [s EXCEPT !.todayRun = r] IN
           /\ Good(j, known) /\ j.sent = s.sent /\ j.busy = s.busy
           /\ j.mounted = s.mounted
<1> DEFINE j == [s EXCEPT !.todayRun = r]
<1>1. j \in Panels(known)
  BY DEF Good, Panels
<1>2. /\ j.mounted = s.mounted /\ j.ctx = s.ctx /\ j.visible = s.visible
      /\ j.run = s.run /\ j.content = s.content /\ j.previous = s.previous
      /\ j.previousError = s.previousError /\ j.history = s.history
      /\ j.todayRun = r /\ j.historyRequestId = s.historyRequestId
      /\ j.historyLoading = s.historyLoading
      /\ j.busy = s.busy /\ j.sent = s.sent
  BY DEF Good, Panels
<1>3. SamePolls(j, s)
  BY DEF Good, Panels, SamePolls
<1> HIDE DEF j
<1>4. \A kind : Asks(j, kind) = Asks(s, kind)
  BY <1>2 DEF Asks
<1>5. Aimed(j) /\ OneContext(j) /\ Latched(j)
  BY <1>2 DEF Good, ShownInv, Aimed, OneContext, Latched
<1>6. Compared(j) /\ Loads(j)
  BY <1>2, <1>4 DEF Good, ShownInv, Compared, Loads
<1>7. Replaced(j)
  BY <1>2, <1>4 DEF Good, ShownInv, Replaced
<1>8. PollInv(j)
  BY <1>2, <1>3, PollsFollow DEF Good
<1>9. Good(j, known)
  BY <1>1, <1>5, <1>6, <1>7, <1>8 DEF Good, ShownInv
<1> QED
  BY <1>2, <1>9 DEF j

(* A created run is shown, or the history is asked for what there was.     *)
LEMMA CreateAnsweredGood ==
    ASSUME NEW known, IsKnown(known), NEW s, Good(s, known), NEW q,
           Leaves(s, q, known), q.kind = "create", q.data # None
    PROVE  Good(CreateAnswered(s, q), known)
<1> DEFINE r == q.data.run
           then == [kind |-> "start", gen |-> 0]
<1>1. r \in Records(known) /\ ContextOf(r.id) = q.id
  BY DEF Leaves, Queries, Shape, CreateData
<1>2. Unchained(s) /\ "start" \in s.busy
  BY DEF Leaves, Chain
<1>3. then \in Thens /\ then.kind = "start"
  BY DEF Thens
<1> HIDE DEF then
<1>4. CASE ~IsCurrent(s, q)
  <2>1. Good(Started(s), known)
    BY <1>2, StartedGood
  <2> QED
    BY <1>4, <2>1 DEF CreateAnswered
<1> HIDE DEF r
<1>5. CASE IsCurrent(s, q)
  <2>1. /\ s.visible /\ s.mounted /\ q.gen = s.historyRequestId
        /\ ContextOf(r.id) = s.ctx /\ Asks(s, "create") = {}
    BY <1>1, <1>5 DEF IsCurrent, Leaves, About
  <2>2. CASE q.data.limit
    <3> DEFINE x == [s EXCEPT !.todayRun = r]
    <3>1. /\ Good(x, known) /\ x.sent = s.sent /\ x.busy = s.busy
          /\ x.mounted = s.mounted
      BY <1>1, <2>1, LimitGood
    <3>2. CreateAnswered(s, q) = LoadReportHistory(x, then)
      BY <1>5, <2>2 DEF CreateAnswered, r, then
    <3> HIDE DEF x
    <3>3. Unchained(x)
      BY <1>2, <3>1 DEF Unchained
    <3>4. Good(LoadReportHistory(x, then), known)
      BY <1>2, <1>3, <2>1, <3>1, <3>3, LoadHistoryGood
    <3> QED
      BY <3>2, <3>4
  <2>3. CASE ~q.data.limit
    <3> DEFINE x == [s EXCEPT !.run = r]
               y == StartPolling(x)
    <3>1. /\ Good(x, known) /\ x.sent = s.sent /\ x.busy = s.busy
          /\ x.mounted = s.mounted /\ x.visible = s.visible
      <4>1. MayShow(s, q, r)
        BY <2>1 DEF MayShow
      <4> QED
        BY <1>1, <4>1, RunGood
    <3>2. CreateAnswered(s, q) = Started(y)
      BY <1>5, <2>3 DEF CreateAnswered, r
    <3> HIDE DEF x
    <3>3. Good(y, known) /\ \A p : p.kind # "poll" => (p \in y.sent <=> p \in x.sent)
      BY <2>1, <3>1, StartPollingGood
    <3> HIDE DEF y
    <3>4. Unchained(y)
      BY <1>2, <3>1, <3>3 DEF Unchained, Chain
    <3>5. Good(Started(y), known)
      BY <3>3, <3>4, StartedGood
    <3> QED
      BY <3>2, <3>5
  <2> QED
    BY <2>2, <2>3
<1> QED
  BY <1>4, <1>5

(* What a poll says of the run on the screen, and the report it loads.     *)
LEMMA PollAnsweredGood ==
    ASSUME NEW known, IsKnown(known), NEW s, Good(s, known), NEW q,
           Leaves(s, q, known), q.kind = "poll", q.data # None
    PROVE  Good(PollAnswered(s, q), known)
<1> DEFINE r == q.data
           then == [kind |-> "poll", gen |-> q.gen]
           stale == \/ q.gen # s.pollGeneration \/ ~s.visible
                    \/ s.run = None \/ s.run.id # q.id
<1>1. r \in Records(known) /\ r.id = q.id
  BY DEF Leaves, Queries, Shape, RunData
<1>2. q.gen # s.pollGeneration \/ Polling(s) = {}
  BY DEF Leaves
<1>3. q.gen \in Nat /\ q.gen <= s.pollGeneration
  BY DEF Leaves, Queries
<1>4. then \in Thens /\ then.kind = "poll" /\ then.gen = q.gen
  BY <1>3 DEF Thens
<1> HIDE DEF then, r
<1>5. CASE stale
  <2>1. Good(PollSettled(s, q.gen), known)
    BY <1>2, PollSettledGood
  <2> QED
    BY <1>5, <2>1 DEF PollAnswered
<1>6. CASE ~stale
  <2> DEFINE x == [s EXCEPT !.run = r]
  <2>1. s.run # None /\ s.run.id = q.id /\ s.mounted /\ q.gen = s.pollGeneration
    BY <1>6 DEF Leaves
  <2>2. ContextOf(r.id) = s.ctx
    BY <1>1, <2>1 DEF Good, ShownInv, OneContext
  <2>3. /\ Good(x, known) /\ SamePolls(x, s) /\ x.run = r /\ x.sent = s.sent
        /\ x.mounted = s.mounted
    <3>1. MayShow(s, q, r)
      BY <1>1, <2>1, <2>2 DEF MayShow
    <3> QED
      BY <1>1, <3>1, RunGood
  <2>4. r # None
    BY <1>1, NoneAssumption DEF Records, IsKnown
  <2>5. PollAnswered(s, q) =
          IF r.status = "succeeded" THEN LoadReport(x, then)
          ELSE IF r.status \in Terminal THEN Continue(x, then)
          ELSE PollSettled(x, q.gen)
    BY <1>6 DEF PollAnswered, r, then
  <2> HIDE DEF x
  <2>6. Due(x, then)
    BY <1>3, <1>4, <2>3 DEF Due, SamePolls
  <2>7. Polling(x) = {}
    BY <1>2, <2>1, <2>3 DEF Polling, SamePolls
  <2>8. Good(LoadReport(x, then), known)
    BY <1>4, <2>1, <2>3, <2>4, <2>6, LoadReportGood
  <2>9. Good(Continue(x, then), known)
    BY <2>3, <2>6, ContinueGood
  <2>10. Good(PollSettled(x, q.gen), known)
    BY <2>3, <2>7, PollSettledGood
  <2> QED
    BY <2>5, <2>8, <2>9, <2>10
<1> QED
  BY <1>5, <1>6

(* The report of the run on the screen, without the report compared to it. *)
LEMMA ContentGood ==
    ASSUME NEW known, NEW s, Good(s, known), s.run # None, s.run.id \in known
    PROVE  LET x == [s EXCEPT !.content = s.run.id, !.previous = None,
                              !.previousError = FALSE]
           IN  /\ Good(x, known) /\ x.run = s.run /\ x.content = s.run.id
               /\ x.mounted = s.mounted /\ SamePolls(x, s)
               /\ x = [x EXCEPT !.previous = None, !.previousError = FALSE]
<1> DEFINE id == s.run.id
           x == [s EXCEPT !.content = id, !.previous = None,
                          !.previousError = FALSE]
<1>1. id = s.run.id /\ id \in known
  OBVIOUS
<1> HIDE DEF id
<1>2. x \in Panels(known)
  <2> DEFINE y == [s EXCEPT !.content = id]
             z == [y EXCEPT !.previous = None]
  <2>1. y \in Panels(known)
    BY <1>1 DEF Good, Panels
  <2>2. z \in Panels(known)
    <3> HIDE DEF y
    <3> QED
      BY <2>1 DEF Panels
  <2>3. x = [z EXCEPT !.previousError = FALSE]
    BY DEF Good, Panels
  <2> HIDE DEF z, x
  <2> QED
    BY <2>2, <2>3, PanelWith
<1>3. /\ x.mounted = s.mounted /\ x.ctx = s.ctx /\ x.visible = s.visible
      /\ x.run = s.run /\ x.content = id /\ x.previous = None
      /\ ~x.previousError /\ x.history = s.history
      /\ x.todayRun = s.todayRun /\ x.historyRequestId = s.historyRequestId
      /\ x.historyLoading = s.historyLoading
      /\ x.busy = s.busy /\ x.sent = s.sent
  BY DEF Good, Panels
<1>4. SamePolls(x, s)
  BY DEF Good, Panels, SamePolls
<1>5. x = [x EXCEPT !.previous = None, !.previousError = FALSE]
  BY DEF Good, Panels
<1> HIDE DEF x
<1>6. \A kind : Asks(x, kind) = Asks(s, kind)
  BY <1>3 DEF Asks
<1>7. Aimed(x) /\ OneContext(x) /\ Latched(x)
  BY <1>1, <1>3 DEF Good, ShownInv, Aimed, OneContext, Latched
<1>8. Replaced(x) /\ Loads(x)
  BY <1>3, <1>6 DEF Good, ShownInv, Replaced, Loads
<1>9. Compared(x)
  BY <1>1, <1>3, <1>6 DEF Good, ShownInv, Compared
<1>10. PollInv(x)
  BY <1>3, <1>4, PollsFollow DEF Good
<1>11. Good(x, known)
  BY <1>2, <1>7, <1>8, <1>9, <1>10 DEF Good, ShownInv
<1> QED
  BY <1>3, <1>4, <1>5, <1>11 DEF x, id

(* A report is put on the screen if its run is there, and compared.        *)
LEMMA ArtifactAnsweredGood ==
    ASSUME NEW known, IsKnown(known), NEW s, Good(s, known), NEW q,
           Leaves(s, q, known), q.kind = "artifact"
    PROVE  Good(ArtifactAnswered(s, q), known)
<1> DEFINE x == [s EXCEPT !.content = s.run.id, !.previous = None,
                          !.previousError = FALSE]
           j == IF IsCurrentRun(s, q) THEN LoadPreviousReport(x) ELSE s
           y == ReportSettled(j, q)
<1>1. q.id \in known /\ q.then.kind # "start" /\ Due(s, q.then)
  BY DEF Leaves, Queries, Shape
<1>2. ArtifactAnswered(s, q) = Continue(y, q.then)
  <2>1. CASE ~IsCurrentRun(s, q)
    BY <2>1 DEF ArtifactAnswered
  <2>2. CASE IsCurrentRun(s, q)
    <3> DEFINE z == [s EXCEPT !.content = q.id]
    <3>1. s.run.id = q.id
      BY <2>2 DEF IsCurrentRun
    <3>2. LoadPreviousReport(z) = LoadPreviousReport(x)
      <4>1. /\ [z EXCEPT !.previous = None, !.previousError = FALSE] = x
            /\ [x EXCEPT !.previous = None, !.previousError = FALSE] = x
            /\ z.run = s.run /\ x.run = s.run /\ z.history = s.history
            /\ x.history = s.history /\ z.historyRequestId = s.historyRequestId
            /\ x.historyRequestId = s.historyRequestId
        BY <3>1 DEF Good, Panels
      <4> HIDE DEF z, x
      <4> QED
        BY <4>1 DEF LoadPreviousReport
    <3> HIDE DEF x
    <3> QED
      BY <2>2, <3>2 DEF ArtifactAnswered
  <2> QED
    BY <2>1, <2>2
<1>3. Good(j, known) /\ SamePolls(j, s)
  <2>1. CASE ~IsCurrentRun(s, q)
    BY <2>1 DEF SamePolls
  <2>2. CASE IsCurrentRun(s, q)
    <3>1. s.run # None /\ s.run.id = q.id /\ s.mounted
      BY <2>2 DEF IsCurrentRun, Leaves
    <3>2. /\ Good(x, known) /\ x.run = s.run /\ x.content = s.run.id
          /\ x.mounted = s.mounted /\ SamePolls(x, s)
      BY <1>1, <3>1, ContentGood
    <3>3. q.id # None
      BY <1>1, NoneAssumption DEF IsKnown
    <3> HIDE DEF x
    <3>4. Good(LoadPreviousReport(x), known) /\ SamePolls(LoadPreviousReport(x), x)
      BY <3>1, <3>2, <3>3, LoadPreviousGood
    <3> QED
      BY <2>2, <3>2, <3>4 DEF SamePolls
  <2> QED
    BY <2>1, <2>2
<1> HIDE DEF j
<1>4. Good(y, known) /\ Aside(y, j)
  BY <1>3, ReportSettledGood
<1> HIDE DEF y
<1>5. Due(y, q.then)
  BY <1>1, <1>3, <1>4 DEF Due, Aside, SamePolls
<1>6. Good(Continue(y, q.then), known)
  BY <1>4, <1>5, ContinueGood
<1> QED
  BY <1>2, <1>6

(* The report compared is the predecessor of the one on the screen.        *)
LEMMA PreviousAnsweredGood ==
    ASSUME NEW known, IsKnown(known), NEW s, Good(s, known), NEW q,
           Leaves(s, q, known), q.kind = "previous"
    PROVE  Good(PreviousAnswered(s, q), known)
<1>1. CASE ~IsCurrentRun(s, q)
  BY <1>1 DEF PreviousAnswered
<1>2. CASE IsCurrentRun(s, q)
  <2> DEFINE p == CHOOSE r \in PreviousOf(q.id) : TRUE
             j == [s EXCEPT !.previous = p]
  <2>1. q.id \in known /\ PreviousOf(q.id) # {}
    BY DEF Leaves, Queries, Shape
  <2>2. s.run # None /\ s.run.id = q.id /\ s.content = q.id
    BY <1>2 DEF IsCurrentRun, Leaves
  <2>3. ContextOf(q.id) = s.ctx
    BY <1>2 DEF IsCurrentRun, Leaves, About
  <2>4. p \in PreviousOf(q.id)
    BY <2>1
  <2>6. PreviousAnswered(s, q) = j
    BY <1>2 DEF PreviousAnswered
  <2> HIDE DEF p
  <2>5. p \in known /\ ContextOf(p) = ContextOf(q.id) /\ p # None /\ q.id # None
    <3>1. ContextOf(q.id) \in Contexts
      BY <2>1 DEF IsKnown, Runs, ContextOf
    <3>2. p = Old(ContextOf(q.id))
      BY <2>4 DEF PreviousOf
    <3>3. p \in known /\ ContextOf(p) = ContextOf(q.id)
      BY <3>1, <3>2 DEF IsKnown, Old, ContextOf
    <3> QED
      BY <2>1, <3>3, NoneAssumption DEF IsKnown
  <2>7. j \in Panels(known)
    BY <2>5 DEF Good, Panels
  <2>8. /\ j.mounted = s.mounted /\ j.ctx = s.ctx /\ j.visible = s.visible
        /\ j.run = s.run /\ j.content = s.content /\ j.previous = p
        /\ j.previousError = s.previousError /\ j.history = s.history
        /\ j.todayRun = s.todayRun /\ j.historyRequestId = s.historyRequestId
        /\ j.historyLoading = s.historyLoading
        /\ j.busy = s.busy /\ j.sent = s.sent
    BY DEF Good, Panels
  <2>9. SamePolls(j, s)
    BY DEF Good, Panels, SamePolls
  <2> HIDE DEF j
  <2>10. \A kind : Asks(j, kind) = Asks(s, kind)
    BY <2>8 DEF Asks
  <2>11. Aimed(j) /\ OneContext(j) /\ Latched(j)
    BY <2>3, <2>5, <2>8 DEF Good, ShownInv, Aimed, OneContext, Latched
  <2>12. Replaced(j) /\ Loads(j)
    BY <2>8, <2>10 DEF Good, ShownInv, Replaced, Loads
  <2>13. Compared(j)
    BY <2>2, <2>4, <2>5, <2>8, <2>10 DEF Good, ShownInv, Compared
  <2>14. PollInv(j)
    BY <2>8, <2>9, PollsFollow DEF Good
  <2> QED
    BY <2>6, <2>7, <2>11, <2>12, <2>13, <2>14 DEF Good, ShownInv
<1> QED
  BY <1>1, <1>2

(* The run that was opened is shown, and its report loaded.                *)
LEMMA OpenAnsweredGood ==
    ASSUME NEW known, IsKnown(known), NEW s, Good(s, known), NEW q,
           Leaves(s, q, known), q.kind = "open", q.data # None
    PROVE  Good(OpenAnswered(s, q), known)
<1> DEFINE r == q.data
           then == [kind |-> "open", gen |-> q.gen]
<1>1. r \in Records(known) /\ r.id = q.id /\ q.gen \in Nat
  BY DEF Leaves, Queries, Shape, RunData
<1>2. then \in Thens /\ then.kind = "open"
  BY <1>1 DEF Thens
<1> HIDE DEF then, r
<1>3. CASE ~IsCurrent(s, q)
  <2>1. Good(OpenSettled(s, q.gen), known)
    BY OpenSettledGood
  <2> QED
    BY <1>3, <2>1 DEF OpenAnswered
<1>4. CASE IsCurrent(s, q) /\ r.status # "succeeded"
  <2> DEFINE x == [s EXCEPT !.errorMessage = TRUE]
  <2>1. Good(x, known)
    BY MarksGood
  <2> HIDE DEF x
  <2>2. Good(OpenSettled(x, q.gen), known)
    BY <2>1, OpenSettledGood
  <2> QED
    BY <1>4, <2>2 DEF OpenAnswered, r, x
<1>5. CASE IsCurrent(s, q) /\ r.status = "succeeded"
  <2> DEFINE x == [s EXCEPT !.run = r]
  <2>1. s.mounted /\ q.gen = s.historyRequestId /\ ContextOf(r.id) = s.ctx
    BY <1>1, <1>5 DEF IsCurrent, Leaves, About
  <2>2. MayShow(s, q, r)
    BY <2>1 DEF MayShow
  <2>3. /\ Good(x, known) /\ x.run = r /\ x.mounted = s.mounted
    BY <1>1, <2>2, RunGood
  <2>4. r # None
    BY <1>1, NoneAssumption DEF Records, IsKnown
  <2>5. OpenAnswered(s, q) = LoadReport(x, then)
    BY <1>5 DEF OpenAnswered, r, then
  <2> HIDE DEF x
  <2>6. Due(x, then)
    BY <1>2 DEF Due
  <2>7. Good(LoadReport(x, then), known)
    BY <1>2, <2>1, <2>3, <2>4, <2>6, LoadReportGood
  <2> QED
    BY <2>5, <2>7
<1> QED
  BY <1>3, <1>4, <1>5

(* A button that was answered tells of the run it was about.               *)
LEMMA ButtonAnsweredGood ==
    ASSUME NEW known, IsKnown(known), NEW s, Good(s, known), NEW q,
           Leaves(s, q, known)
    PROVE  /\ q.kind = "cancel" => Good(Released(CancelAnswered(s, q), q), known)
           /\ q.kind = "resume" => Good(Released(ResumeAnswered(s, q), q), known)
<1>1. CASE ~IsCurrentRun(s, q)
  <2>1. CancelAnswered(s, q) = s /\ ResumeAnswered(s, q) = s
    BY <1>1 DEF CancelAnswered, ResumeAnswered
  <2>2. q.kind # "start" => Good(Released(s, q), known)
    BY ReleasedGood
  <2> QED
    BY <2>1, <2>2
<1>2. CASE IsCurrentRun(s, q) /\ q.kind \in {"cancel", "resume"}
  <2> DEFINE run(status) == [s.run EXCEPT !.status = status]
             x(status) == [s EXCEPT !.run = run(status)]
  <2>1. s.visible /\ s.mounted /\ s.run # None
    BY <1>2 DEF IsCurrentRun, Leaves
  <2>2. s.run \in Records(known) /\ ContextOf(s.run.id) = s.ctx
    BY <2>1 DEF Good, Panels, ShownInv, OneContext
  <2>3. \A status \in Statuses :
          /\ Good(x(status), known) /\ x(status).visible = s.visible
          /\ x(status).mounted = s.mounted
    <3> SUFFICES ASSUME NEW status \in Statuses
                 PROVE  /\ Good(x(status), known) /\ x(status).visible = s.visible
                        /\ x(status).mounted = s.mounted
      OBVIOUS
    <3> DEFINE r == run(status)
    <3>1. r \in Records(known) /\ r.id = s.run.id
      BY <2>2 DEF Records
    <3>2. MayShow(s, q, r)
      BY <2>1, <2>2, <3>1 DEF MayShow
    <3> HIDE DEF r
    <3>3. LET j == [s EXCEPT !.run = r]
          IN  Good(j, known) /\ j.visible = s.visible /\ j.mounted = s.mounted
      BY <3>1, <3>2, RunGood
    <3> QED
      BY <3>3 DEF r
  <2>4. /\ CancelAnswered(s, q) = StopPolling(x("cancelled"))
        /\ ResumeAnswered(s, q) = StartPolling(x(Active))
    <3>1. \A status : [s EXCEPT !.run.status = status] = x(status)
      BY DEF Good, Panels
    <3> QED
      BY <1>2, <3>1 DEF CancelAnswered, ResumeAnswered
  <2> HIDE DEF x
  <2>5. Good(StopPolling(x("cancelled")), known)
    <3>1. Good(x("cancelled"), known)
      BY <2>3 DEF Statuses, Terminal
    <3> QED
      BY <3>1, StopPollingGood
  <2>6. Good(StartPolling(x(Active)), known)
    <3>1. Good(x(Active), known) /\ x(Active).visible /\ x(Active).mounted
      BY <2>1, <2>3 DEF Statuses
    <3> QED
      BY <3>1, StartPollingGood
  <2>7. Good(Released(CancelAnswered(s, q), q), known)
    BY <1>2, <2>4, <2>5, ReleasedGood
  <2>8. Good(Released(ResumeAnswered(s, q), q), known)
    BY <1>2, <2>4, <2>6, ReleasedGood
  <2> QED
    BY <2>7, <2>8
<1> QED
  BY <1>1, <1>2

(* Every answer keeps the invariant, in whatever order it arrives.         *)
LEMMA AnsweredGood ==
    ASSUME NEW known, IsKnown(known), NEW s, Good(s, known), NEW q,
           Leaves(s, q, known), q.data # None
    PROVE  Good(Answered(s, q), known)
<1>1. q.kind \in Kinds
  BY DEF Leaves, Queries
<1>2. CASE q.kind = "history"
  BY <1>2, HistoryAnsweredGood DEF Answered
<1>3. CASE q.kind = "create"
  BY <1>3, CreateAnsweredGood DEF Answered
<1>4. CASE q.kind = "poll"
  BY <1>4, PollAnsweredGood DEF Answered
<1>5. CASE q.kind = "artifact"
  BY <1>5, ArtifactAnsweredGood DEF Answered
<1>6. CASE q.kind = "previous"
  BY <1>6, PreviousAnsweredGood DEF Answered
<1>7. CASE q.kind = "open"
  BY <1>7, OpenAnsweredGood DEF Answered
<1>8. CASE q.kind = "pdf"
  BY <1>8, OpeningGood DEF Answered
<1>9. CASE q.kind \in {"cancel", "resume"}
  BY <1>9, ButtonAnsweredGood DEF Answered
<1>10. CASE q.kind = "clear"
  BY <1>10, ReleasedGood DEF Answered
<1> QED
  BY <1>1, <1>2, <1>3, <1>4, <1>5, <1>6, <1>7, <1>8, <1>9, <1>10 DEF Kinds
-----------------------------------------------------------------------------
(* The server.  A run that has a row keeps it.                             *)
Known == {r \in Runs : r[2] = "today" => today[ContextOf(r)] # "none"}

TodayTyped == today \in [Contexts -> Statuses \cup {"none"}]

(* The older runs have a row from the start.                               *)
LEMMA KnownIsKnown == IsKnown(Known)
BY DEF IsKnown, Known, Runs, Old

(* What was fit for fewer runs is fit for more.                            *)
LEMMA GoodGrows ==
    ASSUME NEW known, NEW more, known \subseteq more, NEW s, Good(s, known)
    PROVE  Good(s, more)
<1>1. Records(known) \subseteq Records(more)
  BY DEF Records
<1>2. Data(known) \subseteq Data(more)
  <2>1. [run : Records(known), limit : BOOLEAN] \subseteq [run : Records(more), limit : BOOLEAN]
    BY <1>1
  <2>2. [history : SUBSET known, todayRun : {None} \cup Records(known)]
          \subseteq [history : SUBSET more, todayRun : {None} \cup Records(more)]
    BY <1>1
  <2> QED
    BY <1>1, <2>1, <2>2 DEF Data
<1>3. Queries(known) \subseteq Queries(more)
  <2> SUFFICES ASSUME NEW q \in Queries(known) PROVE q \in Queries(more)
    OBVIOUS
  <2>1. q \in [kind : Kinds, id : more \cup Contexts, gen : Nat, then : Thens,
               data : Data(more)]
    BY <1>2 DEF Queries
  <2>2. Shape(q, more)
    <3>1. Shape(q, known)
      BY DEF Queries
    <3>2. HistoryData(q, known) => HistoryData(q, more)
      BY <1>1 DEF HistoryData
    <3>3. CreateData(q, known) => CreateData(q, more)
      BY <1>1 DEF CreateData
    <3>4. RunData(q, known) => RunData(q, more)
      BY <1>1 DEF RunData
    <3> QED
      BY <3>1, <3>2, <3>3, <3>4 DEF Shape
  <2> QED
    BY <2>1, <2>2 DEF Queries
<1>4. s \in Panels(more)
  <2>1. s \in Panels(known)
    BY DEF Good
  <2>2. /\ SUBSET Queries(known) \subseteq SUBSET Queries(more)
        /\ SUBSET known \subseteq SUBSET more
        /\ Nat \X known \subseteq Nat \X more
    BY <1>3
  <2> QED
    BY <1>1, <2>1, <2>2 DEF Panels
<1> QED
  BY <1>4 DEF Good

(* A run of today is created, and never taken away.                        *)
LEMMA TodayStays ==
    ASSUME TodayTyped, NEW c \in Contexts, NEW status \in Statuses,
           today' = [today EXCEPT ![c] = status]
    PROVE  TodayTyped' /\ Known \subseteq Known'
<1>1. status # "none"
  BY DEF Statuses, Terminal, Active
<1>2. TodayTyped'
  BY DEF TodayTyped
<1>3. \A d \in Contexts : today[d] # "none" => today'[d] # "none"
  BY <1>1 DEF TodayTyped
<1>4. \A r \in Runs : ContextOf(r) \in Contexts
  BY DEF Runs, ContextOf
<1> QED
  BY <1>2, <1>3, <1>4 DEF Known

(* What a request does on the server creates or changes a run.             *)
LEMMA EffectStays ==
    ASSUME TodayTyped, NEW q \in Queries(Known), today' = Effect(q)
    PROVE  TodayTyped' /\ Known \subseteq Known'
<1>1. Active \in Statuses /\ "cancelled" \in Statuses
  BY DEF Statuses, Terminal
<1>2. CASE q.kind = "create" /\ today[q.id] = "none"
  <2>1. q.id \in Contexts
    BY <1>2 DEF Queries, Shape
  <2>2. today' = [today EXCEPT ![q.id] = Active]
    BY <1>2 DEF Effect
  <2> QED
    BY <1>1, <2>1, <2>2, TodayStays
<1>3. CASE q.kind \in {"cancel", "resume"}
  <2>1. ContextOf(q.id) \in Contexts
    BY <1>3 DEF Queries, Shape, Known, Runs, ContextOf
  <2>2. PICK status \in {Active, "cancelled"} :
          today' = [today EXCEPT ![ContextOf(q.id)] = status]
    BY <1>3 DEF Effect
  <2> QED
    BY <1>1, <2>1, <2>2, TodayStays
<1>4. CASE /\ ~(q.kind = "create" /\ today[q.id] = "none")
           /\ q.kind \notin {"cancel", "resume"}
  <2>1. today' = today
    BY <1>4 DEF Effect
  <2> QED
    BY <2>1 DEF TodayTyped, Known
<1> QED
  BY <1>2, <1>3, <1>4

(* The server answers of the runs that have a row.                         *)
LEMMA RunsOfToday ==
    ASSUME TodayTyped
    PROVE  /\ \A r \in Known : r \in Runs /\ RunStatus(r) \in Statuses
           /\ \A c \in Contexts :
                /\ Old(c) \in Known /\ Public(c) \in Known
                /\ today[c] # "none" => Today(c) \in Known /\ today[c] \in Statuses
                /\ ContextOf(Old(c)) = c /\ ContextOf(Public(c)) = c
                /\ ContextOf(Today(c)) = c
<1>1. ASSUME NEW c \in Contexts
      PROVE  /\ Old(c) \in Known /\ Public(c) \in Known
             /\ today[c] # "none" => Today(c) \in Known /\ today[c] \in Statuses
             /\ ContextOf(Old(c)) = c /\ ContextOf(Public(c)) = c
             /\ ContextOf(Today(c)) = c
  <2>1. /\ ContextOf(Old(c)) = c /\ ContextOf(Public(c)) = c
        /\ ContextOf(Today(c)) = c
    BY DEF ContextOf, Old, Public, Today
  <2>2. Old(c) \in Known /\ Public(c) \in Known
    BY DEF Known, Runs, Old, Public
  <2>3. today[c] # "none" => Today(c) \in Known
    BY <2>1 DEF Known, Runs, Today
  <2>4. today[c] # "none" => today[c] \in Statuses
    BY DEF TodayTyped
  <2> QED
    BY <2>1, <2>2, <2>3, <2>4
<1>2. ASSUME NEW r \in Known
      PROVE  r \in Runs /\ RunStatus(r) \in Statuses
  <2>1. r \in Runs /\ ContextOf(r) \in Contexts
    BY DEF Known, Runs, ContextOf
  <2>2. CASE r[2] = "today"
    BY <1>1, <2>1, <2>2 DEF Known, RunStatus, TodayTyped
  <2>3. CASE r[2] # "today"
    BY <2>1, <2>3 DEF RunStatus, Statuses, Terminal
  <2> QED
    BY <2>1, <2>2, <2>3
<1> QED
  BY <1>1, <1>2

(* So every answer fits the request it is given to.                        *)
LEMMA AnswerFits ==
    ASSUME TodayTyped, NEW q \in Queries(Known), today' = Effect(q),
           NEW answer,
           \/ answer \in Answers(q)
           \/ q.kind = "history" /\ answer \in HalfAnswers(q.id)
    PROVE  [q EXCEPT !.data = answer] \in Queries(Known')
<1> DEFINE p == [q EXCEPT !.data = answer]
<1>1. Known \subseteq Known' /\ TodayTyped'
  BY EffectStays
<1>2. /\ q \in [kind : Kinds, id : Known \cup Contexts, gen : Nat, then : Thens,
                data : Data(Known)]
      /\ Shape(q, Known)
  BY DEF Queries
<1>3. /\ p.kind = q.kind /\ p.id = q.id /\ p.gen = q.gen /\ p.then = q.then
      /\ p.data = answer
  BY <1>2
<1>4. ASSUME answer \in Data(Known')
      PROVE  p \in [kind : Kinds, id : Known' \cup Contexts, gen : Nat, then : Thens,
                    data : Data(Known')]
  BY <1>1, <1>2, <1>4
<1>5. ASSUME /\ q.kind = "history" => HistoryData(p, Known')
             /\ q.kind = "create" => CreateData(p, Known')
             /\ q.kind \in {"poll", "open"} => RunData(p, Known')
      PROVE  Shape(p, Known')
  BY <1>1, <1>2, <1>3, <1>5 DEF Shape
<1>6. CASE q.kind = "history"
  <2> DEFINE c == q.id
  <2>1. c \in Contexts /\ Known' = Known
    BY <1>2, <1>6 DEF Shape, Effect, Known
  <2>2. TodayRun(c) \in {None} \cup Records(Known)
    BY <2>1, RunsOfToday DEF TodayRun, Records
  <2>3. TodayRun(c) # None => ContextOf(TodayRun(c).id) = c
    BY <2>1, RunsOfToday DEF TodayRun
  <2>4. /\ Private(c) \cup {Public(c)} \in SUBSET Known
        /\ \A r \in Private(c) \cup {Public(c)} : ContextOf(r) = c
    BY <2>1, RunsOfToday DEF Private
  <2>5. answer.history \in SUBSET Known /\ answer.todayRun \in {None} \cup Records(Known)
        /\ answer = [history |-> answer.history, todayRun |-> answer.todayRun]
        /\ answer.history \subseteq Private(c) \cup {Public(c)}
        /\ answer.todayRun \in {None, TodayRun(c)}
    BY <1>6, <2>2, <2>4 DEF Answers, HistoryAnswer, HalfAnswers
  <2>6. answer \in Data(Known')
    BY <2>1, <2>5 DEF Data
  <2>7. HistoryData(p, Known')
    <3>1. p.data = answer /\ p.id = c
      BY <1>3
    <3> HIDE DEF p, c
    <3> QED
      BY <3>1, <2>1, <2>3, <2>4, <2>5 DEF HistoryData
  <2> QED
    BY <1>4, <1>5, <1>6, <2>6, <2>7 DEF Queries
<1>7. CASE q.kind = "create"
  <2> DEFINE c == q.id
             r == [id |-> Today(c),
                   status |-> IF today[c] = "none" THEN Active ELSE today[c]]
             limit == today[c] # "none"
  <2>1. c \in Contexts
    BY <1>2, <1>7 DEF Shape
  <2>2. today'[c] # "none"
    BY <1>7, <2>1 DEF Effect, TodayTyped, Active
  <2>3. r \in Records(Known')
    <3>1. Today(c) \in Known'
      BY <2>1, <2>2 DEF Known, Runs, Today, ContextOf
    <3>2. r.status \in Statuses
      BY <2>1, RunsOfToday DEF Statuses
    <3> QED
      BY <3>1, <3>2 DEF Records
  <2>4. ContextOf(r.id) = c /\ limit \in BOOLEAN
    BY DEF Today, ContextOf
  <2>5. answer = [run |-> r, limit |-> limit]
    BY <1>7 DEF Answers
  <2> HIDE DEF r, limit
  <2>6. answer \in Data(Known')
    BY <2>3, <2>4, <2>5 DEF Data
  <2>7. CreateData(p, Known')
    <3>1. p.data.run = r /\ p.data.limit = limit /\ p.id = c
      BY <1>3, <2>5
    <3> QED
      BY <3>1, <2>3, <2>4 DEF CreateData
  <2> QED
    BY <1>4, <1>5, <1>7, <2>6, <2>7 DEF Queries
<1>8. CASE q.kind \in {"poll", "open"}
  <2>1. q.id \in Known
    BY <1>2, <1>8 DEF Shape
  <2>2. answer = [id |-> q.id, status |-> RunStatus(q.id)]
    BY <1>8 DEF Answers
  <2>3. answer \in Records(Known')
    BY <1>1, <2>1, <2>2, RunsOfToday DEF Records
  <2>4. answer \in Data(Known')
    BY <2>3 DEF Data
  <2>5. RunData(p, Known')
    <3>1. answer.id = q.id
      BY <2>2
    <3> QED
      BY <1>3, <2>3, <3>1 DEF RunData
  <2> QED
    BY <1>4, <1>5, <1>8, <2>4, <2>5 DEF Queries
<1>9. CASE q.kind \notin {"history", "create", "poll", "open"}
  <2>1. answer = Done
    BY <1>9 DEF Answers
  <2>2. answer \in Data(Known')
    BY <2>1 DEF Data
  <2> QED
    BY <1>4, <1>5, <1>9, <2>2 DEF Queries
<1> QED
  BY <1>6, <1>7, <1>8, <1>9

(* A request that was served is the same request.                          *)
LEMMA ServedGood ==
    ASSUME NEW known, NEW s, Good(s, known), NEW q \in s.sent, q.data = None,
           NEW p \in Queries(known), p.kind = q.kind, p.id = q.id,
           p.gen = q.gen, p.then = q.then
    PROVE  Good([s EXCEPT !.sent = (s.sent \ {q}) \cup {p}], known)
<1> DEFINE sent == (s.sent \ {q}) \cup {p}
           j == [s EXCEPT !.sent = sent]
<1>1. sent \in SUBSET Queries(known)
  BY DEF Good, Panels
<1>2. \A a \in sent : a \in s.sent \/ a = p
  OBVIOUS
<1>3. \A a \in sent : \E b \in s.sent :
        /\ a.kind = b.kind /\ a.id = b.id /\ a.gen = b.gen /\ a.then = b.then
        /\ b = q => a = p
        /\ b # q => a = b
  OBVIOUS
<1> HIDE DEF sent
<1>4. j \in Panels(known)
  BY <1>1 DEF Good, Panels
<1>5. j.sent = sent /\ SameShown(j, s) /\ SamePolls(j, s) /\ j.busy = s.busy
  BY DEF Good, Panels, SameShown, SamePolls
<1> HIDE DEF j
<1>6. \A kind : \A a \in Asks(j, kind) : \E b \in Asks(s, kind) :
        a.id = b.id /\ (b = q => a = p) /\ (b # q => a = b)
  BY <1>3, <1>5 DEF Asks, SameShown
<1>7. Aimed(j) /\ OneContext(j)
  BY <1>3, <1>5 DEF Good, ShownInv, Aimed, OneContext, About, SameShown
<1>8. Compared(j)
  BY <1>5, <1>6 DEF Good, ShownInv, Compared, SameShown
<1>9. Replaced(j)
  BY <1>5, <1>6 DEF Good, ShownInv, Replaced, SameShown
<1>10. Loads(j)
  BY <1>5, <1>6 DEF Good, ShownInv, Loads, SameShown
<1>11. Latched(j)
  <2>1. \A a \in sent : \E b \in s.sent :
          (Chain(a) => Chain(b)) /\ (b = q => a = p) /\ (b # q => a = b)
    BY <1>3 DEF Chain
  <2> QED
    BY <1>5, <2>1 DEF Good, ShownInv, Latched
<1>12. PollInv(j)
  <2>1. \A a \in Polling(j) : \E b \in Polling(s) : (b = q => a = p) /\ (b # q => a = b)
    BY <1>3, <1>5 DEF Polling, SamePolls
  <2> QED
    BY <1>3, <1>5, <2>1 DEF Good, PollInv, SameShown, SamePolls
<1> QED
  BY <1>4, <1>7, <1>8, <1>9, <1>10, <1>11, <1>12 DEF Good, ShownInv, j, sent

(* The server answers a request.                                           *)
LEMMA ServeGood ==
    ASSUME TodayTyped, Good(panel, Known), NEW q \in panel.sent,
           Serve(q) \/ ServeHalf(q)
    PROVE  TodayTyped' /\ Good(panel', Known')
<1>1. PICK answer : /\ Answer(q, answer)
                    /\ \/ answer \in Answers(q)
                       \/ q.kind = "history" /\ answer \in HalfAnswers(q.id)
  BY DEF Serve, ServeHalf
<1> DEFINE p == [q EXCEPT !.data = answer]
<1>2. q \in Queries(Known) /\ today' = Effect(q) /\ q.data = None
  BY <1>1 DEF Good, Panels, Answer
<1>3. TodayTyped' /\ Known \subseteq Known'
  BY <1>2, EffectStays
<1>4. p \in Queries(Known')
  BY <1>1, <1>2, AnswerFits
<1>5. p.kind = q.kind /\ p.id = q.id /\ p.gen = q.gen /\ p.then = q.then
  BY <1>2 DEF Queries
<1>6. panel' = [panel EXCEPT !.sent = (panel.sent \ {q}) \cup {p}]
  BY <1>1 DEF Answer
<1>7. Good(panel, Known')
  BY <1>3, GoodGrows
<1> HIDE DEF p
<1>8. Good([panel EXCEPT !.sent = (panel.sent \ {q}) \cup {p}], Known')
  BY <1>2, <1>4, <1>5, <1>7, ServedGood
<1> QED
  BY <1>3, <1>6, <1>8

-----------------------------------------------------------------------------
(* The inductive invariant.                                                *)
PanelInv == TodayTyped /\ Good(panel, Known)

(* The panel as it is created.                                             *)
LEMMA ClosedGood ==
    ASSUME NEW known, NEW c \in Contexts
    PROVE  LET s == Closed(c) IN
           /\ Good(s, known) /\ Good([s EXCEPT !.visible = TRUE], known)
           /\ s.mounted /\ [s EXCEPT !.visible = TRUE].mounted
<1> DEFINE s == Closed(c)
           j == [s EXCEPT !.visible = TRUE]
<1>1. s \in Panels(known)
  BY DEF Closed, Panels
<1>2. j \in Panels(known)
  <2> HIDE DEF s
  <2> QED
    BY <1>1, PanelWith
<1>3. /\ s.sent = {} /\ s.run = None /\ s.previous = None /\ ~s.previousError
      /\ s.content = None /\ s.todayRun = None /\ s.history = {} /\ ~s.pollTimer
      /\ s.mounted
  BY DEF Closed
<1>4. /\ j.sent = {} /\ j.run = None /\ j.previous = None /\ ~j.previousError
      /\ j.content = None /\ j.todayRun = None /\ j.history = {} /\ ~j.pollTimer
      /\ j.mounted
  BY DEF Closed
<1> HIDE DEF s, j
<1>5. \A x \in {s, j} : \A kind : Asks(x, kind) = {} /\ Polling(x) = {}
  BY <1>3, <1>4 DEF Asks, Polling
<1>6. \A x \in {s, j} : Aimed(x) /\ OneContext(x) /\ Latched(x)
  BY <1>3, <1>4 DEF Aimed, OneContext, Latched
<1>7. \A x \in {s, j} : Compared(x) /\ Replaced(x) /\ Loads(x)
  BY <1>3, <1>4, <1>5 DEF Compared, Replaced, Loads
<1>8. \A x \in {s, j} : PollInv(x)
  BY <1>3, <1>4, <1>5 DEF PollInv
<1>9. Good(s, known) /\ Good(j, known)
  BY <1>1, <1>2, <1>6, <1>7, <1>8 DEF Good, ShownInv
<1> QED
  BY <1>3, <1>4, <1>9 DEF s, j

(* It holds at first.                                                      *)
LEMMA InitPanel == Init => PanelInv
<1> SUFFICES ASSUME Init PROVE PanelInv
  OBVIOUS
<1>1. TodayTyped
  BY DEF Init, TodayTyped, Statuses
<1>2. PICK c \in Contexts :
        \/ panel = Closed(c)
        \/ panel = LoadReportHistory([Closed(c) EXCEPT !.visible = TRUE], NoThen)
  BY DEF Init
<1>3. Good(Closed(c), Known)
  BY ClosedGood
<1> DEFINE x == [Closed(c) EXCEPT !.visible = TRUE]
<1>4. Good(x, Known) /\ x.mounted
  BY ClosedGood
<1> HIDE DEF x
<1>5. Good(LoadReportHistory(x, NoThen), Known)
  BY <1>4, NoThenDue, LoadHistoryGood
<1> QED
  BY <1>1, <1>2, <1>3, <1>5 DEF PanelInv, x

(* Every step keeps it.                                                    *)
LEMMA StepPanel == PanelInv /\ [Next]_vars => PanelInv'
<1> SUFFICES ASSUME PanelInv, [Next]_vars PROVE PanelInv'
  OBVIOUS
<1>1. TodayTyped /\ Good(panel, Known) /\ IsKnown(Known)
  BY KnownIsKnown DEF PanelInv
<1>2. ASSUME today' = today PROVE TodayTyped' /\ Known' = Known
  BY <1>1, <1>2 DEF TodayTyped, Known
<1>3. CASE User
  <2>1. today' = today
    BY <1>3 DEF User, Open, Close, BeforeDestroy, SwitchContext, RetryHistory,
       Start, ViewTodayRun, OpenPrivateReport, OpenPdf, RetryReport,
       RetryComparison, Cancel, Resume, ClearCheckpoint, Press, ByUser
  <2>2. Good(panel', Known)
    BY <1>1, <1>3, UserGood
  <2> QED
    BY <1>2, <2>1, <2>2 DEF PanelInv
<1>4. ASSUME NEW q \in panel.sent, Serve(q) \/ ServeHalf(q) PROVE PanelInv'
  BY <1>1, <1>4, ServeGood DEF PanelInv
<1>5. ASSUME NEW q \in panel.sent, Deliver(q) PROVE PanelInv'
  <2>1. Good(Without(q), Known) /\ Leaves(Without(q), q, Known)
    BY <1>1, WithoutLeaves
  <2>2. Good(Answered(Without(q), q), Known)
    BY <1>1, <1>5, <2>1, AnsweredGood DEF Deliver
  <2> QED
    BY <1>2, <1>5, <2>2 DEF Deliver, PanelInv
<1>6. ASSUME NEW q \in panel.sent, Refuse(q) \/ Fail(q) PROVE PanelInv'
  <2>1. Good(Without(q), Known) /\ Leaves(Without(q), q, Known)
    BY <1>1, WithoutLeaves
  <2>2. Good(Failed(Without(q), q), Known)
    BY <2>1, FailedGood
  <2> QED
    BY <1>2, <1>6, <2>2 DEF Refuse, Fail, PanelInv
<1>7. CASE Tick
  <2>1. panel.mounted
    BY <1>1, <1>7 DEF Tick, Good, PollInv
  <2>2. Good(RefreshRun(panel), Known)
    BY <1>1, <2>1, RefreshRunGood
  <2> QED
    BY <1>2, <1>7, <2>2 DEF Tick, PanelInv
<1>8. ASSUME NEW c \in Contexts, RunEnds(c) PROVE PanelInv'
  <2>1. PICK status \in {"succeeded", "failed"} : today' = [today EXCEPT ![c] = status]
    BY <1>8 DEF RunEnds
  <2>2. status \in Statuses
    BY DEF Statuses, Terminal
  <2>3. TodayTyped' /\ Known \subseteq Known'
    BY <1>1, <2>1, <2>2, TodayStays
  <2>4. Good(panel, Known')
    BY <1>1, <2>3, GoodGrows
  <2> QED
    BY <1>8, <2>3, <2>4 DEF RunEnds, PanelInv
<1>9. CASE UNCHANGED vars
  BY <1>1, <1>2, <1>9 DEF vars, PanelInv
<1> QED
  BY <1>3, <1>4, <1>5, <1>6, <1>7, <1>8, <1>9 DEF Next, Network

(* The invariant holds in every reachable state.                           *)
THEOREM PanelKeepsInv == Spec => []PanelInv
<1>1. Init => PanelInv
  BY InitPanel
<1>2. PanelInv /\ [Next]_vars => PanelInv'
  BY StepPanel
<1> QED
  BY <1>1, <1>2, PTL DEF Spec
-----------------------------------------------------------------------------
(* Types: whatever is answered, the panel holds runs, numbers and flags.   *)
THEOREM PanelTypeOK == Spec => []TypeOK
<1>1. PanelInv => TypeOK
  <2> SUFFICES ASSUME PanelInv PROVE TypeOK
    OBVIOUS
  <2>1. panel \in Panels(Known) /\ TodayTyped /\ Known \subseteq Runs
    BY DEF PanelInv, Good, Known
  <2>2. Records(Known) \subseteq [id : Runs, status : Statuses]
    BY <2>1 DEF Records
  <2>3. \A q \in panel.sent : q \in Requests
    <3>1. Data(Known) \subseteq
            {None, Done} \cup [id : Runs, status : Statuses]
            \cup [run : [id : Runs, status : Statuses], limit : BOOLEAN]
            \cup [history : SUBSET Runs,
                  todayRun : {None} \cup [id : Runs, status : Statuses]]
      <4>1. [run : Records(Known), limit : BOOLEAN]
              \subseteq [run : [id : Runs, status : Statuses], limit : BOOLEAN]
        BY <2>2
      <4>2. [history : SUBSET Known, todayRun : {None} \cup Records(Known)]
              \subseteq [history : SUBSET Runs,
                         todayRun : {None} \cup [id : Runs, status : Statuses]]
        BY <2>1, <2>2
      <4> QED
        BY <2>2, <4>1, <4>2 DEF Data
    <3>2. Queries(Known) \subseteq Requests
      <4> SUFFICES ASSUME NEW q \in Queries(Known) PROVE q \in Requests
        OBVIOUS
      <4>1. q \in [kind : Kinds, id : Known \cup Contexts, gen : Nat, then : Thens,
                   data : Data(Known)]
        BY DEF Queries
      <4> QED
        BY <2>1, <3>1, <4>1 DEF Requests, Thens
    <3> QED
      BY <2>1, <3>2 DEF Panels
  <2>4. /\ panel.ctx \in Contexts /\ panel.busy \subseteq Buttons
        /\ panel.pollGeneration \in Nat /\ panel.historyRequestId \in Nat
        /\ panel.pollingRequest \in Nat \cup {None}
    BY <2>1 DEF Panels
  <2>5. /\ panel.run \in {None} \cup Records(Known)
        /\ panel.todayRun \in {None} \cup Records(Known)
        /\ panel.content \in {None} \cup Known /\ panel.previous \in {None} \cup Known
        /\ panel.opening \in {None} \cup Known /\ panel.history \subseteq Known
    BY <2>1 DEF Panels
  <2> QED
    BY <2>1, <2>2, <2>3, <2>4, <2>5 DEF TypeOK, TodayTyped
<1> QED
  BY <1>1, PanelKeepsInv, PTL

(* One asset: no answer, however late, puts a run, a report, a comparison  *)
(* or a history of another asset on the screen.                            *)
THEOREM ScreenIsOfOneAsset == Spec => []ShowsOneContext
<1>1. PanelInv => ShowsOneContext
  BY DEF PanelInv, Good, ShownInv, OneContext, ShowsOneContext
<1> QED
  BY <1>1, PanelKeepsInv, PTL

(* A comparison is with the predecessor of the report on the screen.       *)
THEOREM ComparisonIsOfThatReport == Spec => []ComparesWithPredecessor
<1>1. PanelInv => ComparesWithPredecessor
  BY DEF PanelInv, Good, ShownInv, Compared, ComparesWithPredecessor
<1> QED
  BY <1>1, PanelKeepsInv, PTL

(* A panel that is closed or destroyed has no timer.                       *)
THEOREM ClosedPanelIsQuiet == Spec => []HiddenPanelDoesNotPoll
<1>1. PanelInv => HiddenPanelDoesNotPoll
  BY DEF PanelInv, Good, PollInv, HiddenPanelDoesNotPoll
<1> QED
  BY <1>1, PanelKeepsInv, PTL

(* At most one poll of the present generation is under way.                *)
THEOREM PollIsSingle == Spec => []PollsOneAtATime
<1>1. PanelInv => PollsOneAtATime
  <2> SUFFICES ASSUME PanelInv PROVE PollsOneAtATime
    OBVIOUS
  <2>1. \A q, p \in Polling(panel) : q = p
    BY DEF PanelInv, Good, PollInv
  <2>2. Polling(panel) = {} \/ \E q : Polling(panel) = {q}
    BY <2>1
  <2>3. Cardinality(Polling(panel)) <= 1
    <3>1. CASE Polling(panel) = {}
      <4>1. Cardinality({}) = 0
        BY FS_EmptySet
      <4> QED
        BY <3>1, <4>1
    <3>2. CASE \E q : Polling(panel) = {q}
      <4>1. PICK q : Polling(panel) = {q}
        BY <3>2
      <4>2. Cardinality({q}) = 1
        BY FS_Singleton, Zenon
      <4> QED
        BY <4>1, <4>2
    <3> QED
      BY <2>2, <3>1, <3>2
  <2> QED
    BY <2>3 DEF PollsOneAtATime, Polling
<1> QED
  BY <1>1, PanelKeepsInv, PTL

-----------------------------------------------------------------------------
(* The spinner of the history.  Only the request it waits for takes it     *)
(* down, so every other function must leave the spinner, the number and    *)
(* the requests of the history as they are, or ask for the history anew.   *)
Watched == {"visible", "mounted", "run", "historyRequestId", "historyLoading", "sent"}

Rec(s) == Watched \subseteq DOMAIN s

Spin(s) ==
    /\ Rec(s)
    /\ s.visible /\ s.mounted /\ s.run = None /\ s.historyLoading =>
         Asks(s, "history") # {}

Kept(j, s) ==
    /\ Rec(s) => Rec(j)
    /\ Rec(s) =>
         /\ j.visible = s.visible /\ j.mounted = s.mounted
         /\ j.run = s.run \/ j.run # None
         /\ j.historyRequestId = s.historyRequestId
         /\ j.historyLoading = s.historyLoading
         /\ \A q \in s.sent : q.kind = "history" => q \in j.sent

(* What is kept spins on.                                                  *)
LEMMA KeptSpins ==
    ASSUME NEW s, NEW j, Spin(s), Kept(j, s)
    PROVE  Spin(j)
BY DEF Spin, Kept, Asks

(* Two functions that keep it keep it one after the other.                 *)
LEMMA KeptTwice ==
    ASSUME NEW s, NEW j, NEW i, Kept(j, s), Kept(i, j)
    PROVE  Kept(i, s)
BY DEF Kept

(* A call.                                                                 *)
LEMMA CallKeeps ==
    \A s, kind, id, gen, then : Kept(Call(s, kind, id, gen, then), s)
BY DEF Kept, Call, Rec, Watched

(* The functions of the polls and the latches.                             *)
LEMMA PollingKeeps ==
    ASSUME NEW s
    PROVE  /\ Kept(StopPolling(s), s) /\ Kept(RefreshRun(s), s)
           /\ Kept(StartPolling(s), s) /\ Kept(Started(s), s)
           /\ \A gen : Kept(PollSettled(s, gen), s) /\ Kept(OpenSettled(s, gen), s)
<1>1. \A i : Kept(StopPolling(i), i)
  BY DEF StopPolling, Kept, Rec, Watched
<1>2. \A i : Kept(RefreshRun(i), i)
  <2> SUFFICES ASSUME NEW i PROVE Kept(RefreshRun(i), i)
    OBVIOUS
  <2> DEFINE x == [i EXCEPT !.pollingRequest = i.pollGeneration]
             j == Call(x, "poll", i.run.id, i.pollGeneration, NoThen)
  <2>1. RefreshRun(i) = i \/ RefreshRun(i) = j
    BY DEF RefreshRun
  <2>2. Kept(i, i)
    BY DEF Kept
  <2>3. Kept(x, i)
    BY DEF Kept, Rec, Watched
  <2> HIDE DEF x
  <2>4. Kept(j, i)
    BY <2>3, CallKeeps, KeptTwice
  <2> HIDE DEF j
  <2> QED
    BY <2>1, <2>2, <2>4
<1>3. Kept(StartPolling(s), s)
  <2> DEFINE x == StopPolling(s)
             y == RefreshRun(x)
             j == [y EXCEPT !.pollTimer = TRUE]
  <2>1. Kept(x, s)
    BY <1>1
  <2>2. Kept(y, x)
    BY <1>2
  <2>3. StartPolling(s) = j
    BY DEF StartPolling
  <2> HIDE DEF x, y
  <2>4. Kept(j, y)
    BY DEF Kept, Rec, Watched
  <2> HIDE DEF j
  <2> QED
    BY <2>1, <2>2, <2>3, <2>4, KeptTwice
<1>4. Kept(Started(s), s)
  BY DEF Started, Kept, Rec, Watched
<1>5. \A gen : Kept(PollSettled(s, gen), s)
  BY DEF PollSettled, Kept, Rec, Watched
<1>6. \A gen : Kept(OpenSettled(s, gen), s)
  BY DEF OpenSettled, Kept, Rec, Watched
<1> QED
  BY <1>1, <1>2, <1>3, <1>4, <1>5, <1>6

(* What a caller does in the end.                                          *)
LEMMA ContinueKeeps ==
    ASSUME NEW s, NEW then \in Thens
    PROVE  Kept(Continue(s, then), s)
<1>1. CASE then.kind = "none"
  BY <1>1 DEF Continue, Kept
<1>2. CASE then.kind = "poll"
  <2>1. Kept(StopPolling(s), s)
    BY PollingKeeps
  <2>2. Kept(PollSettled(StopPolling(s), then.gen), StopPolling(s))
    BY PollingKeeps
  <2> QED
    BY <1>2, <2>1, <2>2, KeptTwice DEF Continue
<1>3. CASE then.kind = "open"
  BY <1>3, PollingKeeps DEF Continue
<1>4. CASE then.kind = "start"
  BY <1>4, PollingKeeps DEF Continue, Started
<1> QED
  BY <1>1, <1>2, <1>3, <1>4 DEF Thens

(* Loading a report.                                                       *)
LEMMA LoadReportKeeps ==
    ASSUME NEW s, NEW then \in Thens
    PROVE  Kept(LoadReport(s, then), s)
<1> DEFINE key == <<s.historyRequestId, s.run.id>>
           x == [s EXCEPT !.reportError = TRUE]
           y == [s EXCEPT !.reportError = FALSE, !.reportRequest = key]
           j == Call(y, "artifact", s.run.id, s.historyRequestId, then)
<1>1. LoadReport(s, then) \in {Continue(s, then), Continue(x, then), j}
  BY DEF LoadReport
<1>2. Kept(x, s) /\ Kept(y, s)
  BY DEF Kept, Rec, Watched
<1> HIDE DEF x, y
<1>3. Kept(j, s)
  BY <1>2, CallKeeps, KeptTwice
<1> HIDE DEF j
<1>4. Kept(Continue(x, then), s)
  BY <1>2, ContinueKeeps, KeptTwice
<1>5. Kept(Continue(s, then), s)
  BY ContinueKeeps
<1> QED
  BY <1>1, <1>3, <1>4, <1>5

(* Loading a comparison.                                                   *)
LEMMA LoadPreviousKeeps ==
    ASSUME NEW s
    PROVE  Kept(LoadPreviousReport(s), s)
<1> DEFINE x == [s EXCEPT !.previous = None, !.previousError = FALSE]
           j == Call(x, "previous", s.run.id, s.historyRequestId, NoThen)
<1>1. LoadPreviousReport(s) = x \/ LoadPreviousReport(s) = j
  BY DEF LoadPreviousReport
<1>2. Kept(x, s)
  BY DEF Kept, Rec, Watched
<1> HIDE DEF x
<1>3. Kept(j, s)
  BY <1>2, CallKeeps, KeptTwice
<1> HIDE DEF j
<1> QED
  BY <1>1, <1>2, <1>3

(* Showing a run.                                                          *)
LEMMA RestorePollingKeeps ==
    ASSUME NEW s
    PROVE  Kept(RestorePolling(s), s)
<1>1. Kept(s, s)
  BY DEF Kept
<1> QED
  BY <1>1, PollingKeeps, LoadReportKeeps, NoThenDue DEF RestorePolling

(* The history that is asked for is the one the spinner waits for.         *)
LEMMA LoadHistorySpins ==
    ASSUME NEW s, Rec(s), NEW then
    PROVE  Spin(LoadReportHistory(s, then))
<1> DEFINE n == s.historyRequestId + 1
           q == Query("history", s.ctx, n, then)
           j == LoadReportHistory(s, then)
<1>1. /\ j = [[s EXCEPT !.historyRequestId = n, !.historyLoading = TRUE,
                        !.historyError = FALSE]
              EXCEPT !.sent = @ \cup {q}]
  BY DEF LoadReportHistory, Call, Query
<1>2. q.kind = "history" /\ q.gen = n
  BY DEF Query
<1> HIDE DEF n, q, j
<1>3. Rec(j) /\ j.historyRequestId = n /\ q \in j.sent
  BY <1>1 DEF Rec, Watched
<1>4. q \in Asks(j, "history")
  BY <1>2, <1>3 DEF Asks
<1> QED
  BY <1>3, <1>4 DEF Spin, j

(* What the user does: the run leaves the screen only with the asset.      *)
LEMMA UserSpins ==
    ASSUME Spin(panel), User
    PROVE  Spin(panel')
<1>1. CASE Open
  <2> DEFINE x == [panel EXCEPT !.visible = TRUE]
             y == LoadReportHistory(x, NoThen)
  <2>1. Rec(x)
    BY DEF Spin, Rec
  <2>2. panel' = RestorePolling(y)
    BY <1>1 DEF Open, ByUser
  <2> HIDE DEF x
  <2>3. Spin(y)
    BY <2>1, LoadHistorySpins
  <2> HIDE DEF y
  <2> QED
    BY <2>2, <2>3, RestorePollingKeeps, KeptSpins
<1>2. CASE Close \/ BeforeDestroy
  <2> DEFINE n == panel.historyRequestId + 1
             x == [panel EXCEPT !.visible = FALSE, !.historyRequestId = n]
             y == [panel EXCEPT !.mounted = FALSE, !.historyRequestId = n]
  <2>1. panel' = StopPolling(x) \/ panel' = StopPolling(y)
    BY <1>2 DEF Close, BeforeDestroy, ByUser
  <2>2. Spin(x) /\ Spin(y)
    BY DEF Spin, Rec, Watched
  <2> HIDE DEF x, y
  <2> QED
    BY <2>1, <2>2, PollingKeeps, KeptSpins
<1>3. ASSUME NEW c \in Contexts, SwitchContext(c) PROVE Spin(panel')
  <2> DEFINE x == [panel EXCEPT
               !.ctx = c, !.historyRequestId = @ + 1, !.run = None,
               !.content = None, !.reportRequest = None, !.reportError = FALSE,
               !.previous = None, !.previousError = FALSE,
               !.errorMessage = FALSE, !.history = {}, !.todayRun = None]
             y == StopPolling(x)
  <2>1. panel' = IF panel.visible THEN LoadReportHistory(y, NoThen) ELSE y
    BY <1>3 DEF SwitchContext, ByUser
  <2>2. Rec(x) /\ x.visible = panel.visible
    BY DEF Spin, Rec, Watched
  <2> HIDE DEF x
  <2>3. Rec(y) /\ y.visible = panel.visible
    BY <2>2, PollingKeeps DEF Kept
  <2> HIDE DEF y
  <2>4. CASE panel.visible
    BY <2>1, <2>3, <2>4, LoadHistorySpins
  <2>5. CASE ~panel.visible
    BY <2>1, <2>3, <2>5 DEF Spin
  <2> QED
    BY <2>4, <2>5
<1>4. CASE RetryHistory
  <2>1. Rec(panel) /\ panel' = LoadReportHistory(panel, NoThen)
    BY <1>4 DEF Spin, RetryHistory, ByUser
  <2> QED
    BY <2>1, LoadHistorySpins
<1>5. CASE Start
  <2> DEFINE b == panel.busy \cup {"start"}
             x == [panel EXCEPT !.busy = b, !.errorMessage = FALSE,
                                !.historyError = FALSE, !.content = None]
  <2>1. panel' = Call(x, "create", panel.ctx, panel.historyRequestId, NoThen)
    BY <1>5 DEF Start, ByUser
  <2>2. Kept(x, panel)
    BY DEF Kept, Rec, Watched
  <2> HIDE DEF x
  <2> QED
    BY <2>1, <2>2, CallKeeps, KeptTwice, KeptSpins
<1>6. CASE ViewTodayRun
  <2> DEFINE x == [panel EXCEPT !.run = panel.todayRun]
  <2>1. panel' = RestorePolling(x) /\ panel.todayRun # None
    BY <1>6 DEF ViewTodayRun, ByUser
  <2>2. Kept(x, panel)
    BY <2>1 DEF Kept, Rec, Watched
  <2> HIDE DEF x
  <2> QED
    BY <2>1, <2>2, RestorePollingKeeps, KeptTwice, KeptSpins
<1>7. ASSUME NEW r, OpenPrivateReport(r) PROVE Spin(panel')
  <2> DEFINE n == panel.historyRequestId + 1
             x == [panel EXCEPT !.historyRequestId = n]
             y == StopPolling(x)
             z == [y EXCEPT !.opening = r, !.content = None, !.previous = None]
  <2>1. panel' = Call(z, "open", r, y.historyRequestId, NoThen)
    BY <1>7 DEF OpenPrivateReport, ByUser
  <2>2. panel.run # None \/ ~panel.historyLoading
    BY <1>7 DEF OpenPrivateReport, EmptyState
  <2>3. Spin(x)
    BY <2>2 DEF Spin, Rec, Watched
  <2>4. Kept(z, y)
    BY DEF Kept, Rec, Watched
  <2> HIDE DEF z
  <2>5. Kept(y, x)
    BY PollingKeeps
  <2> HIDE DEF y, x
  <2> QED
    BY <2>1, <2>3, <2>4, <2>5, CallKeeps, KeptTwice, KeptSpins
<1>8. ASSUME NEW r, OpenPdf(r) PROVE Spin(panel')
  <2> DEFINE x == [panel EXCEPT !.opening = r]
  <2>1. panel' = Call(x, "pdf", r, 0, NoThen)
    BY <1>8 DEF OpenPdf, ByUser
  <2>2. Kept(x, panel)
    BY DEF Kept, Rec, Watched
  <2> HIDE DEF x
  <2> QED
    BY <2>1, <2>2, CallKeeps, KeptTwice, KeptSpins
<1>9. CASE RetryReport
  <2>1. panel' = LoadReport(panel, NoThen)
    BY <1>9 DEF RetryReport, ByUser
  <2> QED
    BY <2>1, NoThenDue, LoadReportKeeps, KeptSpins
<1>10. CASE RetryComparison
  <2>1. panel' = LoadPreviousReport(panel)
    BY <1>10 DEF RetryComparison, ByUser
  <2> QED
    BY <2>1, LoadPreviousKeeps, KeptSpins
<1>11. ASSUME NEW button, NEW allowed, Press(button, allowed) PROVE Spin(panel')
  <2> DEFINE b == panel.busy \cup {button}
             e == panel.errorMessage /\ button # "resume"
             x == [panel EXCEPT !.busy = b, !.errorMessage = e]
  <2>1. panel' = Call(x, button, panel.run.id, panel.historyRequestId, NoThen)
    BY <1>11 DEF Press, ByUser
  <2>2. Kept(x, panel)
    BY DEF Kept, Rec, Watched
  <2> HIDE DEF x
  <2> QED
    BY <2>1, <2>2, CallKeeps, KeptTwice, KeptSpins
<1> QED
  BY <1>1, <1>2, <1>3, <1>4, <1>5, <1>6, <1>7, <1>8, <1>9, <1>10, <1>11
     DEF User, Cancel, Resume, ClearCheckpoint

(* The answers to other requests than the history.                         *)
LEMMA OtherAnswersSpin ==
    ASSUME NEW known, IsKnown(known), NEW s, Good(s, known), Spin(s),
           NEW q \in Queries(known), q.kind # "history"
    PROVE  /\ q.data # None => Spin(Answered(s, q))
           /\ Spin(Failed(s, q))
<1>1. q.kind \in Kinds /\ q.then \in Thens /\ q.gen \in Nat /\ Shape(q, known)
  BY DEF Queries
<1>2. /\ Kept(s, s)
      /\ \A b : Kept([s EXCEPT !.errorMessage = b], s)
      /\ \A b : Kept([s EXCEPT !.previousError = b], s)
      /\ \A b : Kept([s EXCEPT !.reportError = b], s)
      /\ \A r : Kept([s EXCEPT !.previous = r], s)
      /\ Kept([s EXCEPT !.opening = None], s)
  BY DEF Kept, Rec, Watched
<1>3. \A i : Kept(ReportSettled(i, q), i) /\ Kept(Released(i, q), i)
  BY DEF ReportSettled, Released, Kept, Rec, Watched
<1>4. \A r \in Records(known) : Kept([s EXCEPT !.run = r], s)
  BY NoneAssumption DEF Kept, Rec, Watched, Records, IsKnown
<1>5. Spin(Failed(s, q))
  <2> DEFINE m(b) == [s EXCEPT !.errorMessage = b]
             p(b) == [s EXCEPT !.previousError = b]
             t(b) == [s EXCEPT !.reportError = b]
             o == [s EXCEPT !.opening = None]
             current == IsCurrent(s, q)
             shown == IsCurrentRun(s, q)
  <2>1. Failed(s, q) \in
          {Started(m(s.errorMessage \/ current)), PollSettled(s, q.gen),
           Continue(ReportSettled(t(s.reportError \/ current), q), q.then),
           p(s.previousError \/ shown),
           OpenSettled(m(s.errorMessage \/ current), q.gen), o,
           Released(m(s.errorMessage \/ shown), q)}
    BY <1>1 DEF Failed, Kinds
  <2>2. /\ \A b : Kept(m(b), s) /\ Kept(p(b), s) /\ Kept(t(b), s)
        /\ Kept(o, s)
    BY <1>2
  <2> HIDE DEF m, p, t, o, current, shown
  <2>3. \A b : /\ Kept(Started(m(b)), s) /\ Kept(OpenSettled(m(b), q.gen), s)
               /\ Kept(Released(m(b), q), s)
    BY <1>3, <2>2, PollingKeeps, KeptTwice
  <2>4. \A b : Kept(Continue(ReportSettled(t(b), q), q.then), s)
    <3> TAKE b
    <3>1. Kept(ReportSettled(t(b), q), s)
      BY <1>3, <2>2, KeptTwice
    <3> QED
      BY <1>1, <3>1, ContinueKeeps, KeptTwice
  <2>5. Kept(PollSettled(s, q.gen), s)
    BY PollingKeeps
  <2>6. Kept(Failed(s, q), s)
    BY <2>1, <2>2, <2>3, <2>4, <2>5
  <2> QED
    BY <2>6, KeptSpins
<1>6. CASE q.kind = "create" /\ q.data # None
  <2> DEFINE r == q.data.run
             x == [s EXCEPT !.todayRun = r]
             y == [s EXCEPT !.run = r]
  <2>1. r \in Records(known)
    BY <1>1, <1>6 DEF Shape, CreateData
  <2>2. Answered(s, q) \in
          {Started(s), LoadReportHistory(x, [kind |-> "start", gen |-> 0]),
           Started(StartPolling(y))}
    BY <1>6 DEF Answered, CreateAnswered
  <2>3. Rec(x)
    BY DEF Spin, Rec
  <2>4. Kept(y, s)
    BY <1>4, <2>1
  <2> HIDE DEF r, x, y
  <2>5. Kept(Started(StartPolling(y)), s)
    BY <2>4, PollingKeeps, KeptTwice
  <2> QED
    BY <1>5, <2>2, <2>3, <2>5, PollingKeeps, KeptSpins, LoadHistorySpins
<1>7. CASE q.kind \in {"poll", "open"} /\ q.data # None
  <2> DEFINE r == q.data
             y == [s EXCEPT !.run = r]
             e == [s EXCEPT !.errorMessage = TRUE]
             poll == [kind |-> "poll", gen |-> q.gen]
             open == [kind |-> "open", gen |-> q.gen]
  <2>1. r \in Records(known)
    BY <1>1, <1>7 DEF Shape, RunData
  <2>2. Answered(s, q) \in
          {PollSettled(s, q.gen), LoadReport(y, poll), Continue(y, poll),
           PollSettled(y, q.gen), OpenSettled(s, q.gen), OpenSettled(e, q.gen),
           LoadReport(y, open)}
    BY <1>7 DEF Answered, PollAnswered, OpenAnswered
  <2>3. Kept(y, s) /\ Kept(e, s)
    BY <1>2, <1>4, <2>1
  <2>4. poll \in Thens /\ open \in Thens
    BY <1>1 DEF Thens
  <2> HIDE DEF r, y, e, poll, open
  <2>5. /\ Kept(LoadReport(y, poll), y) /\ Kept(LoadReport(y, open), y)
        /\ Kept(Continue(y, poll), y)
    BY <2>4, LoadReportKeeps, ContinueKeeps
  <2>6. /\ Kept(PollSettled(y, q.gen), y) /\ Kept(OpenSettled(e, q.gen), e)
        /\ Kept(PollSettled(s, q.gen), s) /\ Kept(OpenSettled(s, q.gen), s)
    BY PollingKeeps
  <2>7. Kept(Answered(s, q), s)
    BY <2>2, <2>3, <2>5, <2>6, KeptTwice
  <2> QED
    BY <1>5, <2>7, KeptSpins
<1>8. CASE q.kind = "artifact"
  <2> DEFINE x == [s EXCEPT !.content = q.id]
             j == IF IsCurrentRun(s, q) THEN LoadPreviousReport(x) ELSE s
             y == ReportSettled(j, q)
  <2>1. Answered(s, q) = Continue(y, q.then)
    BY <1>8 DEF Answered, ArtifactAnswered
  <2>2. Kept(x, s)
    BY DEF Kept, Rec, Watched
  <2> HIDE DEF x
  <2>3. Kept(j, s)
    BY <1>2, <2>2, LoadPreviousKeeps, KeptTwice
  <2> HIDE DEF j
  <2>4. Kept(y, s)
    BY <1>3, <2>3, KeptTwice
  <2> HIDE DEF y
  <2>5. Kept(Continue(y, q.then), y)
    BY <1>1, ContinueKeeps
  <2> QED
    BY <1>5, <2>1, <2>4, <2>5, KeptTwice, KeptSpins
<1>9. CASE q.kind \in {"previous", "pdf"}
  <2> DEFINE p == CHOOSE r \in PreviousOf(q.id) : TRUE
  <2>1. Answered(s, q) \in {[s EXCEPT !.previous = p], s, [s EXCEPT !.opening = None]}
    BY <1>9 DEF Answered, PreviousAnswered
  <2> HIDE DEF p
  <2>2. Kept(Answered(s, q), s)
    BY <1>2, <2>1
  <2> QED
    BY <1>5, <2>2, KeptSpins
<1>10. CASE q.kind \in {"cancel", "resume", "clear"}
  <2> DEFINE r(status) == [s.run EXCEPT !.status = status]
             x(status) == [s EXCEPT !.run = r(status)]
             c == StopPolling(x("cancelled"))
             p == StartPolling(x(Active))
  <2>1. s.run # None =>
          \A status \in {"cancelled", Active} : r(status) \in Records(known)
    BY DEF Good, Panels, Records, Statuses, Terminal
  <2>2. s.run # None => Kept(x("cancelled"), s) /\ Kept(x(Active), s)
    BY <1>4, <2>1
  <2>3. /\ [s EXCEPT !.run.status = "cancelled"] = x("cancelled")
        /\ [s EXCEPT !.run.status = Active] = x(Active)
    BY DEF Good, Panels
  <2>4. \/ Answered(s, q) = Released(s, q)
        \/ s.run # None /\ Answered(s, q) \in {Released(c, q), Released(p, q)}
    BY <1>10, <2>3 DEF Answered, CancelAnswered, ResumeAnswered, IsCurrentRun
  <2> HIDE DEF r, x
  <2>5. s.run # None => Kept(c, s) /\ Kept(p, s)
    BY <2>2, PollingKeeps, KeptTwice
  <2> HIDE DEF c, p
  <2>6. Kept(Answered(s, q), s)
    BY <1>3, <2>4, <2>5, KeptTwice
  <2> QED
    BY <1>5, <2>6, KeptSpins
<1> QED
  BY <1>1, <1>5, <1>6, <1>7, <1>8, <1>9, <1>10 DEF Kinds

(* The answer the spinner waits for takes it down, any other leaves it.    *)
LEMMA HistoryAnswersSpin ==
    ASSUME NEW known, NEW s, Rec(s), NEW q \in Queries(known),
           q.kind = "history", Spin(s) \/ q.gen = s.historyRequestId
    PROVE  Spin(HistoryAnswered(s, q)) /\ Spin(Failed(s, q))
<1> DEFINE h == q.data.history
           t == q.data.todayRun
           l == s.historyLoading /\ q.gen # s.historyRequestId
           x == [s EXCEPT !.history = h, !.todayRun = t, !.historyLoading = FALSE]
           y == [s EXCEPT !.historyLoading = l]
           z == [s EXCEPT !.history = {}, !.todayRun = None,
                          !.historyError = TRUE, !.historyLoading = FALSE]
<1>1. q.then \in Thens
  BY DEF Queries
<1>2. /\ HistoryAnswered(s, q) = Continue(IF IsCurrent(s, q) THEN x ELSE y, q.then)
      /\ Failed(s, q) = Continue(IF IsCurrent(s, q) THEN z ELSE y, q.then)
  BY DEF HistoryAnswered, Failed
<1>3. Spin(x) /\ Spin(z)
  <2> HIDE DEF h, t
  <2> QED
    BY DEF Spin, Rec, Watched
<1>4. Spin(y)
  <2>1. l => s.historyLoading /\ Spin(s)
    OBVIOUS
  <2> HIDE DEF l
  <2>2. /\ y.visible = s.visible /\ y.mounted = s.mounted /\ y.run = s.run
        /\ y.historyRequestId = s.historyRequestId /\ y.historyLoading = l
        /\ y.sent = s.sent /\ Rec(y)
    BY DEF Rec, Watched
  <2> HIDE DEF y
  <2>3. Asks(y, "history") = Asks(s, "history")
    BY <2>2 DEF Asks
  <2> QED
    BY <2>1, <2>2, <2>3 DEF Spin
<1> HIDE DEF x, y, z
<1>5. \A i \in {x, y, z} : Spin(Continue(i, q.then))
  BY <1>1, <1>3, <1>4, ContinueKeeps, KeptSpins
<1> QED
  BY <1>2, <1>5

(* Every step leaves the spinner its request.                              *)
LEMMA StepSpins == PanelInv /\ Spin(panel) /\ [Next]_vars => Spin(panel')
<1> SUFFICES ASSUME PanelInv, Spin(panel), [Next]_vars PROVE Spin(panel')
  OBVIOUS
<1>1. Good(panel, Known) /\ IsKnown(Known) /\ panel.sent \subseteq Queries(Known)
  BY KnownIsKnown DEF PanelInv, Good, Panels
<1>2. CASE User
  BY <1>2, UserSpins
<1>3. ASSUME NEW q \in panel.sent, Serve(q) \/ ServeHalf(q) PROVE Spin(panel')
  <2>1. PICK answer : Answer(q, answer)
    BY <1>3 DEF Serve, ServeHalf
  <2> DEFINE p == [q EXCEPT !.data = answer]
             sent == (panel.sent \ {q}) \cup {p}
  <2>2. panel' = [panel EXCEPT !.sent = sent]
    BY <2>1 DEF Answer
  <2>3. p.kind = q.kind /\ p.gen = q.gen
    BY <1>1 DEF Queries
  <2> HIDE DEF p
  <2>4. \A a \in panel.sent : \E b \in sent : b.kind = a.kind /\ b.gen = a.gen
    BY <2>3
  <2> HIDE DEF sent
  <2>5. /\ panel'.visible = panel.visible /\ panel'.mounted = panel.mounted
        /\ panel'.run = panel.run /\ panel'.sent = sent /\ Rec(panel')
        /\ panel'.historyRequestId = panel.historyRequestId
        /\ panel'.historyLoading = panel.historyLoading
    BY <2>2 DEF Spin, Rec, Watched
  <2> QED
    BY <2>4, <2>5 DEF Spin, Asks
<1>4. ASSUME NEW q \in panel.sent, Deliver(q) \/ Refuse(q) \/ Fail(q)
      PROVE  Spin(panel')
  <2> DEFINE s == Without(q)
  <2>1. Good(s, Known)
    BY <1>1, WithoutLeaves
  <2>2. /\ s.visible = panel.visible /\ s.mounted = panel.mounted
        /\ s.run = panel.run /\ s.sent = panel.sent \ {q} /\ Rec(s)
        /\ s.historyRequestId = panel.historyRequestId
        /\ s.historyLoading = panel.historyLoading
    BY DEF Without, Spin, Rec, Watched
  <2>3. \/ q.data # None /\ panel' = Answered(s, q)
        \/ panel' = Failed(s, q)
    BY <1>4 DEF Deliver, Refuse, Fail
  <2> HIDE DEF s
  <2>4. Spin(s) \/ (q.kind = "history" /\ q.gen = s.historyRequestId)
    BY <2>2 DEF Spin, Asks
  <2>5. CASE q.kind = "history"
    <3>1. Spin(HistoryAnswered(s, q)) /\ Spin(Failed(s, q))
      BY <1>1, <2>2, <2>4, <2>5, HistoryAnswersSpin
    <3> QED
      BY <2>3, <2>5, <3>1 DEF Answered
  <2>6. CASE q.kind # "history"
    BY <1>1, <2>1, <2>3, <2>4, <2>6, OtherAnswersSpin
  <2> QED
    BY <2>5, <2>6
<1>5. CASE Tick
  BY <1>5, PollingKeeps, KeptSpins DEF Tick
<1>6. ASSUME NEW c \in Contexts, RunEnds(c) PROVE Spin(panel')
  <2>1. panel' = panel
    BY <1>6 DEF RunEnds
  <2> QED
    BY <2>1
<1>7. CASE UNCHANGED vars
  BY <1>7 DEF vars
<1> QED
  BY <1>2, <1>3, <1>4, <1>5, <1>6, <1>7 DEF Next, Network

(* The spinner of the history is on the screen only while the request that *)
(* takes it down is under way, whatever was asked, closed or switched.     *)
THEOREM SpinnerWaitsForRequest == Spec => []HistorySpinnerHasRequest
<1>1. Init => Spin(panel)
  <2> SUFFICES ASSUME Init PROVE Spin(panel)
    OBVIOUS
  <2>1. PICK c \in Contexts :
          \/ panel = Closed(c)
          \/ panel = LoadReportHistory([Closed(c) EXCEPT !.visible = TRUE], NoThen)
    BY DEF Init
  <2>2. Spin(Closed(c))
    BY DEF Spin, Rec, Watched, Closed
  <2> DEFINE x == [Closed(c) EXCEPT !.visible = TRUE]
  <2>3. Rec(x)
    BY DEF Rec, Watched, Closed
  <2> HIDE DEF x
  <2>4. Spin(LoadReportHistory(x, NoThen))
    BY <2>3, LoadHistorySpins
  <2> QED
    BY <2>1, <2>2, <2>4 DEF x
<1>2. PanelInv /\ Spin(panel) /\ [Next]_vars => Spin(panel)'
  BY StepSpins
<1>3. Spin(panel) => HistorySpinnerHasRequest
  BY DEF Spin, Asks, HistorySpinnerHasRequest
<1>4. Spec => []PanelInv
  BY PanelKeepsInv
<1>5. Init /\ []PanelInv /\ [][Next]_vars => []Spin(panel)
  BY <1>1, <1>2, PTL
<1> QED
  BY <1>3, <1>4, <1>5, PTL DEF Spec
=============================================================================
