-------------------------- MODULE DeepAnalysisPanel --------------------------
(***************************************************************************)
(* components/TradingAgents/DeepAnalysisPanel.vue: the panel in which a    *)
(* user starts, follows, cancels, resumes and reads TradingAgents runs.    *)
(*                                                                         *)
(* `panel' is the component's data plus `sent', the requests whose promise *)
(* has not settled.  A request is served at some moment (its answer is     *)
(* what the server held then), delivered later, in any order, or fails.    *)
(* Each step is one macrotask: an event handler or the continuation of an  *)
(* await, run up to the next await.                                        *)
(***************************************************************************)
EXTENDS Naturals, FiniteSets

CONSTANTS
    Contexts,      \* the assets the panel can be pointed at (contextKey)
    Reported,      \* the runs whose answer lists complete_report.md
    None,
    MaxSteps,      \* bound: what the user does
    MaxFailures    \* bound: requests that fail

VARIABLES
    panel,         \* the data of the component
    today,         \* the status on the server of each context's run of today
    steps, failures

vars == <<panel, today, steps, failures>>

(* A context has the run of today, an older succeeded run and a public     *)
(* report of another day.                                                  *)
Today(c) == <<c, "today">>
Old(c)   == <<c, "old">>
Public(c) == <<c, "public">>
Runs == Contexts \X {"today", "old", "public"}
ContextOf(r) == r[1]

Active == "active"                           \* queued or running
Terminal == {"succeeded", "failed", "cancelled"}
Statuses == Terminal \cup {Active}

ASSUME NoneAssumption ==
    None \notin Runs /\ None \notin [id : Runs, status : Statuses]

Kinds == {"history", "create", "poll", "artifact", "previous", "open", "pdf",
          "cancel", "resume", "clear"}
Buttons == {"start", "cancel", "resume", "clear"}

(* What the caller does when the promise it awaits settles.                *)
NoThen == [kind |-> "none", gen |-> 0]

Closed(c) ==
    [visible |-> FALSE, mounted |-> TRUE, ctx |-> c,
     run |-> None, content |-> None, previous |-> None, previousError |-> FALSE,
     history |-> {}, todayRun |-> None, opening |-> None, busy |-> {},
     pollTimer |-> FALSE, pollGeneration |-> 0, pollingRequest |-> None,
     reportRequest |-> None, historyRequestId |-> 0,
     historyLoading |-> FALSE, historyError |-> FALSE,
     reportError |-> FALSE, errorMessage |-> FALSE,
     sent |-> {}]

Call(s, kind, id, gen, then) ==
    [s EXCEPT !.sent = @ \cup {[kind |-> kind, id |-> id, gen |-> gen,
                                then |-> then, data |-> None]}]

IsCurrentRun(s, q) ==
    /\ s.visible
    /\ q.gen = s.historyRequestId
    /\ s.run # None /\ s.run.id = q.id

IsCurrent(s, q) == q.gen = s.historyRequestId /\ s.visible

StatusOfRun(s) == IF s.run = None THEN "none" ELSE s.run.status
-----------------------------------------------------------------------------
(* Polling.                                                                *)
StopPolling(s) ==
    [s EXCEPT !.pollGeneration = @ + 1, !.pollTimer = FALSE]

(* Mutant: every interval sends a request.                                 *)
RefreshRunUnlatched(s) ==
    IF s.run = None THEN s
    ELSE Call([s EXCEPT !.pollingRequest = s.pollGeneration],
              "poll", s.run.id, s.pollGeneration, NoThen)

RefreshRun(s) ==
    IF s.run = None \/ s.pollingRequest = s.pollGeneration
    THEN s
    ELSE Call([s EXCEPT !.pollingRequest = s.pollGeneration],
              "poll", s.run.id, s.pollGeneration, NoThen)

StartPolling(s) == [RefreshRun(StopPolling(s)) EXCEPT !.pollTimer = TRUE]

(* Mutant: no finally block releases the latch of the poll.                *)
PollSettledLatched(s, gen) == s

PollSettled(s, gen) ==
    [s EXCEPT !.pollingRequest = IF @ = gen THEN None ELSE @]

OpenSettled(s, gen) ==
    [s EXCEPT !.opening = IF s.historyRequestId = gen THEN None ELSE @]

(* refreshRun stops polling after the report it awaited, whatever the      *)
(* generation is by then; openHistoryReport and start release their latch. *)
Continue(s, then) ==
    CASE then.kind = "none"  -> s
      [] then.kind = "poll"  -> PollSettled(StopPolling(s), then.gen)
      [] then.kind = "open"  -> OpenSettled(s, then.gen)
      [] then.kind = "start" -> [s EXCEPT !.busy = @ \ {"start"}]

(* Loading the report of the shown run, of its predecessor, of the history. *)
LoadReport(s, then) ==
    LET key == <<s.historyRequestId, s.run.id>> IN
    IF s.content # None \/ s.reportRequest = key
    THEN Continue(s, then)
    ELSE IF s.run.id \notin Reported
    THEN Continue([s EXCEPT !.reportError = TRUE], then)
    ELSE Call([s EXCEPT !.reportError = FALSE, !.reportRequest = key],
              "artifact", s.run.id, s.historyRequestId, then)

RestorePolling(s) ==
    IF StatusOfRun(s) = Active THEN StartPolling(s)
    ELSE IF StatusOfRun(s) = "succeeded" THEN LoadReport(s, NoThen)
    ELSE s

(* Only the older private report of the same asset is comparable.          *)
PreviousOf(r) == IF r[2] = "today" THEN {Old(ContextOf(r))} ELSE {}

LoadPreviousReport(s) ==
    LET cleared == [s EXCEPT !.previous = None, !.previousError = FALSE] IN
    IF PreviousOf(s.run.id) \cap s.history = {}
    THEN cleared
    ELSE Call(cleared, "previous", s.run.id, s.historyRequestId, NoThen)

LoadReportHistory(s, then) ==
    Call([s EXCEPT !.historyRequestId = @ + 1, !.historyLoading = TRUE,
                   !.historyError = FALSE],
         "history", s.ctx, s.historyRequestId + 1, then)
-----------------------------------------------------------------------------
(* What the user can do: each guard is the template condition under which  *)
(* the control is on the screen, then the early returns of its handler.    *)
ByUser(next) ==
    /\ panel.mounted
    /\ steps < MaxSteps
    /\ steps' = steps + 1
    /\ panel' = next
    /\ UNCHANGED <<today, failures>>

EmptyState(s) ==
    s.visible /\ s.run = None /\ ~s.historyLoading /\ ~s.historyError

Open ==
    /\ ~panel.visible
    /\ LET shown == LoadReportHistory([panel EXCEPT !.visible = TRUE], NoThen)
       IN  ByUser(RestorePolling(shown))

Close ==
    /\ panel.visible
    /\ ByUser(StopPolling([panel EXCEPT !.visible = FALSE,
                                        !.historyRequestId = @ + 1]))

BeforeDestroy ==
    ByUser(StopPolling([panel EXCEPT !.mounted = FALSE,
                                     !.historyRequestId = @ + 1]))

SwitchContext(c) ==
    /\ c # panel.ctx
    /\ LET cleared == [panel EXCEPT
               !.ctx = c, !.historyRequestId = @ + 1, !.run = None,
               !.content = None, !.reportRequest = None, !.reportError = FALSE,
               !.previous = None, !.previousError = FALSE,
               !.errorMessage = FALSE, !.history = {}, !.todayRun = None]
           stopped == StopPolling(cleared)
       IN  ByUser(IF panel.visible THEN LoadReportHistory(stopped, NoThen)
                                   ELSE stopped)

RetryHistory ==
    /\ panel.visible /\ panel.run = None
    /\ panel.historyError /\ ~panel.historyLoading
    /\ ByUser(LoadReportHistory(panel, NoThen))

Start ==
    /\ EmptyState(panel) /\ panel.todayRun = None
    /\ "start" \notin panel.busy
    /\ ByUser(Call([panel EXCEPT !.busy = @ \cup {"start"},
                                 !.errorMessage = FALSE,
                                 !.historyError = FALSE, !.content = None],
                   "create", panel.ctx, panel.historyRequestId, NoThen))

ViewTodayRun ==
    /\ EmptyState(panel) /\ panel.todayRun # None
    /\ panel.todayRun.status # "succeeded"
    /\ ByUser(RestorePolling([panel EXCEPT !.run = panel.todayRun]))

OpenPrivateReport(r) ==
    /\ panel.opening = None
    /\ EmptyState(panel) \/ (panel.visible /\ panel.run # None)
    /\ r \in panel.history /\ r[2] # "public"
    /\ LET stopped == StopPolling([panel EXCEPT !.historyRequestId = @ + 1])
       IN  ByUser(Call([stopped EXCEPT !.opening = r, !.content = None,
                                       !.previous = None],
                       "open", r, stopped.historyRequestId, NoThen))

(* A public report, or the report of today's run (which carries no source).*)
OpenPdf(r) ==
    /\ panel.opening = None
    /\ \/ /\ EmptyState(panel) \/ (panel.visible /\ panel.run # None)
          /\ r \in panel.history /\ r[2] = "public"
       \/ /\ EmptyState(panel) /\ panel.todayRun # None
          /\ panel.todayRun = [id |-> r, status |-> "succeeded"]
    /\ ByUser(Call([panel EXCEPT !.opening = r], "pdf", r, 0, NoThen))

RetryReport ==
    /\ panel.visible /\ StatusOfRun(panel) = "succeeded"
    /\ panel.content = None /\ panel.reportError
    /\ ByUser(LoadReport(panel, NoThen))

RetryComparison ==
    /\ panel.visible /\ panel.run # None /\ panel.content # None
    /\ panel.previousError
    /\ ByUser(LoadPreviousReport(panel))

(* cancel, resume and clearCheckpoint: latched calls about the shown run.  *)
Press(button, allowed) ==
    /\ panel.visible /\ StatusOfRun(panel) \in allowed
    /\ button \notin panel.busy
    /\ ByUser(Call([panel EXCEPT
                       !.busy = @ \cup {button},
                       !.errorMessage = @ /\ button # "resume"],
                   button, panel.run.id, panel.historyRequestId, NoThen))

Cancel == Press("cancel", {Active})
Resume == Press("resume", {"failed", "cancelled"})
ClearCheckpoint == Press("clear", {"failed", "cancelled"})
-----------------------------------------------------------------------------
(* The server: what it answers now, and what the call changes.             *)
RunStatus(r) == IF r[2] = "today" THEN today[ContextOf(r)] ELSE "succeeded"

Private(c) ==
    {Old(c)} \cup (IF today[c] = "succeeded" THEN {Today(c)} ELSE {})

TodayRun(c) ==
    IF today[c] = "none" THEN None
    ELSE [id |-> Today(c), status |-> today[c]]

(* Promise.allSettled: both lists, or the one that was not rejected.       *)
HistoryAnswer(c) ==
    [history |-> Private(c) \cup {Public(c)}, todayRun |-> TodayRun(c)]
HalfAnswers(c) ==
    {[history |-> Private(c), todayRun |-> TodayRun(c)],
     [history |-> {Public(c)}, todayRun |-> None]}

Done == [ok |-> TRUE]

Answers(q) ==
    CASE q.kind = "history" -> {HistoryAnswer(q.id)}
      [] q.kind = "create"  ->
            {[run |-> [id |-> Today(q.id),
                       status |-> IF today[q.id] = "none" THEN Active
                                  ELSE today[q.id]],
              limit |-> today[q.id] # "none"]}
      [] q.kind = "cancel"  ->
            IF RunStatus(q.id) \in {Active, "cancelled"} THEN {Done} ELSE {}
      [] q.kind = "resume"  ->
            IF RunStatus(q.id) \in {"failed", "cancelled"} THEN {Done} ELSE {}
      [] q.kind = "poll"    -> {[id |-> q.id, status |-> RunStatus(q.id)]}
      [] q.kind = "open"    -> {[id |-> q.id, status |-> RunStatus(q.id)]}
      [] OTHER              -> {Done}

Effect(q) ==
    CASE q.kind = "create" /\ today[q.id] = "none" ->
            [today EXCEPT ![q.id] = Active]
      [] q.kind = "cancel" -> [today EXCEPT ![ContextOf(q.id)] = "cancelled"]
      [] q.kind = "resume" -> [today EXCEPT ![ContextOf(q.id)] = Active]
      [] OTHER             -> today

Answer(q, answer) ==
    /\ q.data = None
    /\ panel' = [panel EXCEPT !.sent = (@ \ {q}) \cup
                                       {[q EXCEPT !.data = answer]}]
    /\ today' = Effect(q)
    /\ UNCHANGED steps

Serve(q) ==
    /\ \E answer \in Answers(q) : Answer(q, answer)
    /\ UNCHANGED failures

ServeHalf(q) ==
    /\ q.kind = "history" /\ failures < MaxFailures
    /\ failures' = failures + 1
    /\ \E answer \in HalfAnswers(q.id) : Answer(q, answer)

RunEnds(c) ==
    /\ today[c] = Active
    /\ \E status \in {"succeeded", "failed"} :
         today' = [today EXCEPT ![c] = status]
    /\ UNCHANGED <<panel, steps, failures>>
-----------------------------------------------------------------------------
(* The continuation of each await, when its answer arrives.                *)
(* Mutant: the answer is applied whatever was asked since.                 *)
HistoryAnsweredAlways(s, q) ==
    Continue([s EXCEPT !.history = q.data.history,
                       !.todayRun = q.data.todayRun,
                       !.historyLoading = FALSE], q.then)

(* Mutant: an answer that shows the history leaves the spinner.            *)
HistoryAnsweredSpinning(s, q) ==
    Continue(IF IsCurrent(s, q)
             THEN [s EXCEPT !.history = q.data.history,
                            !.todayRun = q.data.todayRun]
             ELSE s, q.then)

HistoryAnswered(s, q) ==
    Continue(IF IsCurrent(s, q)
             THEN [s EXCEPT !.history = q.data.history,
                            !.todayRun = q.data.todayRun,
                            !.historyLoading = FALSE]
             ELSE [s EXCEPT !.historyLoading =
                            @ /\ q.gen # s.historyRequestId], q.then)

Started(s) == [s EXCEPT !.busy = @ \ {"start"}]

CreateAnswered(s, q) ==
    IF ~IsCurrent(s, q) THEN Started(s)
    ELSE IF q.data.limit
    THEN LoadReportHistory([s EXCEPT !.todayRun = q.data.run],
                           [kind |-> "start", gen |-> 0])
    ELSE Started(StartPolling([s EXCEPT !.run = q.data.run]))

PollAnswered(s, q) ==
    IF \/ q.gen # s.pollGeneration \/ ~s.visible
       \/ s.run = None \/ s.run.id # q.id
    THEN PollSettled(s, q.gen)
    ELSE LET seen == [s EXCEPT !.run = q.data]
             then == [kind |-> "poll", gen |-> q.gen]
         IN  IF q.data.status = "succeeded" THEN LoadReport(seen, then)
             ELSE IF q.data.status \in Terminal THEN Continue(seen, then)
             ELSE PollSettled(seen, q.gen)

ReportSettled(s, q) ==
    [s EXCEPT !.reportRequest = IF @ = <<q.gen, q.id>> THEN None ELSE @]

ArtifactAnswered(s, q) ==
    LET shown == IF IsCurrentRun(s, q)
                 THEN LoadPreviousReport([s EXCEPT !.content = q.id])
                 ELSE s
    IN  Continue(ReportSettled(shown, q), q.then)

(* Mutant: a late previous report is shown under another report.           *)
PreviousAnsweredAlways(s, q) ==
    [s EXCEPT !.previous = CHOOSE r \in PreviousOf(q.id) : TRUE]

PreviousAnswered(s, q) ==
    IF IsCurrentRun(s, q)
    THEN [s EXCEPT !.previous = CHOOSE r \in PreviousOf(q.id) : TRUE]
    ELSE s

OpenAnswered(s, q) ==
    IF ~IsCurrent(s, q) THEN OpenSettled(s, q.gen)
    ELSE IF q.data.status # "succeeded"
    THEN OpenSettled([s EXCEPT !.errorMessage = TRUE], q.gen)
    ELSE LoadReport([s EXCEPT !.run = q.data],
                    [kind |-> "open", gen |-> q.gen])

Released(s, q) == [s EXCEPT !.busy = @ \ {q.kind}]

(* Mutant: a status nothing else in the panel knows.                       *)
CancelAnsweredMisspelt(s, q) ==
    IF IsCurrentRun(s, q)
    THEN StopPolling([s EXCEPT !.run.status = "canceled"])
    ELSE s

CancelAnswered(s, q) ==
    IF IsCurrentRun(s, q)
    THEN StopPolling([s EXCEPT !.run.status = "cancelled"])
    ELSE s

(* Mutant: the run is polled even if the panel was closed meanwhile.       *)
ResumeAnsweredAlways(s, q) ==
    IF s.run # None /\ s.run.id = q.id
    THEN StartPolling([s EXCEPT !.run.status = Active])
    ELSE s

ResumeAnswered(s, q) ==
    IF IsCurrentRun(s, q)
    THEN StartPolling([s EXCEPT !.run.status = Active])
    ELSE s

Answered(s, q) ==
    CASE q.kind = "history"  -> HistoryAnswered(s, q)
      [] q.kind = "create"   -> CreateAnswered(s, q)
      [] q.kind = "poll"     -> PollAnswered(s, q)
      [] q.kind = "artifact" -> ArtifactAnswered(s, q)
      [] q.kind = "previous" -> PreviousAnswered(s, q)
      [] q.kind = "open"     -> OpenAnswered(s, q)
      [] q.kind = "pdf"      -> [s EXCEPT !.opening = None]
      [] q.kind = "cancel"   -> Released(CancelAnswered(s, q), q)
      [] q.kind = "resume"   -> Released(ResumeAnswered(s, q), q)
      [] q.kind = "clear"    -> Released(s, q)

(* The catch and finally blocks, when it does not.                         *)
Failed(s, q) ==
    LET current == IsCurrent(s, q) IN
    CASE q.kind = "history" ->
            Continue(IF current
                     THEN [s EXCEPT !.history = {}, !.todayRun = None,
                                    !.historyError = TRUE,
                                    !.historyLoading = FALSE]
                     ELSE [s EXCEPT !.historyLoading =
                                    @ /\ q.gen # s.historyRequestId], q.then)
      [] q.kind = "create" ->
            Started([s EXCEPT !.errorMessage = @ \/ current])
      [] q.kind = "poll" -> PollSettled(s, q.gen)
      [] q.kind = "artifact" ->
            Continue(ReportSettled([s EXCEPT !.reportError = @ \/ current], q),
                     q.then)
      [] q.kind = "previous" ->
            [s EXCEPT !.previousError = @ \/ IsCurrentRun(s, q)]
      [] q.kind = "open" ->
            OpenSettled([s EXCEPT !.errorMessage = @ \/ current], q.gen)
      [] q.kind = "pdf" -> [s EXCEPT !.opening = None]
      [] OTHER ->
            Released([s EXCEPT !.errorMessage = @ \/ IsCurrentRun(s, q)], q)

Without(q) == [panel EXCEPT !.sent = @ \ {q}]

Deliver(q) ==
    /\ q.data # None
    /\ panel' = Answered(Without(q), q)
    /\ UNCHANGED <<today, steps, failures>>

(* Lost before or after the server handled it: a network error or timeout. *)
Fail(q) ==
    /\ failures < MaxFailures
    /\ failures' = failures + 1
    /\ panel' = Failed(Without(q), q)
    /\ UNCHANGED <<today, steps>>

(* 409: cancel of a completed run, resume of one that has not stopped.     *)
Refuse(q) ==
    /\ q.data = None /\ Answers(q) = {}
    /\ panel' = Failed(Without(q), q)
    /\ UNCHANGED <<today, steps, failures>>

Tick ==
    /\ panel.pollTimer
    /\ panel' = RefreshRun(panel)
    /\ UNCHANGED <<today, steps, failures>>
-----------------------------------------------------------------------------
(* The panel is created hidden, or on the screen: then it loads at once.   *)
Init ==
    /\ \E c \in Contexts :
         \/ panel = Closed(c)
         \/ panel = LoadReportHistory([Closed(c) EXCEPT !.visible = TRUE], NoThen)
    /\ today \in [Contexts -> {"none", Active}]
    /\ steps = 0 /\ failures = 0

User ==
    \/ Open \/ Close \/ BeforeDestroy
    \/ \E c \in Contexts : SwitchContext(c)
    \/ RetryHistory \/ Start \/ ViewTodayRun
    \/ \E r \in Runs : OpenPrivateReport(r) \/ OpenPdf(r)
    \/ RetryReport \/ RetryComparison
    \/ Cancel \/ Resume \/ ClearCheckpoint

Network == \E q \in panel.sent : Serve(q) \/ Deliver(q) \/ Refuse(q)

Next ==
    \/ User
    \/ Network
    \/ \E q \in panel.sent : Fail(q) \/ ServeHalf(q)
    \/ Tick
    \/ \E c \in Contexts : RunEnds(c)

(* A request is answered or fails in the end, and the interval fires.      *)
Spec == Init /\ [][Next]_vars /\ WF_vars(Network) /\ WF_vars(Tick)
-----------------------------------------------------------------------------
Requests ==
    [kind : Kinds, id : Runs \cup Contexts, gen : Nat,
     then : [kind : {"none", "poll", "open", "start"}, gen : Nat],
     data : {None, Done} \cup [id : Runs, status : Statuses]
            \cup [run : [id : Runs, status : Statuses], limit : BOOLEAN]
            \cup [history : SUBSET Runs,
                  todayRun : {None} \cup [id : Runs, status : Statuses]]]

TypeOK ==
    /\ panel.ctx \in Contexts
    /\ panel.run \in {None} \cup [id : Runs, status : Statuses]
    /\ panel.todayRun \in {None} \cup [id : Runs, status : Statuses]
    /\ {panel.content, panel.previous, panel.opening} \subseteq Runs \cup {None}
    /\ panel.history \subseteq Runs
    /\ panel.busy \subseteq Buttons
    /\ panel.pollGeneration \in Nat /\ panel.historyRequestId \in Nat
    /\ panel.pollingRequest \in Nat \cup {None}
    /\ \A q \in panel.sent : q \in Requests
    /\ today \in [Contexts -> Statuses \cup {"none"}]

(* Whatever arrives late, nothing of another asset is on the screen: not   *)
(* its run, its report, the report it is compared with, nor its history.   *)
ShowsOneContext ==
    /\ panel.run # None => ContextOf(panel.run.id) = panel.ctx
    /\ panel.todayRun # None => ContextOf(panel.todayRun.id) = panel.ctx
    /\ \A r \in {panel.content, panel.previous} \ {None} :
         ContextOf(r) = panel.ctx
    /\ \A r \in panel.history : ContextOf(r) = panel.ctx

(* The report offered for comparison precedes the report on the screen,    *)
(* however late either of them arrives.                                    *)
ComparesWithPredecessor ==
    panel.previous # None =>
        panel.content # None /\ panel.previous \in PreviousOf(panel.content)

(* A closed or destroyed panel has no timer, even when an answer that      *)
(* would start polling arrives afterwards.                                 *)
HiddenPanelDoesNotPoll ==
    ~(panel.visible /\ panel.mounted) => ~panel.pollTimer

(* Polling is single-flight: one poll of the current generation at a time. *)
PollsOneAtATime ==
    Cardinality({q \in panel.sent :
        q.kind = "poll" /\ q.gen = panel.pollGeneration}) <= 1

(* The history spinner is on the screen only while the request that will   *)
(* take it down is under way.                                              *)
HistorySpinnerHasRequest ==
    panel.visible /\ panel.mounted /\ panel.run = None /\ panel.historyLoading =>
        \E q \in panel.sent :
            q.kind = "history" /\ q.gen = panel.historyRequestId

(* A polled run that has ended on the server is soon shown as ended,       *)
(* whatever polls fail, unless the user leaves or resumes it.              *)
Polled(c) ==
    /\ panel.pollTimer /\ panel.ctx = c
    /\ StatusOfRun(panel) = Active /\ panel.run.id = Today(c)
EndedRunIsShown ==
    \A c \in Contexts :
        (Polled(c) /\ today[c] \in Terminal) ~>
            ~(Polled(c) /\ today[c] \in Terminal)

(* docs/trading-agents-review-2026-09-06.md: polling recovers from         *)
(* transient network errors and rejects stale responses after an asset     *)
(* change: an active run on the screen is polled.                          *)
ActiveRunIsPolled ==
    /\ panel.visible /\ panel.mounted
    /\ StatusOfRun(panel) = Active /\ panel.opening = None
    => panel.pollTimer
=============================================================================
