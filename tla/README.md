# Datavest in TLA+

TLA+ models of the concurrent core of Datavest, the TLC runs that check them on
small instances and the theorems TLAPS proves about them for every instance.
Paths below are relative to the repository; `P` stands for
`src/backend/backend_api_python/app`, `T` for
`src/backend/trading_agents_service/app` and `F` for `src/frontend/src`.

## 1. Inventory

Datavest is a Flask gateway with Celery workers, PostgreSQL and Redis, a private
FastAPI service that executes the TradingAgents graph, some crawlers, and a
browser front end (Vue) that talks to the gateway by HTTP and to exchanges by
WebSocket.

| Part | State | Operations | What is hard |
| --- | --- | --- | --- |
| **TradingAgents runs**: routes, tasks, callbacks, repository, private service | run rows, events, evidence, daily lock, artifacts (PostgreSQL); queued tasks (Redis); `active_runs`, threads (memory of the service); checkpoint and report (its volume) | create, cancel, resume, clear-checkpoint, poll; run and control tasks; callbacks; heartbeats | four parties that each see a part; at-least-once tasks; retried and delayed callbacks; a restart of each party; a timeout that settles what nobody reports on |
| **Shared and public research reports** (`P/services/smart_insights/shared_*`, `public_*`) | one report row per asset, kind and week; its source run | claim, retry, link to a run, sync, complete, fail | concurrent claims, a sync that works from an old list, retries against the daily lock of the runs |
| **Agent jobs** (`P/utils/agent_jobs.py`) | job rows; progress buffers in memory | submit, execute, publish, stream, cancel, collect | redelivery, sequence numbers from two sources, cancellation racing completion |
| **Portfolio ledger and NAV** (`P/services/portfolio`) | books with a revision, events, request keys, NAV points, a lease | mutate, replay, refresh | lost updates, repeated requests, a lease taken over |
| **Fast analysis** (`P/services/fast_analysis_tasks.py`) | an in-flight key per user and instrument | acquire, run, release | expiry without an owner |
| **Request guard, caches, resource guard** (`P/utils`) | in-flight futures, permits, fresh and stale values | guarded call, refresh, breaker | leaked permits, stale answers |
| **Strategy V2** (`P/services/strategy_v2`) | strategies, positions, protection levels | bars, orders, protections | long sequences of legal steps, numeric edges |
| **Smart Insights refresh** | refresh requests, snapshots | enqueue, collect, import | retries, partial imports |
| **Auth, MFA, OAuth, agent tokens** | sessions, codes, tokens | login, verify, revoke | expiry and single use |
| **Database pool, monitor, alerts, data sources, workers** | pools, breakers, schedules | | limits, timeouts |
| **Deep analysis panel** (`F/components/TradingAgents/DeepAnalysisPanel.vue`) | the run, report, comparison and history on the screen; a poller; requests in flight | open, close, change asset, start, poll, open a report, cancel, resume, clear | answers in any order after the panel was closed or pointed elsewhere; latches around awaits |
| **Smart Insights page** (`F/views/smart-insights`) | sections, spinners, a cache per date and language, the poller of shared reports | load, retry, change of language or session, leave | late answers, a cache shared by selections, a page that is left |
| **Kline chart and exchange stream** (`F/utils/exchangeWs.js`, `F/views/indicator-analysis/components/KlineChart.vue`) | candles, socket, five kinds of timer | load, stream, poll, fall back, reconnect, resync | handlers of old sockets, a silent stream, two writers of the candles |
| **Copilot chat** (`F/views/ai-analysis/components/CopilotWorkbench.vue`, `P/routes/ai_chat.py`) | messages and session on the page; sessions and messages in the database | send, stream, fall back, save, retry a report, open, begin or delete a conversation | a stream that breaks at any point; the page moves on during a turn |
| **Notice icon** (`F/components/NoticeIcon`, `F/utils/visibilityPolling.js`, `P/routes/strategy_notifications.py`) | badge, list, poller | poll, open, mark, clear; hide and show the page | a cached count, late lists, a poller whose page is hidden while it works |
| **Browser session** (`F/utils/request.js`, `F/permission.js`) | token, a redirect latch | sign in, expire, redirect | late 401 answers |
| Rest of the front end, LLM prompting, vendored graph, deployment, generated files | | | outside the scope of the models |

What makes the parts with a protocol of their own correct:

- *Runs*: one run per owner, asset and day; one thread per run; the graph sees
  the evidence stored with its run; nothing is published that was not written;
  a checkpoint is not taken from under a thread; a succeeded run stays so; every
  active run is settled in the end.
- *Reports*: one live claim per period; a report is completed only from the run
  it was claimed for; a pending report is settled or can be retried.
- *Jobs*: a job that was cancelled or has finished stays so; a stream delivers
  each event once and in order.
- *Ledger*: a request key has one effect; no mutation is lost; saved NAV values
  belong to the revision they were computed from.
- *Fast analysis*: one analysis of an instrument per user at a time.
- *Request guard*: permits are returned; one computation per key; whoever asks is
  answered with nothing older than the caches could hand out then.
- *Panel, page, chart*: what is on the screen belongs to what is selected,
  whatever arrives late; a poller runs while, and only while, somebody looks;
  what has changed on the server is shown in the end.
- *Chat*: a message the gateway is known to have is not sent again; the rows of a
  turn are in one conversation; the composer is released.
- *Bell*: it polls exactly while its page is seen, and badge and list catch up.

`PROJECT.json` lists every component with its sources, and the hazards that matter
most at their lines; section 7 has the others.

## 2. Plan

Done, in this order:

1. **Runs**: `RunRepository`, `TradingAgentsService`, `TradingAgentsRuns`, their
   instance `MCTradingAgentsRuns`, and the proofs.
2. **Panel**: `DeepAnalysisPanel`, the user's end of the same runs.
3. **Guarded reads**: the abstract `CachedRead`, `RequestGuard` that implements
   it, and the proof that it does.
4. **Pollers**: `VisibilityPolling` and, composed with it and with `CachedRead`,
   `NoticeIcon`.
5. **Smart Insights**: the abstract `LatestAnswer`, `SmartInsights` whose calendar
   implements it, and the proof.
6. **Chart**: `KlineStream` and, composed with it, `KlineChart`.
7. **Chat**: `CopilotChat` with the gateway's two routes.

Left, in the order in which it would repay the work:

8. `ResearchReports`: the weekly claims composed with `RunRepository` (a retry
   creates a run of the same day, which the daily lock refuses).
9. `AgentJobs`: submit, execute, cancel, redelivery, progress streams.
10. `PortfolioLedger`: request keys and revisions, the NAV lease.
11. The browser session; `InflightKey` of the fast analysis.

Every safety property that a run checks and that holds is a theorem (section 5).

## 3. The modules

    RunRepository            tables; one operator per committed transaction
      TradingAgentsService   service process, its threads, callbacks
        TradingAgentsRuns    routes, Celery tasks, failures, Next, properties
          MCTradingAgentsRuns    symmetry for TLC
    TradingAgentsService_proofs    its lemmas and those of RunRepository
      TradingAgentsRuns_proofs

    DeepAnalysisPanel        MCPanel, _proofs
    LatestAnswer             abstract: a view that can be asked again
      SmartInsights          implements it (INSTANCE); MCSmartInsights, _proofs
    KlineStream              one exchange socket and its timers
      KlineChart             the chart on top; MCKlineChart, _proofs
    CopilotChat              page and gateway; MCCopilotChat, _proofs
    CachedRead               abstract: reads of one key through a cache
      RequestGuard           implements it (INSTANCE); MCRequestGuard, _proofs
    VisibilityPolling        a poller that follows the page's visibility
      NoticeIcon             with CachedRead as its gateway; MCNoticeIcon, _proofs

Within a group a module EXTENDS the one above it (the two that say INSTANCE
instantiate it), so the parts share the variables through which the code
communicates.

In the modules of the front end a step is a macrotask: an event handler, a timer
or the continuation of an `await`, up to the next one. A request is a record with
what its continuation will look at (token, generation, asset). It is answered
with what the server holds at some moment, settles later, in any order, or fails.

### RunRepository (`P/services/trading_agents_repository.py`)

| Variable | In the code |
| --- | --- |
| `status`, `day`, `evidence` | `trading_agents_runs.status`, the (market, symbol, analysis_date) of `request_json`, `evidence_json` |
| `dailyRun` | `trading_agents_daily_runs` |
| `events` | the sequence numbers in `trading_agents_events` |
| `artifact` | the execution whose checksum is in `trading_agents_artifacts` |
| `silent` | the last event (or, without one, `started_at`) is older than 120 seconds |

An operator is one transaction: `CreateRun`, `TransitionRun` (which looks at no
status), `AppendEvent`, `StoreArtifact` and `StoreEvidence` (which keep what is
there), `ExpireStaleRunningRuns`. Reads that expire first are `Call`, `Poll` and
`ReuseDailyRun` in `TradingAgentsRuns`. Time is one bit per run.
The expiry takes the newest event alone when there is one; `started_at` counts
only for a run without events, which is why `TransitionRun` refreshes `silent`
only then.

### TradingAgentsService (`T/main.py`, `T/runner.py`, `P/services/trading_agents.py`)

`activeRuns` is `active_runs`; `execution[e]` is one `execute()` thread with its
program counter, its sequence and its cancel flag; `sending[e]` is the callback
that the holder of `publish_lock` waits for; `callbacks` are the requests in the
network or the gateway, each in one of its two transactions; `checkpoint` and
`report` are on the volume.

A report is of a run, a checkpoint is not: LangGraph keeps it in the owner's data
directory under a hash of ticker, date and graph signature (`thread_id` of
`src/backend/third_party/tradingagents/tradingagents/graph/checkpointer.py:28`,
called with the signature of `trading_graph.py:407`). `T/instruments.py:17-34`
maps several symbols of crypto and gold to one ticker, while the daily lock and
`active_runs` know symbols and runs. So the constant `ThreadId` maps an asset and
day to a thread id, in any way whatever, and runs of different assets may share
one (`CheckpointOf`). As a day of an asset has one run, the run's graph signature
is part of what `ThreadId` abstracts from.

The endpoints are coroutines of one uvicorn process that do not await between
reading and writing `active_runs`, hence atomic. A thread is `start` (announce
running), `begin`, `graph` (chunks), `save`, `artifact`, `succeed`, or `cancel`
or `fail`, then `terminal` (the finally block). `evidence_snapshot`, tool and
stage-detail events are publishes like a chunk's and are not told apart.
`GraphEnd` clears the checkpoint before `SaveNativeReport`, as the code does.
`NoAnswer` is the second attempt of `_callback`, then the log line. The first
attempt may still be in the gateway: `callbacks` is a set and both copies of a
POST can be in it.

### TradingAgentsRuns (`P/routes/trading_agents.py`, `P/tasks/trading_agents.py`)

`handler[c]` is an API request between its read, its write and its enqueue;
`queue` counts equal tasks in Redis; `worker[w]` is a task with what it read at
its start (`LastSequence`, `evidence`), which is what it sends later. A run task
goes evidence, mark, post; a control task evidence, post (cancel writes the row
first). A task that fails writes `failed` where its except blocks do (`Surrender`
names the kinds). `WorkerLost` puts the task back even when its body has run.

`Faults` are the failures a run may have, `MaxFaults` how many (a network that
loses the first attempt of a callback may lose the second one by the same
failure, `NetworkFault`):

| Fault | What happens |
| --- | --- |
| `gateway` | the gateway process dies between two steps of a request |
| `broker` | an enqueue raises |
| `provider` | the Vietnam evidence cannot be built |
| `rejected`, `unavailable` | the POST is refused; or has no usable answer, carried out or not |
| `worker` | a Celery worker is lost before it acknowledges |
| `restart` | the service process dies |
| `lost`, `slow` | a callback is dropped at either stage; or outlives the five-second timeout |
| `outage` | 120 seconds pass without an event although a thread lives |

### DeepAnalysisPanel (`F/components/TradingAgents/DeepAnalysisPanel.vue`)

`panel` is the component's data by the names of the code plus `sent`, the requests
that have not settled; `today` is the status on the server of each asset's run of
today. A context has three runs: today's, an older one, a public report. User
actions are `Open`, `Close`, `SwitchContext`, `Start`, `ViewTodayRun`,
`OpenPrivateReport`, `OpenPdf`, the retries, `Cancel`, `Resume`, `ClearCheckpoint`
(each guarded by what makes its button visible); `Serve` is the gateway, `Deliver`
and `Fail` the continuations (`HistoryAnswered`, `PollAnswered`, ...), `Tick` the
interval. `historyRequestId` and `pollGeneration` are the code's two generation
counters. The history is loaded with two requests whose answers are made at
different moments (`ServeHalf`).

### LatestAnswer, SmartInsights (`F/views/smart-insights/index.vue`)

`requestSequence` counts loads of the page, `sectionRequests` is the newest token
of each section and `issued` the tokens made; `shown` and `cache` hold the request
whose answer they show or store, so "is of this language" is a fact about a
request. `LoadAll` is the code's, called by `Mounted`, `SetLocale`,
`SignInOrOut`, `Reload`; `Retry` asks under a token of its own. `Settled` is
what `runSectionLoaders` does to the spinner when a loader ends. `LatestAnswer`
is what the calendar promises: `asked <- sectionRequests["calendar"]`,
`shown <- shown["calendar"].token`.

### KlineStream, KlineChart (`F/utils/exchangeWs.js`, `KlineChart.vue`)

`stream` has the client's fields, the sockets the browser has not closed and the
timers not cleared. Each handler first compares its generation with `openGen`, as
the closures do. An operator of `KlineStream` returns the stream and the callbacks
it makes (`Quiet`, `calls`), which `React` of `KlineChart` runs in order in the
same step. In `chart`, `data` is the newest candle and whose candles there are;
candles are numbered by time and `now` is the newest on the market. A tick of the
stream carries any candle up to `now`: newer than the chart's last one, that one
again, or an older one, which `handleWsTick` ignores, but not before it has set
the watchdog. `Load`,
`Fetch` and `ExchangeId` are its three requests.

### CopilotChat (`F/views/ai-analysis/components/CopilotWorkbench.vue`,
`P/routes/ai_chat.py`)

`turns[t]` is one `sendMessage` or report retry with the place it awaits at
(`save`, `report`, `draft`, `intent`, `preflight`, `resolve`, `stream`, `json`),
`view` the page, `store` the two tables, `handlers` the requests the gateway
works on: `Refuse`, `Accept`, `Reply` and `Break` of `chat_message_stream` and
its plain form. The events `accepted` and `meta`, which are sent one after the
other, are one. Messages have no text; a bubble has a state.

### CachedRead, RequestGuard (`P/utils/request_guard.py`)

`caller[c]` is a thread of the gateway in `guarded_cached`, `future[f]` a
computation, with `queued`, `read`, `cached`, `stored` for the places between its
statements. A lock region is one step (`Join`, `Refuse`, `Begin`), every cache
access another. Data are versions 1, 2, ...; 0 is nothing. `CachedRead` says what
the readers of one key may see; `Reads(k)` maps a thread that asks for `k` to a
reader and takes for `oldest` the oldest of what the caches and the running
computation of `k` may still hand out.

### VisibilityPolling, NoticeIcon (`F/utils/visibilityPolling.js`, `NoticeIcon.vue`)

`poller` has the closure's four variables, `hidden` is `document.hidden`, and the
three options are constants. `NoticeIcon` gives the poller its task (`Polled`:
the count, and the list when the popover is open); its count requests are readers
of `CachedRead`, which is what `RequestGuard` is proved to be; lists are not
cached. `post` is a mark or clear request, which moves the version.

## 4. The runs

Deadlock is not checked where the system stops when nothing is left to do; the
bell and the guard never stop, and theirs is.

| Run | Asks | Result |
| --- | --- | --- |
| `MCDailyRun` | `OneRunPerDay`, `SucceededIsFinal`, `CheckpointOutlivesItsGraph`: two clients, three requests to create runs for two symbols of one instrument or to clear their checkpoint, one failure | hold (1.7M states) |
| `MCExecution` | `OneExecutionPerRun`, `PublishedRunsHaveReport`, `SucceededRunsAreListed`, `ExecutesStoredEvidence`: three requests that may cancel, resume and clear a run on Vietnam evidence, one failure | hold (893k) |
| `MCLiveness` | `ActiveRunsSettle`, `ExecutionsEnd`, `TypeOK`: a run is created, any two failures but `gateway` (and `provider`, as the run is of no Vietnam asset) | hold (140k) |
| `MCPanel` | nothing of another asset on the screen, a comparison is with the predecessor, no poller without a viewer, one poll at a time, no orphan spinner, an ended run is shown | hold (703k) |
| `MCSmartInsights` | the page shows and caches what belongs to the selection, polls pending reports, ends its spinners, and its calendar implements `LatestAnswer` | hold (80k) |
| `MCKlineChart` | one socket, silence is noticed, candles are the market's and do not go back, the chart catches up; the stream's candles may be late | hold (1.0M) |
| `MCCopilotChat` | an accepted message is stored once, spinners have a turn, turns stay in one conversation, the composer is released | hold (277k) |
| `MCNoticeIcon` | polls exactly while seen; badge and list catch up | hold (321k) |
| `MCRequestGuard` | one computation per key, permits return, caches do not go back, the guard implements `CachedRead` | hold (1.1M) |

Three runs find what the code does against what the repository says of it:

| Run | The statement | What happens |
| --- | --- | --- |
| `MCStrandedResume` | "instead of leaving them active forever" (`P/services/trading_agents_repository.py:292`) | a resume that meets the failed thread in `active_runs` leaves the row queued |
| `MCPanelPolling` | "Frontend polling is single-flight, recovers from transient network errors and rejects stale responses" (`src/docs/trading-agents-review-2026-09-06.md:16`) | opening another report stops the polling first; when the open fails the active run stays on the screen unpolled |
| `MCCopilotTwice` | "so clients never submit the same user message again after an SSE disconnect" (`P/routes/ai_chat.py:2672`) | a stream that drops before its accepted event was read is sent again as a plain request, and both are stored |

The models contradict some more statements without a run of their own: retried
callbacks are applied twice although their event is stored once
(`P/services/trading_agents.py:105`), a resume can be sequenced below a stored
event (`P/tasks/trading_agents.py:177`), a second execution rewrites a report
under the first checksum (`P/services/trading_agents_repository.py:218`), a
failing report writer leaves no checkpoint (`T/runner.py:241`), clear-checkpoint
does not "clear only one run checkpoint" (`T/runner.py:272`) when another symbol
of the instrument has a run of that day, and takes it from that run's living
thread (`src/docs/trading-agents-review-2026-09-06.md:34-36` states the scope of a
checkpoint and advises to "avoid concurrent fresh runs"), a redelivered task marks
a succeeded run running (`P/tasks/trading_agents.py:192`).

`SucceededIsFinal` needs the conditions of `MCDailyRun`: no cancel or resume, no
redelivery, no slow callback, no service without a usable answer. A cancel or a
resume writes the row whatever it says; clear-checkpoint accepts a succeeded run,
and its task marks the run failed when it gets no usable answer. The theorem
`SuccessIsFinal` excludes clear-checkpoint altogether.

`CheckpointOutlivesItsGraph` says what the code does promise of a shared
checkpoint: a thread loses it at the end of its own stream, and never to a request
for its own run, which `active_runs` refuses. In `MCDailyRun` the other run takes
it both ways, at the end of its stream and by a clear-checkpoint once it is
settled; without either alternative the property fails. `ExecutesStoredEvidence` in
`MCExecution` sees two snapshots and one worker at a time; the race of two
workers that both build evidence is left to the theorem `EvidenceIsStored`.

### Bounds

*Runs.* One run, one handler and one worker unless a property needs more: the
tables and the registry are indexed by run and the transactions of two runs touch
disjoint rows. Two runs meet at the daily lock and at the checkpoint, and
`MCDailyRun` has two clients, two runs and two assets of one thread id: the
clients race for one day, or each gets a run of its own. One failure is enough
there for an early expiry or a restart under a thread. Runs and days are
interchangeable in it. Two executions are what it takes to have an old and a new
thread; three requests reach create, cancel and resume in every order. `MaxChunks`
1 gives a graph with a checkpoint and a publish in it; `MaxHeartbeats` is 1 in
`MCDailyRun`, where a heartbeat races the end of its thread, and 0 elsewhere. In
`MCLiveness` two failures reach a thread none of whose callbacks gets through
(`running` and `failed`, both attempts of each) and a run that meets a second
failure while the first is made good. Cancel requests on top of two failures are
more than TLC finishes in a run's time; with one failure both properties hold with
them too. `MaxQueued` 2 lets a redelivered task meet its copy. The proved
properties do not depend on any of them.

*Panel.* Two assets: every late answer is of this one or of another. Three user
steps (`MaxSteps`) are enough to open, act and leave, or to act, leave and come
back; one failure (`MaxFailures`), as every request has its own except block.

*Smart Insights.* Two languages, two steps after mounting, and a step is taken
only while at most one request is unanswered (`MaxSent`), else the orders of
answers multiply without a new kind of overtaking. Mounting itself sends all
sections at once.

*Chart.* A crypto and a non-crypto market, one reconnection attempt, one interval
as the largest gap, polls of one candle, three candles of market time and two
failures: a gap, a fallback and a give-up all occur. Three candles of time are
also what a late tick needs to be older than the last one, equal to it, or newer
and still not the market's newest.

*Chat.* Two turns, two clicks elsewhere, one failure: a turn can be overtaken by
the next and by a change of conversation.

*Bell.* Two count requests, one list request, two versions: one to be stale and
one to be new.

*Guard.* Two threads, and three keys for two permits, so that one is refused while
a thread that gave up left a computation behind; at most two keys have cached
values at a time (`TwoKeysCached`), as keys share permits but no cache.

Symmetry (clients, workers, executions; threads, keys and futures of the guard) is
used in runs of safety properties only.

### Fairness

`FairSpec` of the runs is fair to: the steps of handlers and workers (`NoFault`),
starting a queued task, each execution's thread, the timeout of a callback nobody
will answer, handling callbacks, a client's poll, and the passing of 120 seconds
for a run without a thread. The code justifies them: every network wait has a
timeout (`post_to_service`, `urlopen(timeout=5)`), model and data requests of
the graph are limited, Celery and the gateway are supervised, and the page polls
an open run. No failure, no request and no cancellation is fair, and polling is
needed: nothing but a read expires a run.

In the browser, what is fair is what a browser does by itself: an interval or a
timeout that is set fires, and a request settles, because axios, the streams and
the gateway have timeouts (`WF` of `Network` and `Tick`; of `Answer`; of
`Answers`, `RestTick`, `StaleFires`, `ResyncFires`, `StreamTimerFires`; of
`Gateway` and each `Continue`). Mounting is fair because the page is on its way.
The exchange is not fair: it may never send a candle again. It may also lag, and
as long as it sends old candles, each of which ends the polling or sets the
watchdog anew, the real chart stays behind: `CatchesUp` excludes a stream that
sends late candles for ever (`LateTick`). A late candle that only sets a watchdog
already set changes nothing in the model, so a stream that does nothing else for
ever is excluded by the fairness of `StaleFires`. Nor is any user action fair.
`NoticeIcon` needs strong fairness of `Polled`, which is possible only while the
page is seen: a page that is hidden and shown for ever is polled once in a while.
Its gateway's values expire by their time to live (`OldValuesExpire`), and
refusals are counted among the bounded failures, since the permits outnumber the
threads that could hold them. The guard and the socket have no fairness, as only
safety is asked of them.

## 5. What is proved

`tlapm` checks every proof from nothing. Assumed are the named ASSUMEs only:
`None` is none of the values, the VNStock days are days, the bounds are numbers,
and every day of an asset has a thread id (`ThreadIdAssumption`), no matter which.
Two theorems about the runs have a hypothesis of their own, on `Faults` and
`Operations`, because the property fails without it.

### Runs (`TradingAgentsService_proofs`, `TradingAgentsRuns_proofs`)

- `TypeCorrect`: `Spec => []TypeOK`. `TypeOK` is not inductive: a thread that
  publishes must have a run, and the same holds of a task at `post` and of a
  handler at `write`. `TypeInv` adds `ServiceShape` and `GatewayShape`, which
  say so. `RepositoryTypes`, `EndpointTypes`, `ThreadTypes` and `CallbackTypes`
  prove it per transaction, per endpoint, per thread step and per callback; the
  three lemmas `HandlersKeepTypeInv`, `WorkersKeepTypeInv`, `ServiceKeepsTypeInv`
  put them together, one step per action. That a checkpoint is of a thread id
  (`CheckpointTypeOK`) rests on more: a living thread is of a run with a row
  (`RunsHaveRows`), which has a day (`RunsHoldTheirDay`).
- `DailyRunIsUnique`: `OneRunPerDay`. Two runs of one day say nothing of the
  lock, so the invariant is `RunsHoldTheirDay`: a run that exists is the one its
  day's lock names. Only the INSERT makes a run exist, and it needs a free lock.
- `ExecutionIsExclusive`: `OneExecutionPerRun`. The invariant is
  `ThreadsAreRegistered`: `active_runs` names every living thread under its run.
  `Submit` needs a free entry, `Finish` removes its own and no other, a restart
  takes all threads with the registry.
- `CheckpointIsTheThreads`: the action property `CheckpointOutlivesItsGraph`, for
  every way of sharing checkpoints. `OnlyGraphsAndTasksTouchCheckpoints` says who
  writes or drops one. By `ThreadsAreRegistered` a stream that ends is the
  thread's own or another run's, and a clear-checkpoint, which needs a free entry
  of `active_runs`, is another run's.
- `PublishedRunsAreWritten`: `PublishedRunsHaveReport`. The invariant follows
  the announcement back to its origin: a thread past `save`, a publish being
  sent and a callback in flight that announce a report all find it on the
  volume, and no step removes it.
- `EvidenceIsStored`: `ExecutesStoredEvidence`. Threads get their evidence from
  tasks, so the invariant follows a snapshot from row to task to thread: a row
  keeps what it has (`StoredEvidenceStays`), a task carries the row's snapshot or
  none and is not at `post` for a VNStock run without one (`TaskEvidence`), only
  VNStock runs have one (`EvidenceIsOfVietnam`), and all of them have a row
  (`RunsHaveRows`).
- `SuccessIsListed`: `SucceededRunsAreListed`, if no callback is `lost` or `slow`
  (`CallbacksAnswered`): the thread goes on when it gets no answer, and would
  announce a success whose artifact nobody has filed. All operations and other
  failures are allowed. `ArtifactsAreFiled` follows a thread from its artifact
  callback to its last one: the artifact is filed by then or is the callback the
  thread still waits for. `NextIsServiceStep` says what each kind of failure adds
  to the steps of the service.
- `SuccessIsFinal`: `SucceededIsFinal`, if runs are only created and there is no
  `worker`, `slow` or `unavailable` failure (`HandedOnOnce`; that clear-checkpoint
  is excluded too makes the invariant simpler). `transition_run` looks at no
  status, so the proof is about who could call it. `OneHolder` says that a run is
  in one hand: of the request that inserted it, the queue, a task or a thread,
  each of which passes it on. `OneCallback` says that a thread has one callback
  under way, the one it waits for, or what a restart left. So when the success is
  applied nothing but heartbeats of that thread can follow (`SuccessIsSettled`),
  and nobody else has the run.

### Guarded reads (`RequestGuard_proofs`)

- `GuardTypeCorrect`, `OneComputationPerKey`, `PermitsComeBack`: one invariant,
  `GuardInv`. Uniqueness per key is not inductive; `Registered` says that
  `_inflight` names every computation at work under its key, so `Begin`, which
  needs a free entry, makes no second. Permits are counted by the cardinality of
  the computations at work, one more or less per step.
- `CacheOnlyAdvances`: also needs `ReadsAreNewest`: what a computation has read
  is no older than what the caches of its key hold, which is true because no
  other computation of the key can have stored in between.
- `GuardServesCachedReads`: the refinement. `ServeInv` adds that a thread falls
  back on nothing newer than the data (`FallsBack`). `AskerSteps` shows that a
  step that moves a thread gives it an answer or leaves it asking for nothing
  older, `ReaderMay` that the reader of `CachedRead` may do the same, and the
  theorem puts together initial states, `version`, `oldest` and readers.

### Panel (`DeepAnalysisPanel_proofs`)

The functions of the component call one another, so there is a lemma per function
that says what it keeps, and each action composes them. `PanelKeepsInv` is the
invariant, `PanelInv`:

- the types of the panel and of each request with its answer (`Panels`, `Shape`);
  `PanelTypeOK` follows;
- `Aimed`: a request that carries the present `historyRequestId` is about the
  asset on the screen. An answer is applied only under that number, so
  `ScreenIsOfOneAsset` (`ShowsOneContext`) follows;
- `Compared`, `Replaced`: under one number the run on the screen is replaced at
  most once from the history and once by a created run, and neither while a
  comparison that was asked for could be put beside it. This is what
  `ComparisonIsOfThatReport` rests on; `Latched` is needed because `start` holds
  its latch over two requests, one after the other;
- `PollInv`: a poll of the present generation is the one `pollingRequest` names.
  `PollIsSingle` and `ClosedPanelIsQuiet` follow.

`SpinnerWaitsForRequest` needs the other direction: no function may drop the
request that takes the spinner down, so each function is shown to keep it or to
ask anew (`KeptSpins`).

### Smart Insights (`SmartInsights_proofs`)

- `CalendarIsLatest`: the page implements `LatestAnswer`. `PageInv` bounds the
  tokens of the sections by `issued` and keeps the requests for the calendar in
  the calendar's section, and `CalendarMoves` splits a step of the page into the
  abstract asking, showing and clearing, or a stutter.
- `PageShowsSelection`, `CacheIsKeyed`: one invariant, as the screen is filled
  from the cache and the cache from answers. `PageAsksForSelection` says that a
  request of the present page is for the present language and account: these
  change only together with the number of the page.
- `PendingArePolled`: inductive as it stands.

### Chart (`KlineChart_proofs`)

- `StreamHasOneSocket`, `ChartHasOneSocket`: `OneSocket`, which is not inductive
  because a reconnect timer could open a second socket. `Tidy` adds that it is
  set only while none is open and that every socket is of the present generation.
- `ChartShowsItsContext`, `ChartAdvances`: `LoadInv` says that the load of the
  present generation is of the present context, is the only one, and that nothing
  in the chart is newer than the market. Ticks and polls may be of any age:
  `ChartAdvances` rests on the comparisons of `handleWsTick` and of the merge.
- `SilenceNoticed`: the chart learns of the socket only by callbacks, so each step
  of the client is shown to be of one of six kinds (`Explained`: it has given up
  and says so, has opened, has a candle, waits to reconnect, has replaced its
  socket, or has not moved). `WatchInv` says which of them leaves the chart with
  which timer.

### Chat (`CopilotChat_proofs`)

`ChatKeepsInv` is the invariant of turns, page, gateway and tables; `NextDoes`
and its lemmas first say what each of the many paths of a turn does to these.

- `ChatTypeOK`: a turn is at a save exactly while it has messages to save.
- `AcceptedMessageFiledOnce`: by `HandInv`, of each kind a turn has one request,
  the plain one only when nothing was heard of the streamed one, and each message
  in the tables came with a request past its acceptance.
- `SpinnerIsOfATurn`: of each waiting bubble a turn at an `await` will write it.
- `TurnFiledTogether`: `CleanInv` says that a turn no click disturbed is the last
  and holds the composer until it ends, and `TogetherInv` where its rows are: with
  the conversation on the screen until the chat request is sent, then with the one
  the request is filed in.

### Bell (`NoticeIcon_proofs`)

- `PollerFollowsPage`, `BellFollowsPage`: `PollsWhileSeen`. The invariant adds
  that a poller that is started listens to the visibility of the page.

### Model-checked only

Liveness under fairness is out of the prover's reach, so these are shown on the
small instances only: `ActiveRunsSettle`, `ExecutionsEnd`, `EndedRunIsShown`,
`SpinnersEnd`, `CatchesUp`, `SendingEnds`, `BadgeCatchesUp`, `ListCatchesUp`.
The three properties that the code violates are, of course, not theorems.

## 6. What is not modelled

- Several owners: every query is by owner and two owners share nothing.
- Errors of PostgreSQL inside a handler or a task, and Celery's time limits.
- An enqueue that raises although the broker has the task.
- The ticker of a symbol and the graph signature: `ThreadId` stands for both.
- Exceptions of a publish that `_callback` does not catch (see the hazard at
  `T/main.py:230`).
- Signatures, validation, redaction, projections, PDF and summaries of reports.
- The contents of the graph; its checkpoint is a file that is there or not.
- *Panel*: PDF export, the display of poll errors, dates and languages as parts of
  the context key, an artifact with an empty body, `loadLatestRun` and
  `startFresh`, which nothing calls.
- *Smart Insights*: an empty list of dates, pulse sections (loaded like the
  others), the evidence drawer, the asset analysis modal, speech.
- *Chart*: whose candles lie before the last one (`ShowsItsContext` says that the
  market on the screen is among them), history loaded by scrolling, the pause in a
  hidden tab, indicators and drawing. The socket's messages are candles; their
  parsing is left out.
- *Chat*: monitors made from an answer, uploads, voice, the refresh of the list of
  conversations, the signature that refuses the same text within 1.5 seconds, a
  strategy draft without a symbol, a preflight without a guide (today's only
  blocker has one).
- *Guard*: other processes (each has its own `_inflight`), the refusal of a job by
  an executor that shuts down, `cache_if`, the cache back end.
- *Bell*: marks on the page's own copy of the list, the contents of items; the run
  has one list request in flight at a time, though a click that opens sends two.
- Weekly reports, agent jobs, the portfolio ledger, fast analysis, Strategy V2,
  the refresh pipeline, authentication and the browser session: not modelled;
  their hazards are listed in `PROJECT.json`. Market data sources, LLM prompting,
  crawlers, locales and layout have no protocol worth a model, which is most of
  the repository's lines.

## 7. Hazards without a property

Behaviour that the models contain, or that belongs to a component left out, and
that no comment, document or test of the repository speaks about:

| Where | What |
| --- | --- |
| `P/services/trading_agents.py:107` | a running or succeeded callback of a thread that was told to stop overwrites cancelled |
| `P/tasks/trading_agents.py:229`, `:237` | a cancel handled before its run task, or without evidence, does not stop the graph |
| `T/main.py:230` | a heartbeat thread that was never started cannot be joined; not modelled |
| `DeepAnalysisPanel.vue:844`, `:851` | today's report can appear while an older one is being opened; the mark of the row being opened survives a close |
| `smart-insights/index.vue:671` | a poll that answers after the page was left starts its timer again (the page's test, `smartInsightsLifecycle.test.mjs:260`, has the other order) |
| `smart-insights/index.vue:618`, `:653` | a retried overview under its own token can overwrite a newer one; a stopped poller forgets the poll in flight |
| `KlineChart.vue:2642`, `:2427` | polls, and history loaded by scrolling, of a previous symbol are merged |
| `KlineChart.vue:504` | gaps of up to `MaxIntervals` are bridged without the missing candles |
| `KlineChart.vue:2404` | a load that answers after the chart was unmounted starts polling again |
| `exchangeWs.js:5` | the comment falls back to Binance; the code (`_tryFallback`) closes the client and leaves the chart to REST polling |
| `CopilotWorkbench.vue:3714`, `:1320`, `:1239`, `:2711` | events of a stream, late histories and late replies act on the conversation then open; a retried report releases the composer of a newer turn |
| `request_guard.py:88`, `:110` | several processes compute separately; a permit is leaked if the executor refuses the job |
| `NoticeIcon.vue:411` | the count asked for right after a mark may be the one cached before it |
| `request.js:176`, `:179` | after a sign-in by OAuth or wallet a later expiry is ignored; a late 401 of the old token removes the new one; not modelled |
| `shared_reports.py:120`, `shared_research_publisher.py:76` | concurrent weekly claims; a sync that works from an old list; not modelled |
| `agent_jobs.py:252`, `:272`, `P/tasks/agent_jobs.py:35` | sequence numbers from two sources; redelivered jobs; not modelled |
| `ledger_repository.py:57`, `history.py:96` | revisions and request keys of a book; a NAV lease taken over; not modelled |
| `fast_analysis_tasks.py:43` | an in-flight key that expires before its analysis ends; not modelled |
