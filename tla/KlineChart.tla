----------------------------- MODULE KlineChart ------------------------------
(***************************************************************************)
(* views/indicator-analysis/components/KlineChart.vue: how the candles of  *)
(* the chart are loaded and kept up to date, by the exchange's stream      *)
(* (KlineStream) when there is one and it talks, by REST polling when not. *)
(*                                                                         *)
(* A candle is its time, 1, 2, ...; `now' is the newest on the market.     *)
(***************************************************************************)
EXTENDS KlineStream

CONSTANTS
    Streamed,       \* the contexts that are crypto spot markets
    MaxIntervals,   \* the gap isRealtimeAppendGapSuspicious accepts
    FetchLimit,     \* candles a poll asks for
    MaxSteps,       \* bound: what the user does
    MaxNow          \* bound: candles

VARIABLES
    chart,          \* the props, refs and timers of the component
    requests,       \* requests whose promise has not settled
    now,
    steps

vars == <<streamVars, chart, requests, now, steps>>

NoBars == [from |-> {}, last |-> 0]

(* ctx and enabled are props; from is whose candles klineData holds.       *)
Created(c, enabled) ==
    [ctx |-> c, enabled |-> enabled, mounted |-> TRUE,
     loading |-> FALSE, loadGeneration |-> 0, activeLoad |-> None,
     data |-> NoBars, rest |-> FALSE, fetching |-> FALSE,
     stale |-> FALSE, resync |-> FALSE, wsActive |-> FALSE,
     realtimeGeneration |-> 0]

Load(k)  == [kind |-> "load", gen |-> k.loadGeneration, ctx |-> k.ctx, at |-> now]
Fetch(k) == [kind |-> "fetch", gen |-> 0, ctx |-> k.ctx, at |-> now]
ExchangeId(k) ==
    [kind |-> "exchange", gen |-> k.realtimeGeneration, ctx |-> k.ctx, at |-> 0]

HasBars(k) == k.data.last > 0
-----------------------------------------------------------------------------
(* The component's functions, on its state k.                              *)
StartRestPolling(k) == [k EXCEPT !.rest = k.enabled /\ HasBars(k)]
StopRestPolling(k) == [k EXCEPT !.rest = FALSE]

ArmWsStaleWatchdog(k) == [k EXCEPT !.stale = k.enabled /\ k.ctx \in Streamed]

ScheduleResync(k) == [k EXCEPT !.resync = @ \/ ~k.loading]

GapSuspicious(last, next) == next > last + MaxIntervals

Appended(k, c, time) == [k EXCEPT !.data = [from |-> @.from \cup {c},
                                            last |-> time]]

(* Mutant: a candle that arrives does not set the watchdog again.          *)
HandleWsTickUnwatched(k, time) ==
    IF ~k.wsActive \/ ~HasBars(k) \/ time < k.data.last THEN k
    ELSE IF time = k.data.last THEN StopRestPolling(k)
    ELSE IF GapSuspicious(k.data.last, time)
    THEN ScheduleResync(StartRestPolling(k))
    ELSE Appended(StopRestPolling(k), stream.symbol, time)

(* Mutant: a candle that is not the last one is a new one.                 *)
HandleWsTickBackwards(k, time) ==
    IF ~k.wsActive THEN k
    ELSE LET armed == ArmWsStaleWatchdog(k) IN
         IF ~HasBars(k) THEN armed
         ELSE IF time = k.data.last THEN StopRestPolling(armed)
         ELSE IF GapSuspicious(k.data.last, time)
         THEN ScheduleResync(StartRestPolling(armed))
         ELSE Appended(StopRestPolling(armed), stream.symbol, time)

(* The stream's candle sets the watchdog and, unless it is older than the  *)
(* last one, ends the polling, whether or not the market has a newer one.  *)
HandleWsTick(k, time) ==
    IF ~k.wsActive THEN k
    ELSE LET armed == ArmWsStaleWatchdog(k) IN
         IF ~HasBars(k) \/ time < k.data.last THEN armed
         ELSE IF time = k.data.last THEN StopRestPolling(armed)
         ELSE IF GapSuspicious(k.data.last, time)
         THEN ScheduleResync(StartRestPolling(armed))
         ELSE Appended(StopRestPolling(armed), stream.symbol, time)

HandleWsReconnecting(k) == StartRestPolling(k)
HandleWsReconnected(k) == StopRestPolling(k)
HandleWsError(k) == StartRestPolling([k EXCEPT !.wsActive = FALSE])

(* The calls a step of the client makes; time is the candle of a tick.     *)
React(k, made, time) ==
    LET ticked == IF "tick" \in made THEN HandleWsTick(k, time) ELSE k
        again == IF "reconnected" \in made THEN HandleWsReconnected(ticked)
                 ELSE ticked
        lost == IF "reconnecting" \in made THEN HandleWsReconnecting(again)
                ELSE again
    IN  IF "error" \in made THEN HandleWsError(lost) ELSE lost

StopRealtime(k) ==
    [k EXCEPT !.rest = FALSE, !.stale = FALSE, !.resync = FALSE,
              !.wsActive = FALSE]

(* startRealtime up to its await; the client is disconnected by then.      *)
StartRealtime(k) ==
    LET started == [StopRealtime(k) EXCEPT !.realtimeGeneration = @ + 1]
    IN  StartRestPolling(started)

AsksExchange(k) == k.enabled /\ HasBars(k) /\ k.ctx \in Streamed

(* What a step that starts realtime updates sends.                         *)
Sent(k) == IF AsksExchange(k) THEN {ExchangeId(k)} ELSE {}

(* loadKlineData: the load of the present context supersedes any other.    *)
LoadKlineData(k) ==
    [StopRealtime(k) EXCEPT !.loadGeneration = @ + 1, !.activeLoad = k.ctx,
                            !.loading = TRUE]

AlreadyLoading(k) == k.loading /\ k.activeLoad = k.ctx

Reload(k) ==
    IF AlreadyLoading(k)
    THEN /\ chart' = k
         /\ UNCHANGED <<streamVars, requests>>
    ELSE /\ chart' = LoadKlineData(k)
         /\ requests' = requests \cup {Load(LoadKlineData(k))}
         /\ Disconnects
-----------------------------------------------------------------------------
(* The props, set by the parent, and the retry button.                     *)
Counted == steps < MaxSteps /\ steps' = steps + 1 /\ UNCHANGED now

SwitchContext(c) ==
    /\ chart.mounted /\ c # chart.ctx /\ Counted
    /\ Reload([chart EXCEPT !.ctx = c])

HandleRetry ==
    /\ chart.mounted /\ ~HasBars(chart) /\ ~chart.loading /\ Counted
    /\ Reload(chart)

EnableRealtime ==
    /\ chart.mounted /\ ~chart.enabled /\ Counted
    /\ chart' = StartRealtime([chart EXCEPT !.enabled = TRUE])
    /\ requests' = requests \cup Sent(chart')
    /\ Disconnects

DisableRealtime ==
    /\ chart.mounted /\ chart.enabled /\ Counted
    /\ chart' = StopRealtime([chart EXCEPT !.enabled = FALSE])
    /\ UNCHANGED requests
    /\ Disconnects

(* The client is dropped: another connection would make a new one.         *)
Unmount ==
    /\ chart.mounted /\ Counted
    /\ chart' = [StopRealtime(chart) EXCEPT !.mounted = FALSE]
    /\ UNCHANGED requests
    /\ Disconnects
-----------------------------------------------------------------------------
(* Answers.  The server answers with the newest candle it has by then.     *)
Without(q) == requests' = requests \ {q}

(* Mutant: the answer of an overtaken load is put on the chart.            *)
LoadedUnguarded(q) ==
    /\ q.kind = "load"
    /\ \E time \in q.at .. now :
         chart' = StartRealtime([chart EXCEPT
                      !.loading = FALSE, !.activeLoad = None,
                      !.data = [from |-> {q.ctx}, last |-> time]])
    /\ requests' = (requests \ {q}) \cup Sent(chart')
    /\ Disconnects

Loaded(q) ==
    /\ q.kind = "load"
    /\ IF q.gen # chart.loadGeneration
       THEN Without(q) /\ UNCHANGED <<streamVars, chart>>
       ELSE /\ \E time \in q.at .. now :
                 LET k == [chart EXCEPT !.loading = FALSE, !.activeLoad = None,
                               !.data = [from |-> {q.ctx}, last |-> time]]
                 IN  chart' = IF k.enabled THEN StartRealtime(k) ELSE k
            /\ requests' = (requests \ {q}) \cup Sent(chart')
            /\ IF chart.enabled THEN Disconnects ELSE UNCHANGED streamVars

LoadFails(q) ==
    /\ q.kind = "load"
    /\ chart' = IF q.gen # chart.loadGeneration THEN chart
                ELSE [chart EXCEPT !.loading = FALSE, !.activeLoad = None,
                                   !.data = NoBars]
    /\ Without(q)
    /\ Fault /\ UNCHANGED stream

(* updateKlineRealtime looks at no generation: it merges what it fetched,  *)
(* the FetchLimit newest candles, with those that are there now.           *)
FirstForward(last, time) ==
    IF time + 1 > last + FetchLimit THEN time + 1 - FetchLimit ELSE last + 1

(* Mutant: the fetched candles replace the newer ones of the stream.       *)
MergedOver(k, c, time) ==
    IF ~HasBars(k) THEN k
    ELSE IF GapSuspicious(k.data.last, FirstForward(k.data.last, time))
    THEN ScheduleResync(k)
    ELSE Appended(k, c, time)

Merged(k, c, time) ==
    IF ~HasBars(k) THEN k
    ELSE IF GapSuspicious(k.data.last, FirstForward(k.data.last, time))
    THEN ScheduleResync(k)
    ELSE Appended(k, c, IF time > k.data.last THEN time ELSE k.data.last)

Fetched(q) ==
    /\ q.kind = "fetch"
    /\ \E time \in q.at .. now :
         chart' = [Merged(chart, q.ctx, time) EXCEPT !.fetching = FALSE]
    /\ Without(q)
    /\ UNCHANGED streamVars

(* Mutant: a failed request leaves the poll marked as in flight.           *)
FetchFailsLatched(q) ==
    /\ q.kind = "fetch"
    /\ Without(q)
    /\ Fault /\ UNCHANGED <<stream, chart>>

FetchFails(q) ==
    /\ q.kind = "fetch"
    /\ chart' = [chart EXCEPT !.fetching = FALSE]
    /\ Without(q)
    /\ Fault /\ UNCHANGED stream

(* A connection that failed at once is marked active all the same.         *)
Streaming(k) == ArmWsStaleWatchdog([k EXCEPT !.wsActive = TRUE])

(* The exchange is known: connect to the present symbol, whatever became   *)
(* of the component meanwhile, unless updates were started again.          *)
ExchangeKnown(q) ==
    /\ q.kind = "exchange"
    /\ Without(q)
    /\ IF q.gen # chart.realtimeGeneration
       THEN UNCHANGED <<streamVars, chart>>
       ELSE \/ UNCHANGED <<streamVars, chart>>
            \/ Connects(chart.ctx) /\ chart' = Streaming(chart)
            \/ ConnectFails(chart.ctx) /\ chart' = Streaming(HandleWsError(chart))
-----------------------------------------------------------------------------
(* Timers.                                                                 *)
RestTick ==
    /\ chart.rest /\ ~chart.loading /\ HasBars(chart) /\ ~chart.fetching
    /\ chart' = [chart EXCEPT !.fetching = TRUE]
    /\ requests' = requests \cup {Fetch(chart)}
    /\ UNCHANGED <<streamVars, now, steps>>

StaleFires ==
    /\ chart.stale
    /\ LET fired == [chart EXCEPT !.stale = FALSE] IN
       chart' = IF chart.wsActive /\ chart.enabled /\ HasBars(chart)
                THEN StartRestPolling(fired) ELSE fired
    /\ UNCHANGED <<streamVars, requests, now, steps>>

ResyncFires ==
    /\ chart.resync
    /\ LET fired == [chart EXCEPT !.resync = FALSE] IN
       IF chart.enabled THEN Reload(fired)
       ELSE chart' = fired /\ UNCHANGED <<streamVars, requests>>
    /\ UNCHANGED <<now, steps>>

(* The market, and the client of the stream.                               *)
NewCandle ==
    /\ now < MaxNow /\ now' = now + 1
    /\ UNCHANGED <<streamVars, chart, requests, steps>>

ReactsTo(r, time) ==
    chart' = React(chart, r.calls, time) /\ UNCHANGED <<requests, now, steps>>
Reacts(r) == \E time \in 1 .. now : ReactsTo(r, time)

SocketSpeaks == \E r \in SocketMoves : Moves(r) /\ Reacts(r)
StreamTimerFires == \E r \in TimerMoves : Moves(r) /\ Reacts(r)
StreamFails == \E r \in FailedMoves : Fails(r) /\ Reacts(r)

Settle(q) == Loaded(q) \/ Fetched(q) \/ ExchangeKnown(q)
Answers == (\E q \in requests : Settle(q)) /\ UNCHANGED <<now, steps>>
Failures ==
    (\E q \in requests : LoadFails(q) \/ FetchFails(q)) /\ UNCHANGED <<now, steps>>

Init ==
    /\ StreamInit
    /\ now = 1 /\ steps = 0
    /\ \E c \in Contexts, enabled \in BOOLEAN :
         chart = LoadKlineData(Created(c, enabled))
    /\ requests = {Load(chart)}

Next ==
    \/ \E c \in Contexts : SwitchContext(c)
    \/ HandleRetry \/ EnableRealtime \/ DisableRealtime \/ Unmount
    \/ Answers \/ Failures
    \/ RestTick \/ StaleFires \/ ResyncFires
    \/ NewCandle
    \/ SocketSpeaks \/ StreamTimerFires \/ StreamFails

(* Timers fire and requests are answered; the exchange owes nothing.       *)
Spec ==
    /\ Init /\ [][Next]_vars
    /\ WF_vars(Answers) /\ WF_vars(RestTick) /\ WF_vars(StaleFires)
    /\ WF_vars(ResyncFires) /\ WF_vars(StreamTimerFires)
-----------------------------------------------------------------------------
(* Realtime updates are on, and there are candles to update.               *)
Live == chart.mounted /\ chart.enabled /\ ~chart.loading /\ HasBars(chart)

(* Whatever the stream does, something is set that will notice when it     *)
(* goes silent: the polling, the watchdog, or the stream's own timer.      *)
SilenceIsNoticed ==
    Live =>
        \/ chart.rest
        \/ chart.stale /\ chart.wsActive
        \/ chart.wsActive /\ ~stream.gotData /\ ~stream.closed
             /\ stream.openGen \in stream.dataTimeouts

(* The chart of a context holds candles of that context: an answer that    *)
(* was overtaken by another context never takes their place.               *)
ShowsItsContext ==
    ~chart.loading /\ HasBars(chart) => chart.ctx \in chart.data.from

(* Between two loads the newest candle only gets newer: a slow answer does *)
(* not take the chart back behind what the stream has shown.               *)
CandlesAdvance ==
    [][chart'.loading = chart.loading => chart'.data.last >= chart.data.last]_vars

(* The stream sends a candle that is not the market's newest any more.     *)
LateTick ==
    \E r \in SocketMoves, time \in 1 .. now :
        "tick" \in r.calls /\ time < now /\ Moves(r) /\ ReactsTo(r, time)

(* A chart that is behind the market catches up, or stops, even when the   *)
(* exchange never sends another candle, and however late those were that   *)
(* stopped its polling before; only a stream that sends old candles for    *)
(* ever, each of which ends the polling or puts off the watchdog, can keep *)
(* it behind.                                                              *)
CatchesUp ==
    \/ []<><<LateTick>>_vars
    \/ Live /\ chart.data.last < now ~> ~Live \/ chart.data.last = now
=============================================================================
