-------------------------- MODULE KlineChart_proofs --------------------------
(***************************************************************************)
(* For any number of contexts, reloads, reconnects and faults:             *)
(*                                                                         *)
(* The stream's client never leaves a socket open behind it, whatever the  *)
(* chart asks of it.  A new socket is opened in two ways.  connect()       *)
(* disconnects first; the reconnect timer does not, and is safe because it *)
(* is set only while no socket is open, which is what the invariant adds.  *)
(*                                                                         *)
(* The candles of a chart that is not loading are its own context's, and   *)
(* get only newer: LoadInv says that a load of the present generation asks *)
(* for the present context, so an answer either is for it or is dropped.   *)
(*                                                                         *)
(* A live chart is always watched.  WatchInv follows the duty from the     *)
(* polling to the stream's timers and back: every step of the client is    *)
(* one of a few moves (Explained), and the chart's answer to each of them  *)
(* sets what will notice the next silence.                                 *)
(***************************************************************************)
EXTENDS KlineChart, TLAPS

Client(symbols) ==
    [closed : BOOLEAN, openGen : Nat, ws : Nat,
     sockets : SUBSET [gen : Nat, open : BOOLEAN],
     symbol : symbols, everConnected : BOOLEAN,
     fallbackUsed : BOOLEAN, gotData : BOOLEAN, attempts : Nat,
     reconnectTimer : BOOLEAN, connectTimeout : Nat,
     dataTimeout : Nat, dataTimeouts : SUBSET Nat]

IsClient(w) == \E symbols : w \in Client(symbols)

(* The sockets there are belong to the present connection, and the         *)
(* reconnect timer waits only when there is none.                          *)
Tidy(w) ==
    /\ IsClient(w)
    /\ \A s \in w.sockets : ~w.closed /\ s.gen = w.openGen /\ w.ws = s.gen
    /\ w.reconnectTimer => w.sockets = {}

(* Giving up leaves the sockets alone, so there must be none.              *)
LEMMA TryFallbackTidy ==
    ASSUME NEW w, IsClient(w), w.sockets = {}
    PROVE  Tidy(TryFallback(w).w)
<1> DEFINE x == [w EXCEPT !.fallbackUsed = TRUE, !.closed = TRUE]
<1>1. IsClient(x) /\ x.sockets = {}
  BY DEF IsClient, Client
<1>2. TryFallback(w).w = x
  BY DEF TryFallback
<1> HIDE DEF x
<1> QED
  BY <1>1, <1>2 DEF Tidy

(* disconnect() closes the socket of the present connection: all of them.  *)
LEMMA DisconnectTidy ==
    ASSUME NEW w, Tidy(w)
    PROVE  /\ Tidy(Disconnect(w)) /\ Disconnect(w).sockets = {}
           /\ ~Disconnect(w).reconnectTimer
<1>1. Drop(w.sockets, w.ws) = {}
  BY DEF Tidy, IsClient, Client, Drop
<1>2. PICK symbols : w \in Client(symbols)
  BY DEF Tidy, IsClient, Client
<1> DEFINE n == w.openGen + 1
<1> DEFINE d == w.dataTimeouts \ {w.dataTimeout}
<1> DEFINE none == Drop(w.sockets, w.ws)
<1> DEFINE x == [w EXCEPT !.closed = TRUE, !.openGen = n,
                          !.reconnectTimer = FALSE, !.connectTimeout = 0,
                          !.dataTimeouts = d, !.dataTimeout = 0,
                          !.sockets = none, !.ws = 0]
<1>3. n \in Nat /\ d \in SUBSET Nat /\ none = {}
  BY <1>1, <1>2 DEF Client
<1>4. Disconnect(w) = x
  BY DEF Disconnect
<1> HIDE DEF n, d, none
<1>6. x \in Client(symbols) /\ x.sockets = {} /\ ~x.reconnectTimer
  BY <1>2, <1>3 DEF Client
<1> HIDE DEF x
<1>5. /\ Disconnect(w) \in Client(symbols) /\ Disconnect(w).sockets = {}
      /\ ~Disconnect(w).reconnectTimer
  BY <1>4, <1>6
<1> QED
  BY <1>5 DEF Tidy, IsClient, Client

(* A socket, connecting and open.                                         *)
LEMMA SocketType ==
    ASSUME NEW g \in Nat
    PROVE  /\ Socket(g, FALSE) \in [gen : Nat, open : BOOLEAN]
           /\ Socket(g, TRUE) \in [gen : Nat, open : BOOLEAN]
BY DEF Socket

(* _open, called while no socket is open and no timer will open another.   *)
LEMMA OpenTidy ==
    ASSUME NEW w, IsClient(w), w.sockets = {}, ~w.reconnectTimer
    PROVE  Tidy(OpenSocket(w).w) /\ Tidy(OpenThrows(w).w)
<1>1. Tidy(w)
  BY DEF Tidy
<1>2. Tidy(OpenSocket(w).w)
  <2>1. CASE w.closed
    BY <1>1, <2>1 DEF OpenSocket, Quiet
  <2>2. CASE ~w.closed
    <3> DEFINE g == w.openGen + 1
    <3> DEFINE x == [w EXCEPT !.openGen = g, !.ws = g, !.connectTimeout = g,
                              !.sockets = w.sockets \cup {Socket(g, FALSE)}]
    <3>1. PICK symbols : w \in Client(symbols)
      BY DEF IsClient
    <3>2. g \in Nat /\ OpenSocket(w).w = x
      BY <2>2, <3>1 DEF OpenSocket, Quiet, Client
    <3> HIDE DEF g
    <3> DEFINE sockets == w.sockets \cup {Socket(g, FALSE)}
    <3>4. sockets \in SUBSET [gen : Nat, open : BOOLEAN] /\ sockets = {Socket(g, FALSE)}
      BY <3>2, SocketType
    <3> HIDE DEF sockets
    <3>3. /\ x \in Client(symbols) /\ x.sockets = sockets
          /\ x.openGen = g /\ x.ws = g /\ ~x.closed /\ ~x.reconnectTimer
      BY <2>2, <3>1, <3>2, <3>4 DEF Client, sockets
    <3> HIDE DEF x
    <3> QED
      BY <3>2, <3>3, <3>4 DEF Tidy, IsClient, Socket
  <2> QED
    BY <2>1, <2>2
<1>3. Tidy(OpenThrows(w).w)
  <2>1. CASE w.closed
    BY <1>1, <2>1 DEF OpenThrows, Quiet
  <2>2. CASE ~w.closed
    <3> DEFINE x == [w EXCEPT !.openGen = @ + 1]
    <3>1. IsClient(x) /\ x.sockets = {}
      BY DEF IsClient, Client
    <3> QED
      BY <2>2, <3>1, TryFallbackTidy DEF OpenThrows
  <2> QED
    BY <2>1, <2>2
<1> QED
  BY <1>2, <1>3

(* connect(), to whatever symbol.                                          *)
LEMMA ConnectTidy ==
    ASSUME NEW w, Tidy(w), NEW c
    PROVE  /\ Tidy(OpenSocket(Connecting(w, c)).w)
           /\ Tidy(OpenThrows(Connecting(w, c)).w)
<1>1. /\ IsClient(Connecting(w, c)) /\ Connecting(w, c).sockets = {}
      /\ ~Connecting(w, c).reconnectTimer
  <2>1. IsClient(Disconnect(w))
    BY DisconnectTidy DEF Tidy
  <2> QED
    BY <2>1, DisconnectTidy DEF Connecting, IsClient, Client
<1> QED
  BY <1>1, OpenTidy

(* What a socket says.                                                     *)
LEMMA SocketTidy ==
    ASSUME NEW w, Tidy(w), NEW s \in w.sockets
    PROVE  Tidy(OnOpen(w, s.gen).w) /\ Tidy(OnMessage(w, s.gen).w)
<1>0. s.gen \in Nat /\ s.gen = w.openGen /\ ~w.closed /\ w.ws = s.gen
      /\ ~w.reconnectTimer /\ IsClient(w)
  BY DEF Tidy, IsClient, Client
<1>1. OnOpen(w, s.gen).w.sockets = {Socket(s.gen, TRUE)}
  <2>1. Drop(w.sockets, s.gen) = {}
    BY <1>0 DEF Tidy, Drop
  <2> QED
    BY <1>0, <2>1 DEF OnOpen, IsClient, Client, Socket
<1>2. /\ IsClient(OnOpen(w, s.gen).w) /\ ~OnOpen(w, s.gen).w.closed
      /\ OnOpen(w, s.gen).w.openGen = w.openGen /\ OnOpen(w, s.gen).w.ws = w.ws
      /\ ~OnOpen(w, s.gen).w.reconnectTimer
  <2>1. PICK symbols : w \in Client(symbols)
    BY <1>0 DEF IsClient
  <2>2. Drop(w.sockets, s.gen) \cup {Socket(s.gen, TRUE)} \in SUBSET [gen : Nat, open : BOOLEAN]
    BY <1>0, <2>1, SocketType DEF Drop, Client
  <2> DEFINE sockets == Drop(w.sockets, s.gen) \cup {Socket(s.gen, TRUE)}
  <2> DEFINE opened == [w EXCEPT !.sockets = sockets]
  <2> DEFINE t == IF w.fallbackUsed THEN opened.dataTimeout ELSE s.gen
  <2> DEFINE d == IF w.fallbackUsed THEN opened.dataTimeouts
                  ELSE opened.dataTimeouts \cup {s.gen}
  <2> DEFINE x == [opened EXCEPT
                       !.connectTimeout = 0, !.everConnected = TRUE, !.attempts = 0,
                       !.gotData = FALSE, !.dataTimeout = t, !.dataTimeouts = d]
  <2>3. t \in Nat /\ d \in SUBSET Nat
    BY <1>0, <2>1, <2>2 DEF Client
  <2>4. OnOpen(w, s.gen).w = x
    BY <1>0 DEF OnOpen
  <2> HIDE DEF t, d, sockets
  <2>5. /\ x \in Client(symbols) /\ ~x.closed /\ x.openGen = w.openGen
        /\ x.ws = w.ws /\ ~x.reconnectTimer
    BY <1>0, <2>1, <2>2, <2>3 DEF Client, sockets
  <2> HIDE DEF x
  <2> QED
    BY <2>4, <2>5 DEF IsClient
<1>3. Tidy(OnMessage(w, s.gen).w)
  BY <1>0 DEF OnMessage, Tidy, IsClient, Client
<1> QED
  BY <1>0, <1>1, <1>2, <1>3 DEF Tidy, Socket

(* A socket is closed by the exchange or fails.                            *)
LEMMA CloseTidy ==
    ASSUME NEW w, Tidy(w), NEW s \in w.sockets
    PROVE  Tidy(OnClose(w, s.gen).w)
<1>0. s.gen \in Nat /\ s.gen = w.openGen /\ ~w.closed /\ w.ws = s.gen
      /\ ~w.reconnectTimer /\ IsClient(w)
  BY DEF Tidy, IsClient, Client
<1>1. Drop(w.sockets, s.gen) = {}
  BY <1>0 DEF Tidy, Drop
<1> DEFINE x == [[w EXCEPT !.sockets = Drop(@, s.gen)] EXCEPT !.connectTimeout = 0]
<1>2. IsClient(x) /\ x.sockets = {}
  BY <1>0, <1>1 DEF IsClient, Client
<1>3. x.closed = w.closed
  BY <1>0 DEF IsClient, Client
<1>4. ASSUME NEW made PROVE Tidy(ScheduleReconnect(x, made).w)
  <2> HIDE DEF x
  <2>1. PICK symbols : x \in Client(symbols)
    BY <1>2 DEF IsClient, Client
  <2>2. ASSUME NEW n \in Nat, NEW y, \/ y = [x EXCEPT !.attempts = n]
                                    \/ y = [x EXCEPT !.attempts = n, !.reconnectTimer = TRUE]
        PROVE  y \in Client(symbols) /\ y.sockets = {}
    BY <1>2, <2>1, <2>2 DEF Client
  <2>3. x.attempts + 1 \in Nat
    BY <2>1 DEF Client
  <2>4. \/ ScheduleReconnect(x, made).w = [x EXCEPT !.attempts = x.attempts + 1]
        \/ ScheduleReconnect(x, made).w = [x EXCEPT !.attempts = x.attempts + 1,
                                                    !.reconnectTimer = TRUE]
    BY DEF ScheduleReconnect
  <2> QED
    BY <2>2, <2>3, <2>4 DEF Tidy, IsClient, Client
<1>5. \/ OnClose(w, s.gen) = TryFallback(x)
      \/ \E made : OnClose(w, s.gen) = ScheduleReconnect(x, made)
  BY <1>0, <1>3 DEF OnClose
<1> HIDE DEF x
<1> QED
  BY <1>2, <1>4, <1>5, TryFallbackTidy

(* A timer gives up on the present connection, or finds it replaced.       *)
LEMMA TimeoutTidy ==
    ASSUME NEW w, Tidy(w), NEW g
    PROVE  Tidy(ConnectTimeoutFires(w, g).w) /\ Tidy(DataTimeoutFires(w, g).w)
<1>0. IsClient(w) /\ Drop(w.sockets, w.ws) = {}
  BY DEF Tidy, Drop
<1>1. Tidy(ConnectTimeoutFires(w, g).w)
  <2> DEFINE f == [w EXCEPT !.connectTimeout = 0]
  <2> DEFINE x == [f EXCEPT !.sockets = Drop(@, w.ws), !.ws = 0]
  <2>1. Tidy(f)
    BY <1>0 DEF Tidy, IsClient, Client
  <2>2. IsClient(x) /\ x.sockets = {}
    BY <1>0 DEF IsClient, Client
  <2>3. \/ ConnectTimeoutFires(w, g) = TryFallback(x)
        \/ ConnectTimeoutFires(w, g) = Quiet(f)
    BY DEF ConnectTimeoutFires
  <2> HIDE DEF f, x
  <2> QED
    BY <2>1, <2>2, <2>3, TryFallbackTidy DEF Quiet
<1>2. Tidy(DataTimeoutFires(w, g).w)
  <2> DEFINE f == [w EXCEPT !.dataTimeouts = @ \ {g}]
  <2> DEFINE x == [f EXCEPT !.sockets = Drop(@, w.ws), !.ws = 0]
  <2>1. Tidy(f)
    BY <1>0 DEF Tidy, IsClient, Client
  <2>2. IsClient(x) /\ x.sockets = {}
    BY <1>0 DEF IsClient, Client
  <2>3. \/ DataTimeoutFires(w, g) = TryFallback(x)
        \/ DataTimeoutFires(w, g) = Quiet(f)
    BY DEF DataTimeoutFires
  <2> HIDE DEF f, x
  <2> QED
    BY <2>1, <2>2, <2>3, TryFallbackTidy DEF Quiet
<1> QED
  BY <1>1, <1>2

(* The reconnect timer opens a socket without closing one.                 *)
LEMMA ReconnectTidy ==
    ASSUME NEW w, Tidy(w), w.reconnectTimer
    PROVE  /\ Tidy(OpenSocket(ReconnectFires(w)).w)
           /\ Tidy(OpenThrows(ReconnectFires(w)).w)
<1>1. /\ IsClient(ReconnectFires(w)) /\ ReconnectFires(w).sockets = {}
      /\ ~ReconnectFires(w).reconnectTimer
  BY DEF Tidy, IsClient, Client, ReconnectFires
<1> QED
  BY <1>1, OpenTidy

(* Whatever the client does on its own or is told to.                      *)
LEMMA MovesTidy ==
    ASSUME Tidy(stream), NEW r \in SocketMoves \cup TimerMoves \cup FailedMoves
    PROVE  Tidy(r.w)
<1>1. CASE r \in SocketMoves
  BY <1>1, SocketTidy DEF SocketMoves
<1>2. CASE r \in TimerMoves
  BY <1>2, TimeoutTidy, ReconnectTidy DEF TimerMoves
<1>3. CASE r \in FailedMoves
  BY <1>3, CloseTidy, ReconnectTidy DEF FailedMoves
<1> QED
  BY <1>1, <1>2, <1>3

(* The invariant is inductive.                                             *)
LEMMA StreamTidy ==
    ASSUME Tidy(stream),
           \/ \E c : Connects(c) \/ ConnectFails(c)
           \/ Disconnects
           \/ \E r \in SocketMoves \cup TimerMoves : Moves(r)
           \/ \E r \in FailedMoves : Fails(r)
           \/ UNCHANGED stream
    PROVE  Tidy(stream)'
<1>1. CASE \E c : Connects(c) \/ ConnectFails(c)
  BY <1>1, ConnectTidy DEF Connects, ConnectFails, Moves, Fails
<1>2. CASE Disconnects
  BY <1>2, DisconnectTidy DEF Disconnects, Moves, Quiet
<1>3. CASE \E r \in SocketMoves \cup TimerMoves : Moves(r)
  BY <1>3, MovesTidy DEF Moves
<1>4. CASE \E r \in FailedMoves : Fails(r)
  BY <1>4, MovesTidy DEF Fails
<1>5. CASE UNCHANGED stream
  BY <1>5
<1> QED
  BY <1>1, <1>2, <1>3, <1>4, <1>5

(* Nothing is open to begin with.                                          *)
LEMMA InitTidy == StreamInit => Tidy(stream)
<1>1. StreamInit => stream \in Client({None})
  BY DEF StreamInit, Idle, Client
<1> QED
  BY <1>1 DEF StreamInit, Idle, Tidy, IsClient

(* The stream's client by itself, connected and disconnected at will.      *)
THEOREM StreamHasOneSocket == StreamSpec => []OneSocket
<1>1. Tidy(stream) /\ [StreamNext]_streamVars => Tidy(stream)'
  BY StreamTidy DEF StreamNext, streamVars
<1>2. Tidy(stream) => OneSocket
  BY DEF Tidy, OneSocket
<1> QED
  BY InitTidy, <1>1, <1>2, PTL DEF StreamSpec

(* The chart moves the client only by what the client offers.              *)
LEMMA ChartDrivesStream ==
    [Next]_vars =>
        \/ \E c : Connects(c) \/ ConnectFails(c)
        \/ Disconnects
        \/ \E r \in SocketMoves \cup TimerMoves : Moves(r)
        \/ \E r \in FailedMoves : Fails(r)
        \/ UNCHANGED stream
<1>1. ASSUME NEW k, Reload(k) PROVE Disconnects \/ UNCHANGED stream
  BY <1>1 DEF Reload, streamVars
<1>2. ASSUME \/ \E c \in Contexts : SwitchContext(c)
             \/ HandleRetry \/ EnableRealtime \/ DisableRealtime \/ Unmount
             \/ RestTick \/ StaleFires \/ ResyncFires \/ NewCandle
      PROVE  Disconnects \/ UNCHANGED stream
  BY <1>1, <1>2 DEF SwitchContext, HandleRetry, EnableRealtime, DisableRealtime, Unmount,
     RestTick, StaleFires, ResyncFires, NewCandle, streamVars
<1>3. ASSUME Answers
      PROVE  \/ \E c : Connects(c) \/ ConnectFails(c)
             \/ Disconnects \/ UNCHANGED stream
  BY <1>3 DEF Answers, Settle, Loaded, Fetched, ExchangeKnown, streamVars
<1>4. Failures => UNCHANGED stream
  BY DEF Failures, LoadFails, FetchFails
<1> QED
  BY <1>2, <1>3, <1>4 DEF Next, SocketSpeaks, StreamTimerFires, StreamFails, vars, streamVars

(* The chart leaves no socket open behind it either: switching contexts,   *)
(* reloads, resyncs and an exchange id that comes late included.           *)
THEOREM ChartHasOneSocket == Spec => []OneSocket
<1>1. Init => Tidy(stream)
  BY InitTidy DEF Init
<1>2. Tidy(stream) /\ [Next]_vars => Tidy(stream)'
  BY StreamTidy, ChartDrivesStream
<1>3. Tidy(stream) => OneSocket
  BY DEF Tidy, OneSocket
<1> QED
  BY <1>1, <1>2, <1>3, PTL DEF Spec

-----------------------------------------------------------------------------
(* The chart: what its functions leave alone, and what they do to the      *)
(* polling, the watchdog and the candles.                                  *)
Charts(U) ==
    [ctx : U, enabled : BOOLEAN, mounted : BOOLEAN, loading : BOOLEAN,
     loadGeneration : Nat, activeLoad : U, data : [from : SUBSET U, last : Nat],
     rest : BOOLEAN, fetching : BOOLEAN, stale : BOOLEAN, resync : BOOLEAN,
     wsActive : BOOLEAN, realtimeGeneration : Nat]

IsChart(k) == \E U : k \in Charts(U)

(* The props and the loads, which only the user and the loads touch.       *)
SameLoad(j, k) ==
    /\ j.ctx = k.ctx /\ j.enabled = k.enabled /\ j.mounted = k.mounted
    /\ j.loading = k.loading /\ j.loadGeneration = k.loadGeneration
    /\ j.activeLoad = k.activeLoad

SameBars(j, k) == j.data = k.data
SameUpdates(j, k) ==
    /\ j.rest = k.rest /\ j.stale = k.stale /\ j.wsActive = k.wsActive
    /\ j.realtimeGeneration = k.realtimeGeneration

Polls(j, k) == j.rest <=> k.enabled /\ HasBars(k)
Watches(j, k) == j.stale <=> k.enabled /\ k.ctx \in Streamed

(* Polling is started only when there are candles to keep up to date.      *)
LEMMA StartRestPollingDoes ==
    ASSUME NEW k, IsChart(k)
    PROVE  LET j == StartRestPolling(k) IN
           /\ IsChart(j) /\ SameLoad(j, k) /\ SameBars(j, k) /\ Polls(j, k)
           /\ j.stale = k.stale /\ j.wsActive = k.wsActive
           /\ j.realtimeGeneration = k.realtimeGeneration
<1> PICK U : k \in Charts(U)
  BY DEF IsChart
<1> DEFINE b == k.enabled /\ HasBars(k)
<1> DEFINE x == [k EXCEPT !.rest = b]
<1>1. b \in BOOLEAN /\ (b <=> k.enabled /\ HasBars(k)) /\ StartRestPolling(k) = x
  BY DEF Charts, StartRestPolling
<1> HIDE DEF b
<1>2. /\ x \in Charts(U) /\ SameLoad(x, k) /\ SameBars(x, k) /\ x.rest = b
      /\ x.stale = k.stale /\ x.wsActive = k.wsActive
      /\ x.realtimeGeneration = k.realtimeGeneration
  BY <1>1 DEF Charts, SameLoad, SameBars
<1> HIDE DEF x
<1> QED
  BY <1>1, <1>2 DEF IsChart, Polls

(* Realtime updates are stopped: no polling, no watchdog, no stream.       *)
LEMMA StopRealtimeDoes ==
    ASSUME NEW k, IsChart(k)
    PROVE  LET j == StopRealtime(k) IN
           /\ IsChart(j) /\ SameLoad(j, k) /\ SameBars(j, k)
           /\ ~j.rest /\ ~j.stale /\ ~j.wsActive
           /\ j.realtimeGeneration = k.realtimeGeneration
<1> PICK U : k \in Charts(U)
  BY DEF IsChart
<1> DEFINE x == StopRealtime(k)
<1>1. /\ x \in Charts(U) /\ SameLoad(x, k) /\ SameBars(x, k)
      /\ ~x.rest /\ ~x.stale /\ ~x.wsActive
      /\ x.realtimeGeneration = k.realtimeGeneration
  BY DEF StopRealtime, Charts, SameLoad, SameBars
<1> QED
  BY <1>1 DEF IsChart

(* They are started again: polling first, under a new generation.          *)
LEMMA StartRealtimeDoes ==
    ASSUME NEW k, IsChart(k)
    PROVE  LET j == StartRealtime(k) IN
           /\ IsChart(j) /\ SameLoad(j, k) /\ SameBars(j, k) /\ Polls(j, k)
           /\ ~j.wsActive /\ j.realtimeGeneration = k.realtimeGeneration + 1
           /\ j.realtimeGeneration \in Nat /\ k.realtimeGeneration \in Nat
<1> DEFINE s == StopRealtime(k)
           x == [s EXCEPT !.realtimeGeneration = @ + 1]
<1>1. /\ IsChart(s) /\ SameLoad(s, k) /\ SameBars(s, k) /\ ~s.wsActive
      /\ s.realtimeGeneration = k.realtimeGeneration
  BY StopRealtimeDoes
<1> HIDE DEF s
<1> PICK U : s \in Charts(U)
  BY <1>1 DEF IsChart
<1>2. /\ x \in Charts(U) /\ SameLoad(x, s) /\ SameBars(x, s) /\ ~x.wsActive
      /\ x.realtimeGeneration = s.realtimeGeneration + 1
      /\ s.realtimeGeneration \in Nat
  BY <1>1 DEF Charts, SameLoad, SameBars
<1>3. StartRealtime(k) = StartRestPolling(x)
  BY DEF StartRealtime, s
<1> HIDE DEF x
<1>4. IsChart(x)
  BY <1>2 DEF IsChart
<1>5. /\ IsChart(StartRestPolling(x)) /\ SameLoad(StartRestPolling(x), x)
      /\ SameBars(StartRestPolling(x), x) /\ Polls(StartRestPolling(x), x)
      /\ StartRestPolling(x).wsActive = x.wsActive
      /\ StartRestPolling(x).realtimeGeneration = x.realtimeGeneration
  BY <1>4, StartRestPollingDoes
<1>6. SameLoad(x, k) /\ SameBars(x, k)
  BY <1>1, <1>2 DEF SameLoad, SameBars
<1>7. (x.enabled <=> k.enabled) /\ (HasBars(x) <=> HasBars(k))
  BY <1>6 DEF SameLoad, SameBars, HasBars
<1>8. Polls(StartRestPolling(x), k)
  BY <1>5, <1>7 DEF Polls
<1>9. SameLoad(StartRestPolling(x), k) /\ SameBars(StartRestPolling(x), k)
  BY <1>5, <1>6 DEF SameLoad, SameBars
<1> QED
  BY <1>1, <1>2, <1>3, <1>5, <1>8, <1>9

(* A reconnected client ends the polling.                                  *)
LEMMA StopRestPollingDoes ==
    ASSUME NEW k, IsChart(k)
    PROVE  LET j == StopRestPolling(k) IN
           /\ IsChart(j) /\ SameLoad(j, k) /\ SameBars(j, k) /\ ~j.rest
           /\ j.stale = k.stale /\ j.wsActive = k.wsActive
           /\ j.realtimeGeneration = k.realtimeGeneration
<1> PICK U : k \in Charts(U)
  BY DEF IsChart
<1> DEFINE x == StopRestPolling(k)
<1>1. /\ x \in Charts(U) /\ SameLoad(x, k) /\ SameBars(x, k) /\ ~x.rest
      /\ x.stale = k.stale /\ x.wsActive = k.wsActive
      /\ x.realtimeGeneration = k.realtimeGeneration
  BY DEF StopRestPolling, Charts, SameLoad, SameBars
<1> QED
  BY <1>1 DEF IsChart

(* The watchdog is set for a streamed context.                             *)
LEMMA ArmWsStaleWatchdogDoes ==
    ASSUME NEW k, IsChart(k)
    PROVE  LET j == ArmWsStaleWatchdog(k) IN
           /\ IsChart(j) /\ SameLoad(j, k) /\ SameBars(j, k)
           /\ Watches(j, k)
           /\ j.rest = k.rest /\ j.wsActive = k.wsActive
           /\ j.realtimeGeneration = k.realtimeGeneration
<1> PICK U : k \in Charts(U)
  BY DEF IsChart
<1> DEFINE b == k.enabled /\ k.ctx \in Streamed
<1> DEFINE x == [k EXCEPT !.stale = b]
<1>1. /\ b \in BOOLEAN /\ (b <=> k.enabled /\ k.ctx \in Streamed)
      /\ ArmWsStaleWatchdog(k) = x
  BY DEF Charts, ArmWsStaleWatchdog
<1> HIDE DEF b
<1>2. /\ x \in Charts(U) /\ SameLoad(x, k) /\ SameBars(x, k) /\ x.stale = b
      /\ x.rest = k.rest /\ x.wsActive = k.wsActive
      /\ x.realtimeGeneration = k.realtimeGeneration
  BY <1>1 DEF Charts, SameLoad, SameBars
<1> HIDE DEF x
<1>3. Watches(x, k)
  BY <1>1, <1>2 DEF Watches
<1> QED
  BY <1>1, <1>2, <1>3 DEF IsChart

(* A resync is only scheduled.                                             *)
LEMMA ScheduleResyncDoes ==
    ASSUME NEW k, IsChart(k)
    PROVE  LET j == ScheduleResync(k) IN
           IsChart(j) /\ SameLoad(j, k) /\ SameBars(j, k) /\ SameUpdates(j, k)
<1> PICK U : k \in Charts(U)
  BY DEF IsChart
<1> DEFINE b == k.resync \/ ~k.loading
<1> DEFINE x == [k EXCEPT !.resync = b]
<1>1. b \in BOOLEAN /\ ScheduleResync(k) = x
  BY DEF Charts, ScheduleResync
<1> HIDE DEF b
<1>2. x \in Charts(U) /\ SameLoad(x, k) /\ SameBars(x, k) /\ SameUpdates(x, k)
  BY <1>1 DEF Charts, SameLoad, SameBars, SameUpdates
<1> HIDE DEF x
<1> QED
  BY <1>1, <1>2 DEF IsChart

(* Candles are added to those there are.                                   *)
LEMMA AppendedDoes ==
    ASSUME NEW k, IsChart(k), NEW c, NEW time \in Nat
    PROVE  LET j == Appended(k, c, time) IN
           /\ IsChart(j) /\ SameLoad(j, k) /\ SameUpdates(j, k)
           /\ j.data.from = k.data.from \cup {c} /\ j.data.last = time
<1> PICK U : k \in Charts(U)
  BY DEF IsChart
<1> DEFINE d == [from |-> k.data.from \cup {c}, last |-> time]
<1> DEFINE V == U \cup {c}
<1> DEFINE x == [k EXCEPT !.data = d]
<1>1. /\ d \in [from : SUBSET V, last : Nat] /\ U \subseteq V
      /\ Appended(k, c, time) = x
      /\ d.from = k.data.from \cup {c} /\ d.last = time
  BY DEF Charts, Appended
<1> HIDE DEF d, V
<1>2. /\ x \in Charts(V) /\ SameLoad(x, k) /\ SameUpdates(x, k) /\ x.data = d
  BY <1>1 DEF Charts, SameLoad, SameUpdates
<1> HIDE DEF x
<1> QED
  BY <1>1, <1>2 DEF IsChart

(* What the stream may do to the chart: nothing to its loads, and a candle *)
(* newer than those it has, and on the market, is added to them at most.   *)
Follows(j, k) ==
    /\ IsChart(j) /\ SameLoad(j, k)
    /\ j.realtimeGeneration = k.realtimeGeneration
    /\ HasBars(j) <=> HasBars(k)
    /\ k.data.from \subseteq j.data.from
    /\ \/ j.data.last = k.data.last
       \/ HasBars(k) /\ j.data.last > k.data.last /\ j.data.last <= now

(* A function that leaves the candles alone follows.                       *)
LEMMA SameBarsFollows ==
    ASSUME NEW j, NEW k, IsChart(j), SameLoad(j, k), SameBars(j, k),
           j.realtimeGeneration = k.realtimeGeneration
    PROVE  Follows(j, k)
BY DEF Follows, SameBars, HasBars

(* A candle of the stream, however old: the watchdog is set again, and it  *)
(* is added only if it is newer than the last.                             *)
LEMMA HandleWsTickDoes ==
    ASSUME NEW k, IsChart(k), now \in Nat \ {0}, NEW time \in 1 .. now
    PROVE  LET j == HandleWsTick(k, time) IN
           /\ Follows(j, k) /\ j.wsActive = k.wsActive
           /\ IF k.wsActive THEN Watches(j, k) ELSE j = k
<1> DEFINE j == HandleWsTick(k, time)
<1>0. k.data.last \in Nat /\ time \in Nat /\ time <= now
  BY DEF IsChart, Charts
<1>1. CASE ~k.wsActive
  <2>1. j = k
    BY <1>1 DEF HandleWsTick
  <2>2. Follows(k, k)
    BY SameBarsFollows DEF SameLoad, SameBars
  <2> HIDE DEF j
  <2> QED
    BY <1>1, <2>1, <2>2 DEF j
<1>2. CASE k.wsActive
  <2> DEFINE a == ArmWsStaleWatchdog(k)
             s == StopRestPolling(a)
  <2>1. /\ IsChart(a) /\ SameLoad(a, k) /\ SameBars(a, k) /\ Watches(a, k)
        /\ a.wsActive = k.wsActive /\ a.realtimeGeneration = k.realtimeGeneration
    BY ArmWsStaleWatchdogDoes
  <2>2. /\ IsChart(s) /\ SameLoad(s, a) /\ SameBars(s, a)
        /\ s.stale = a.stale /\ s.wsActive = a.wsActive
        /\ s.realtimeGeneration = a.realtimeGeneration
    BY <2>1, StopRestPollingDoes
  <2>3. ASSUME NEW x, IsChart(x), SameLoad(x, a), SameBars(x, a), x.stale = a.stale,
               x.wsActive = a.wsActive, x.realtimeGeneration = a.realtimeGeneration
        PROVE  Follows(x, k) /\ x.wsActive = k.wsActive /\ Watches(x, k)
    <3>1. SameLoad(x, k) /\ SameBars(x, k)
      BY <2>1, <2>3 DEF SameLoad, SameBars
    <3>2. Watches(x, k)
      BY <2>1, <2>3 DEF Watches
    <3> QED
      BY <2>1, <2>3, <3>1, <3>2, SameBarsFollows
  <2>4. CASE j = a \/ j = s
    <3>1. SameLoad(a, a) /\ SameBars(a, a)
      BY DEF SameLoad, SameBars
    <3> HIDE DEF j, a, s
    <3> QED
      BY <1>2, <2>1, <2>2, <2>3, <2>4, <3>1 DEF j
  <2>5. CASE j = ScheduleResync(StartRestPolling(a))
    <3> DEFINE p == StartRestPolling(a)
    <3>1. /\ IsChart(p) /\ SameLoad(p, a) /\ SameBars(p, a) /\ p.stale = a.stale
          /\ p.wsActive = a.wsActive /\ p.realtimeGeneration = a.realtimeGeneration
      BY <2>1, StartRestPollingDoes
    <3> HIDE DEF p, a
    <3>2. IsChart(j) /\ SameLoad(j, p) /\ SameBars(j, p) /\ SameUpdates(j, p)
      BY <2>5, <3>1, ScheduleResyncDoes DEF p
    <3> HIDE DEF j
    <3>3. /\ IsChart(j) /\ SameLoad(j, a) /\ SameBars(j, a) /\ j.stale = a.stale
          /\ j.wsActive = a.wsActive /\ j.realtimeGeneration = a.realtimeGeneration
      BY <3>1, <3>2 DEF SameLoad, SameBars, SameUpdates
    <3> QED
      BY <1>2, <2>3, <3>3 DEF j
  <2>6. CASE j = Appended(s, stream.symbol, time) /\ HasBars(k) /\ time > k.data.last
    <3> HIDE DEF s, a
    <3>1. /\ IsChart(j) /\ SameLoad(j, s) /\ SameUpdates(j, s)
          /\ j.data.from = s.data.from \cup {stream.symbol} /\ j.data.last = time
      BY <1>0, <2>2, <2>6, AppendedDoes
    <3> HIDE DEF j
    <3>2. SameLoad(j, k) /\ j.wsActive = k.wsActive
          /\ j.realtimeGeneration = k.realtimeGeneration
      BY <2>1, <2>2, <3>1 DEF SameLoad, SameUpdates
    <3>3. Watches(j, k)
      BY <2>1, <2>2, <3>1 DEF Watches, SameUpdates
    <3>4. HasBars(j) /\ k.data.from \subseteq j.data.from
      BY <2>1, <2>2, <3>1 DEF HasBars, SameBars
    <3>5. Follows(j, k)
      BY <1>0, <2>6, <3>1, <3>2, <3>4 DEF Follows
    <3> QED
      BY <1>2, <3>2, <3>3, <3>5 DEF j
  <2>7. CASE HasBars(k) /\ time > k.data.last
    <3>1. ~(time < k.data.last) /\ time # k.data.last
      BY <1>0, <2>7
    <3>2. \/ j = ScheduleResync(StartRestPolling(a))
          \/ j = Appended(s, stream.symbol, time)
      BY <1>2, <2>1, <2>7, <3>1 DEF HandleWsTick, HasBars, SameBars
    <3> HIDE DEF j, a, s
    <3> QED
      BY <2>5, <2>6, <2>7, <3>2
  <2>8. CASE ~(HasBars(k) /\ time > k.data.last)
    <3>1. ~HasBars(k) \/ time < k.data.last \/ time = k.data.last
      BY <1>0, <2>8
    <3>2. j = a \/ j = s
      BY <1>2, <3>1 DEF HandleWsTick
    <3> HIDE DEF j, a, s
    <3> QED
      BY <2>4, <3>2
  <2> QED
    BY <2>7, <2>8
<1> QED
  BY <1>1, <1>2

(* What the callbacks of a step of the client do to the chart.             *)
LEMMA ReactDoes ==
    ASSUME NEW k, IsChart(k), now \in Nat \ {0}, NEW time \in 1 .. now,
           NEW made, made \in {{}, {"error"}, {"reconnected"}, {"reconnecting"},
                               {"reconnecting", "error"}, {"tick"}}
    PROVE  LET j == React(k, made, time) IN
           /\ Follows(j, k)
           /\ made = {} => j = k
           /\ "error" \in made => ~j.wsActive /\ Polls(j, k)
           /\ "error" \notin made => j.wsActive = k.wsActive
           /\ "reconnecting" \in made => Polls(j, k)
           /\ made = {"reconnected"} => j.stale = k.stale
           /\ made = {"tick"} => IF k.wsActive THEN Watches(j, k) ELSE j = k
<1> DEFINE j == React(k, made, time)
<1>0. Follows(k, k)
  BY SameBarsFollows DEF SameLoad, SameBars
<1>1. CASE made = {}
  <2>1. j = k
    BY <1>1 DEF React
  <2> QED
    BY <1>0, <1>1, <2>1
<1>2. CASE made = {"tick"}
  <2>1. j = HandleWsTick(k, time)
    BY <1>2 DEF React
  <2> QED
    BY <1>2, <2>1, HandleWsTickDoes
<1>3. CASE made = {"reconnected"}
  <2>1. j = StopRestPolling(k)
    BY <1>3 DEF React, HandleWsReconnected
  <2> HIDE DEF j
  <2>2. /\ IsChart(j) /\ SameLoad(j, k) /\ SameBars(j, k)
        /\ j.stale = k.stale /\ j.wsActive = k.wsActive
        /\ j.realtimeGeneration = k.realtimeGeneration
    BY <2>1, StopRestPollingDoes
  <2>3. Follows(j, k)
    BY <2>2, SameBarsFollows
  <2> QED
    BY <1>3, <2>2, <2>3 DEF j
<1>4. CASE made = {"reconnecting"}
  <2>1. j = StartRestPolling(k)
    BY <1>4 DEF React, HandleWsReconnecting
  <2> HIDE DEF j
  <2>2. /\ IsChart(j) /\ SameLoad(j, k) /\ SameBars(j, k) /\ Polls(j, k)
        /\ j.wsActive = k.wsActive
        /\ j.realtimeGeneration = k.realtimeGeneration
    BY <2>1, StartRestPollingDoes
  <2>3. Follows(j, k)
    BY <2>2, SameBarsFollows
  <2> QED
    BY <1>4, <2>2, <2>3 DEF j
<1>5. CASE "error" \in made
  <2>1. PICK i : /\ IsChart(i) /\ SameLoad(i, k) /\ SameBars(i, k)
                 /\ i.realtimeGeneration = k.realtimeGeneration
                 /\ j = HandleWsError(i)
    <3>1. CASE made = {"error"}
      <4>1. j = HandleWsError(k)
        BY <3>1 DEF React
      <4> QED
        BY <4>1 DEF SameLoad, SameBars
    <3>2. CASE made = {"reconnecting", "error"}
      <4>1. j = HandleWsError(StartRestPolling(k))
        BY <3>2 DEF React, HandleWsReconnecting
      <4> QED
        BY <4>1, StartRestPollingDoes
    <3> QED
      BY <1>5, <3>1, <3>2
  <2> DEFINE x == [i EXCEPT !.wsActive = FALSE]
  <2>2. j = StartRestPolling(x)
    BY <2>1 DEF HandleWsError
  <2>3. PICK U : i \in Charts(U)
    BY <2>1 DEF IsChart
  <2>4. /\ x \in Charts(U) /\ SameLoad(x, i) /\ SameBars(x, i) /\ ~x.wsActive
        /\ x.realtimeGeneration = i.realtimeGeneration
    BY <2>3 DEF Charts, SameLoad, SameBars
  <2> HIDE DEF x, j
  <2>5. IsChart(x) /\ SameLoad(x, k) /\ SameBars(x, k)
    BY <2>1, <2>4 DEF IsChart, SameLoad, SameBars
  <2>6. /\ IsChart(j) /\ SameLoad(j, x) /\ SameBars(j, x) /\ Polls(j, x)
        /\ j.wsActive = x.wsActive
        /\ j.realtimeGeneration = x.realtimeGeneration
    BY <2>2, <2>5, StartRestPollingDoes
  <2>7. SameLoad(j, k) /\ SameBars(j, k) /\ j.realtimeGeneration = k.realtimeGeneration
    BY <2>1, <2>4, <2>5, <2>6 DEF SameLoad, SameBars
  <2>8. Follows(j, k)
    BY <2>6, <2>7, SameBarsFollows
  <2>9. (x.enabled <=> k.enabled) /\ (HasBars(x) <=> HasBars(k))
    BY <2>5 DEF SameLoad, SameBars, HasBars
  <2>10. Polls(j, k) /\ ~j.wsActive
    BY <2>4, <2>6, <2>9 DEF Polls
  <2> QED
    BY <1>5, <2>8, <2>10 DEF j
<1> QED
  BY <1>1, <1>2, <1>3, <1>4, <1>5

(* What a step of the client may tell the chart.                           *)
Calls == {{}, {"error"}, {"reconnected"}, {"reconnecting"},
          {"reconnecting", "error"}, {"tick"}}

(* It tells nothing else.                                                  *)
LEMMA CallsKnown ==
    ASSUME NEW r \in SocketMoves \cup TimerMoves \cup FailedMoves
    PROVE  r.calls \in Calls
<1>1. ASSUME NEW w, NEW made \in {{}, {"reconnecting"}}
      PROVE  /\ TryFallback(w).calls \in Calls /\ Quiet(w).calls \in Calls
             /\ ScheduleReconnect(w, made).calls \in Calls
             /\ OpenSocket(w).calls \in Calls /\ OpenThrows(w).calls \in Calls
  <2>1. made \cup {"error"} \in Calls /\ made \in Calls
    BY DEF Calls
  <2>2. ScheduleReconnect(w, made).calls \in Calls
    BY <2>1 DEF ScheduleReconnect
  <2> QED
    BY <2>2 DEF TryFallback, Quiet, OpenSocket, OpenThrows, Calls
<1>2. ASSUME NEW w, NEW g
      PROVE  /\ OnOpen(w, g).calls \in Calls /\ OnMessage(w, g).calls \in Calls
             /\ OnClose(w, g).calls \in Calls
             /\ ConnectTimeoutFires(w, g).calls \in Calls
             /\ DataTimeoutFires(w, g).calls \in Calls
  <2>1. OnOpen(w, g).calls \in Calls
    BY DEF OnOpen, Quiet, Calls
  <2>2. OnMessage(w, g).calls \in Calls
    BY DEF OnMessage, Quiet, Calls
  <2>3. OnClose(w, g).calls \in Calls
    BY <1>1 DEF OnClose
  <2>4. ConnectTimeoutFires(w, g).calls \in Calls /\ DataTimeoutFires(w, g).calls \in Calls
    BY <1>1 DEF ConnectTimeoutFires, DataTimeoutFires
  <2> QED
    BY <2>1, <2>2, <2>3, <2>4
<1> QED
  BY <1>1, <1>2 DEF SocketMoves, TimerMoves, FailedMoves

(* The loads: the one under way is of the chart's context, no other load   *)
(* has its generation, and the market is never behind the chart.           *)
Loads == {q \in requests : q.kind = "load"}
Present(q) == q.gen = chart.loadGeneration

LoadInv ==
    /\ IsChart(chart) /\ now \in Nat \ {0}
    /\ chart.loading => chart.activeLoad = chart.ctx
    /\ chart.data.last <= now
    /\ \A q \in requests : q.gen \in Nat /\ q.at \in Nat
    /\ \A q \in Loads : q.gen <= chart.loadGeneration
    /\ \A q \in Loads : Present(q) => chart.loading /\ q.ctx = chart.ctx
    /\ \A p, q \in Loads : Present(p) /\ Present(q) => p = q
    /\ ShowsItsContext

Advances == chart'.loading = chart.loading => chart'.data.last >= chart.data.last

(* A load of its own supersedes those under way.                           *)
LEMMA ReloadLoads ==
    ASSUME LoadInv, NEW k, IsChart(k), SameBars(k, chart), k.loading = chart.loading,
           k.loadGeneration = chart.loadGeneration, k.activeLoad = chart.activeLoad,
           ~AlreadyLoading(k) \/ k.ctx = chart.ctx,
           Reload(k), now' = now
    PROVE  LoadInv' /\ Advances
<1>1. chart.data.last \in Nat /\ chart.loadGeneration \in Nat
  BY DEF LoadInv, IsChart, Charts
<1>2. CASE AlreadyLoading(k)
  <2>1. chart' = k /\ requests' = requests /\ k.ctx = chart.ctx /\ k.loading
    BY <1>2 DEF Reload, AlreadyLoading
  <2>2. ShowsItsContext'
    BY <2>1 DEF ShowsItsContext
  <2>3. LoadInv'
    BY <2>1, <2>2 DEF LoadInv, Loads, Present, SameBars
  <2> QED
    BY <1>1, <2>1, <2>3 DEF Advances, SameBars
<1>3. CASE ~AlreadyLoading(k)
  <2> DEFINE s == StopRealtime(k)
             x == LoadKlineData(k)
  <2>1. IsChart(s) /\ SameLoad(s, k) /\ SameBars(s, k)
    BY StopRealtimeDoes
  <2>2. PICK U : s \in Charts(U)
    BY <2>1 DEF IsChart
  <2>3. k.ctx = s.ctx /\ k.ctx \in U /\ s.loadGeneration = chart.loadGeneration
    BY <2>1, <2>2 DEF SameLoad, Charts
  <2> DEFINE n == s.loadGeneration + 1
             a == k.ctx
  <2>4. /\ x = [s EXCEPT !.loadGeneration = n, !.activeLoad = a, !.loading = TRUE]
        /\ n \in Nat /\ n = chart.loadGeneration + 1 /\ a \in U /\ a = s.ctx
    BY <1>1, <2>3 DEF LoadKlineData
  <2> HIDE DEF s, x, n, a
  <2>5. /\ x \in Charts(U) /\ x.loading /\ x.activeLoad = x.ctx /\ x.data = s.data
        /\ x.loadGeneration = chart.loadGeneration + 1
    BY <2>2, <2>4 DEF Charts
  <2>6. /\ chart' = x /\ requests' = requests \cup {Load(x)}
    BY <1>3 DEF Reload, x
  <2>7. x.data = chart.data
    BY <2>1, <2>5 DEF SameBars
  <2>8. /\ Load(x).kind = "load" /\ Load(x).gen = x.loadGeneration
        /\ Load(x).ctx = x.ctx /\ Load(x).at = now
    BY DEF Load
  <2> DEFINE q0 == Load(x)
  <2> HIDE DEF q0
  <2>9. \A q \in Loads' : q = q0 \/ (q \in Loads /\ q.gen <= chart.loadGeneration /\ q.gen \in Nat)
    BY <2>6 DEF Loads, LoadInv, q0
  <2>10. q0.gen = x.loadGeneration /\ q0.gen \in Nat /\ q0.ctx = x.ctx /\ q0.at \in Nat
    BY <1>1, <2>5, <2>8 DEF q0, LoadInv
  <2>11. /\ \A q \in Loads' : q.gen <= chart'.loadGeneration
         /\ \A q \in Loads' : q.gen = chart'.loadGeneration => q = q0
    BY <1>1, <2>5, <2>6, <2>9, <2>10
  <2>12. /\ \A q \in Loads' : Present(q)' => chart'.loading /\ q.ctx = chart'.ctx
         /\ \A p, q \in Loads' : Present(p)' /\ Present(q)' => p = q
    BY <2>5, <2>6, <2>10, <2>11 DEF Present
  <2>13. \A q \in requests' : q.gen \in Nat /\ q.at \in Nat
    BY <2>6, <2>10 DEF LoadInv, q0
  <2>14. ShowsItsContext'
    BY <2>5, <2>6 DEF ShowsItsContext
  <2>15. IsChart(chart') /\ now' \in Nat \ {0} /\ chart'.data.last <= now'
    BY <2>5, <2>6, <2>7 DEF LoadInv, IsChart
  <2>16. LoadInv'
    BY <2>5, <2>6, <2>11, <2>12, <2>13, <2>14, <2>15 DEF LoadInv
  <2> QED
    BY <1>1, <2>6, <2>7, <2>16 DEF Advances
<1> QED
  BY <1>2, <1>3

(* Anything else leaves the loads alone, or settles one.                   *)
LEMMA KeepsLoads ==
    ASSUME LoadInv, IsChart(chart'), now' \in Nat, now' >= now,
           chart'.ctx = chart.ctx, chart'.loading = chart.loading,
           chart'.loadGeneration = chart.loadGeneration,
           chart'.activeLoad = chart.activeLoad,
           HasBars(chart') => HasBars(chart),
           chart.data.from \subseteq chart'.data.from,
           chart'.data.last \in chart.data.last .. now,
           \A q \in requests' : \/ q \in requests
                                \/ q.kind # "load" /\ q.gen \in Nat /\ q.at \in Nat
    PROVE  LoadInv' /\ Advances
<1>1. chart.data.last \in Nat /\ chart'.data.last \in Nat
  BY DEF LoadInv, IsChart, Charts
<1>2. Loads' \subseteq Loads
  BY DEF Loads
<1>3. /\ \A q \in Loads' : q.gen <= chart'.loadGeneration
      /\ \A q \in Loads' : Present(q)' => chart'.loading /\ q.ctx = chart'.ctx
      /\ \A p, q \in Loads' : Present(p)' /\ Present(q)' => p = q
  BY <1>2 DEF LoadInv, Present
<1>4. now' \in Nat \ {0} /\ chart'.data.last <= now' /\ Advances
  BY <1>1 DEF LoadInv, Advances
<1>5. ShowsItsContext'
  BY DEF LoadInv, ShowsItsContext
<1>6. \A q \in requests' : q.gen \in Nat /\ q.at \in Nat
  BY DEF LoadInv
<1> QED
  BY <1>3, <1>4, <1>5, <1>6 DEF LoadInv

(* The changes the actions make themselves, field by field.                *)
LEMMA ContextOfChart ==
    ASSUME NEW k, IsChart(k), NEW c
    PROVE  LET j == [k EXCEPT !.ctx = c] IN
           /\ IsChart(j) /\ SameBars(j, k) /\ SameUpdates(j, k) /\ j.ctx = c
           /\ j.loading = k.loading /\ j.loadGeneration = k.loadGeneration
           /\ j.activeLoad = k.activeLoad
<1> PICK U : k \in Charts(U)
  BY DEF IsChart
<1> DEFINE j == [k EXCEPT !.ctx = c]
           V == U \cup {c}
<1>1. U \subseteq V /\ c \in V
  OBVIOUS
<1> HIDE DEF V
<1>2. /\ j \in Charts(V) /\ j.ctx = c
      /\ j.loading = k.loading /\ j.loadGeneration = k.loadGeneration
      /\ j.activeLoad = k.activeLoad /\ SameBars(j, k) /\ SameUpdates(j, k)
  BY <1>1 DEF Charts, SameBars, SameUpdates
<1> HIDE DEF j
<1>3. IsChart(j)
  BY <1>2 DEF IsChart
<1> QED
  BY <1>2, <1>3 DEF j

(* The other fields.                                                       *)
LEMMA FieldsOfChart ==
    ASSUME NEW k, IsChart(k), NEW b \in BOOLEAN
    PROVE  /\ LET j == [k EXCEPT !.enabled = b] IN
              /\ IsChart(j) /\ SameBars(j, k) /\ j.ctx = k.ctx
              /\ j.loading = k.loading /\ j.loadGeneration = k.loadGeneration
              /\ j.activeLoad = k.activeLoad /\ j.enabled = b
              /\ j.mounted = k.mounted
              /\ j.realtimeGeneration = k.realtimeGeneration
           /\ LET j == [k EXCEPT !.mounted = b] IN
              /\ IsChart(j) /\ SameBars(j, k) /\ SameUpdates(j, k) /\ j.ctx = k.ctx
              /\ j.loading = k.loading /\ j.loadGeneration = k.loadGeneration
              /\ j.activeLoad = k.activeLoad /\ j.mounted = b
           /\ LET j == [k EXCEPT !.fetching = b] IN
              IsChart(j) /\ SameLoad(j, k) /\ SameBars(j, k) /\ SameUpdates(j, k)
           /\ LET j == [k EXCEPT !.resync = b] IN
              IsChart(j) /\ SameLoad(j, k) /\ SameBars(j, k) /\ SameUpdates(j, k)
           /\ LET j == [k EXCEPT !.stale = b] IN
              /\ IsChart(j) /\ SameLoad(j, k) /\ SameBars(j, k) /\ j.stale = b
              /\ j.rest = k.rest /\ j.wsActive = k.wsActive
              /\ j.realtimeGeneration = k.realtimeGeneration
           /\ LET j == [k EXCEPT !.wsActive = b] IN
              /\ IsChart(j) /\ SameLoad(j, k) /\ SameBars(j, k) /\ j.stale = k.stale
              /\ j.rest = k.rest /\ j.wsActive = b
              /\ j.realtimeGeneration = k.realtimeGeneration
<1> PICK U : k \in Charts(U)
  BY DEF IsChart
<1> DEFINE j2 == [k EXCEPT !.enabled = b]
           j3 == [k EXCEPT !.mounted = b]
           j4 == [k EXCEPT !.fetching = b]
           j5 == [k EXCEPT !.resync = b]
           j6 == [k EXCEPT !.stale = b]
           j7 == [k EXCEPT !.wsActive = b]
<1> USE DEF SameLoad, SameBars, SameUpdates
<1>2. /\ j2 \in Charts(U) /\ SameBars(j2, k) /\ j2.ctx = k.ctx
      /\ j2.loading = k.loading /\ j2.loadGeneration = k.loadGeneration
      /\ j2.activeLoad = k.activeLoad /\ j2.enabled = b
      /\ j2.mounted = k.mounted
      /\ j2.realtimeGeneration = k.realtimeGeneration
  BY DEF Charts
<1>3. /\ j3 \in Charts(U) /\ SameBars(j3, k) /\ SameUpdates(j3, k) /\ j3.ctx = k.ctx
      /\ j3.loading = k.loading /\ j3.loadGeneration = k.loadGeneration
      /\ j3.activeLoad = k.activeLoad /\ j3.mounted = b
  BY DEF Charts
<1>4. /\ j4 \in Charts(U) /\ SameLoad(j4, k) /\ SameBars(j4, k) /\ SameUpdates(j4, k)
      /\ j5 \in Charts(U) /\ SameLoad(j5, k) /\ SameBars(j5, k) /\ SameUpdates(j5, k)
  BY DEF Charts
<1>5. /\ j6 \in Charts(U) /\ SameLoad(j6, k) /\ SameBars(j6, k) /\ j6.stale = b
      /\ j6.rest = k.rest /\ j6.wsActive = k.wsActive
      /\ j6.realtimeGeneration = k.realtimeGeneration
  BY DEF Charts
<1>6. /\ j7 \in Charts(U) /\ SameLoad(j7, k) /\ SameBars(j7, k) /\ j7.stale = k.stale
      /\ j7.rest = k.rest /\ j7.wsActive = b
      /\ j7.realtimeGeneration = k.realtimeGeneration
  BY DEF Charts
<1> HIDE DEF SameLoad, SameBars, SameUpdates, j2, j3, j4, j5, j6, j7
<1>7. IsChart(j2) /\ IsChart(j3) /\ IsChart(j4) /\ IsChart(j5) /\ IsChart(j6) /\ IsChart(j7)
  BY <1>2, <1>3, <1>4, <1>5, <1>6 DEF IsChart
<1> QED
  BY <1>2, <1>3, <1>4, <1>5, <1>6, <1>7 DEF j2, j3, j4, j5, j6, j7

(* What a poll fetched is merged with the candles there are.               *)
LEMMA MergedDoes ==
    ASSUME LoadInv, NEW c, NEW time \in Nat, time <= now
    PROVE  LET j == Merged(chart, c, time) IN
           /\ IsChart(j) /\ SameLoad(j, chart) /\ SameUpdates(j, chart)
           /\ HasBars(j) <=> HasBars(chart)
           /\ chart.data.from \subseteq j.data.from
           /\ j.data.last \in chart.data.last .. now
<1> DEFINE j == Merged(chart, c, time)
<1>0. IsChart(chart) /\ chart.data.last \in Nat /\ chart.data.last <= now /\ now \in Nat
  BY DEF LoadInv, IsChart, Charts
<1>1. CASE j = chart
  <2> HIDE DEF j
  <2> QED
    BY <1>0, <1>1 DEF SameLoad, SameUpdates, j
<1>2. CASE j = ScheduleResync(chart)
  <2> HIDE DEF j
  <2>1. IsChart(j) /\ SameLoad(j, chart) /\ SameBars(j, chart) /\ SameUpdates(j, chart)
    BY <1>0, <1>2, ScheduleResyncDoes
  <2> QED
    BY <1>0, <2>1 DEF SameBars, HasBars, j
<1>3. CASE HasBars(chart) /\ \E t \in {time, chart.data.last} :
                t >= chart.data.last /\ j = Appended(chart, c, t)
  <2> HIDE DEF j
  <2> PICK t \in {time, chart.data.last} :
               t >= chart.data.last /\ j = Appended(chart, c, t)
    BY <1>3
  <2>1. /\ IsChart(j) /\ SameLoad(j, chart) /\ SameUpdates(j, chart)
        /\ j.data.from = chart.data.from \cup {c} /\ j.data.last = t
    BY <1>0, AppendedDoes
  <2> QED
    BY <1>0, <1>3, <2>1 DEF HasBars, j
<1> QED
  BY <1>0, <1>1, <1>2, <1>3 DEF Merged

(* An exchange id that arrives puts the chart on the stream.               *)
LEMMA StreamingDoes ==
    ASSUME NEW k, IsChart(k)
    PROVE  LET j == Streaming(k) IN
           /\ IsChart(j) /\ SameLoad(j, k) /\ SameBars(j, k) /\ Watches(j, k)
           /\ j.rest = k.rest /\ j.wsActive /\ j.realtimeGeneration = k.realtimeGeneration
<1> DEFINE x == [k EXCEPT !.wsActive = TRUE]
           j == ArmWsStaleWatchdog(x)
<1>1. /\ IsChart(x) /\ SameLoad(x, k) /\ SameBars(x, k) /\ x.rest = k.rest /\ x.wsActive
      /\ x.realtimeGeneration = k.realtimeGeneration
  BY FieldsOfChart
<1> HIDE DEF x
<1>2. /\ IsChart(j) /\ SameLoad(j, x) /\ SameBars(j, x) /\ Watches(j, x)
      /\ j.rest = x.rest /\ j.wsActive = x.wsActive
      /\ j.realtimeGeneration = x.realtimeGeneration
  BY <1>1, ArmWsStaleWatchdogDoes
<1>3. Streaming(k) = j
  BY DEF Streaming, x
<1> HIDE DEF j
<1>4. SameLoad(j, k) /\ SameBars(j, k)
  BY <1>1, <1>2 DEF SameLoad, SameBars
<1>5. Watches(j, k)
  BY <1>1, <1>2 DEF SameLoad, Watches
<1> QED
  BY <1>1, <1>2, <1>3, <1>4, <1>5

(* A stream that gives up leaves the chart to its polling.                 *)
LEMMA HandleWsErrorDoes ==
    ASSUME NEW k, IsChart(k), now \in Nat \ {0}
    PROVE  LET j == HandleWsError(k) IN
           Follows(j, k) /\ ~j.wsActive /\ Polls(j, k)
<1>1. HandleWsError(k) = React(k, {"error"}, 1)
  BY DEF React
<1> QED
  BY <1>1, ReactDoes

(* The load under way is answered: its candles are put on the chart, and   *)
(* updates are started when the chart is to have them.                     *)
LEMMA LoadedDoes ==
    ASSUME LoadInv, NEW q \in requests, Loaded(q), Present(q)
    PROVE  /\ IsChart(chart') /\ ~chart'.loading
           /\ chart'.ctx = chart.ctx /\ chart'.mounted = chart.mounted
           /\ chart'.enabled = chart.enabled
           /\ chart'.loadGeneration = chart.loadGeneration
           /\ q.ctx \in chart'.data.from /\ chart'.data.last \in Nat
           /\ chart'.data.last <= now
           /\ requests' = (requests \ {q}) \cup Sent(chart')
           /\ IF chart.enabled
              THEN /\ Disconnects /\ Polls(chart', chart') /\ ~chart'.wsActive
                   /\ chart'.realtimeGeneration = chart.realtimeGeneration + 1
                   /\ chart.realtimeGeneration \in Nat
              ELSE SameUpdates(chart', chart) /\ UNCHANGED stream
<1>0. now \in Nat \ {0} /\ q.at \in Nat /\ IsChart(chart)
  BY DEF LoadInv
<1> PICK time \in q.at .. now :
      LET k == [chart EXCEPT !.loading = FALSE, !.activeLoad = None,
                             !.data = [from |-> {q.ctx}, last |-> time]]
      IN  chart' = IF k.enabled THEN StartRealtime(k) ELSE k
  BY DEF Loaded, Present
<1> DEFINE d == [from |-> {q.ctx}, last |-> time]
           k == [chart EXCEPT !.loading = FALSE, !.activeLoad = None, !.data = d]
<1>1. PICK U : chart \in Charts(U)
  BY <1>0 DEF IsChart
<1> DEFINE V == U \cup {None, q.ctx}
<1>2. /\ d \in [from : SUBSET V, last : Nat] /\ U \subseteq V /\ None \in V
      /\ q.ctx \in d.from /\ d.last = time /\ time \in Nat /\ time <= now
  BY <1>0
<1> HIDE DEF d, V
<1>3. /\ k \in Charts(V) /\ ~k.loading /\ k.ctx = chart.ctx
      /\ k.mounted = chart.mounted /\ k.enabled = chart.enabled
      /\ k.loadGeneration = chart.loadGeneration /\ k.data = d /\ SameUpdates(k, chart)
  BY <1>1, <1>2 DEF Charts, SameUpdates
<1>4. chart' = IF k.enabled THEN StartRealtime(k) ELSE k
  BY DEF d
<1> HIDE DEF k
<1>5. IsChart(k) /\ k.enabled \in BOOLEAN
  BY <1>3 DEF IsChart, Charts
<1>6. /\ requests' = (requests \ {q}) \cup Sent(chart')
      /\ IF chart.enabled THEN Disconnects ELSE UNCHANGED stream
  BY DEF Loaded, Present, streamVars
<1>7. CASE chart.enabled
  <2>1. /\ IsChart(chart') /\ SameLoad(chart', k) /\ SameBars(chart', k) /\ Polls(chart', k)
        /\ ~chart'.wsActive /\ chart'.realtimeGeneration = k.realtimeGeneration + 1
        /\ k.realtimeGeneration \in Nat
    BY <1>3, <1>4, <1>5, <1>7, StartRealtimeDoes
  <2>2. chart'.data = d /\ chart'.ctx = chart.ctx /\ chart'.mounted = chart.mounted
        /\ chart'.enabled = chart.enabled /\ chart'.loading = k.loading
        /\ chart'.loadGeneration = chart.loadGeneration
    BY <1>3, <2>1 DEF SameLoad, SameBars
  <2>3. Polls(chart', chart')
    BY <1>3, <2>1, <2>2 DEF Polls, HasBars
  <2>4. k.realtimeGeneration = chart.realtimeGeneration
    BY <1>3 DEF SameUpdates
  <2>5. /\ q.ctx \in chart'.data.from /\ chart'.data.last \in Nat
        /\ chart'.data.last <= now /\ ~chart'.loading
    BY <1>2, <1>3, <2>2
  <2>6. chart'.realtimeGeneration = chart.realtimeGeneration + 1 /\ chart.realtimeGeneration \in Nat
    BY <2>1, <2>4
  <2> QED
    BY <1>6, <1>7, <2>1, <2>2, <2>3, <2>5, <2>6
<1>8. CASE ~chart.enabled
  <2>1. chart' = k
    BY <1>3, <1>4, <1>5, <1>8
  <2>2. /\ q.ctx \in k.data.from /\ k.data.last \in Nat /\ k.data.last <= now
    BY <1>2, <1>3
  <2> QED
    BY <1>3, <1>5, <1>6, <1>8, <2>1, <2>2
<1> QED
  BY <1>7, <1>8

(* A load that is answered or fails is the only one under way.             *)
LEMMA SettledLoads ==
    ASSUME LoadInv, NEW q \in Loads, Present(q), IsChart(chart'), ~chart'.loading,
           now' = now, chart'.ctx = chart.ctx,
           chart'.loadGeneration = chart.loadGeneration,
           chart'.data.last \in 0 .. now,
           HasBars(chart') => q.ctx \in chart'.data.from,
           \A p \in requests' : \/ p \in requests /\ p # q
                                \/ p.kind # "load" /\ p.gen \in Nat /\ p.at \in Nat
    PROVE  LoadInv' /\ Advances
<1>1. chart.loading /\ q.ctx = chart.ctx
  BY DEF LoadInv
<1>2. \A p \in Loads' : p \in Loads /\ ~Present(p)
  BY DEF LoadInv, Loads
<1>3. \A p \in Loads' : p.gen <= chart'.loadGeneration /\ ~Present(p)'
  BY <1>2 DEF LoadInv, Present
<1>4. \A p \in requests' : p.gen \in Nat /\ p.at \in Nat
  BY DEF LoadInv
<1>5. ShowsItsContext'
  BY <1>1 DEF ShowsItsContext
<1>6. chart'.data.last <= now' /\ now' \in Nat \ {0}
  BY DEF LoadInv
<1>7. LoadInv'
  BY <1>3, <1>4, <1>5, <1>6 DEF LoadInv
<1> QED
  BY <1>1, <1>7 DEF Advances

(* No request of the realtime updates is a load.                           *)
LEMMA SentIsNoLoad ==
    ASSUME NEW k, IsChart(k), NEW q \in Sent(k)
    PROVE  /\ q.kind = "exchange" /\ q.gen = k.realtimeGeneration /\ AsksExchange(k)
           /\ q.gen \in Nat /\ q.at \in Nat
BY DEF Sent, ExchangeId, IsChart, Charts

(* The invariant of the loads is inductive, and candles only advance.      *)
LEMMA StepLoads ==
    ASSUME LoadInv, [Next]_vars
    PROVE  LoadInv' /\ Advances
<1>0. /\ IsChart(chart) /\ now \in Nat \ {0} /\ chart.data.last \in Nat
      /\ chart.data.last <= now /\ chart.loadGeneration \in Nat
  BY DEF LoadInv, IsChart, Charts
<1>1. ASSUME IsChart(chart'), SameLoad(chart', chart), SameBars(chart', chart),
             now' = now,
             \A q \in requests' : \/ q \in requests
                                  \/ q.kind # "load" /\ q.gen \in Nat /\ q.at \in Nat
      PROVE  LoadInv' /\ Advances
  BY <1>0, <1>1, KeepsLoads DEF SameLoad, SameBars, HasBars
<1>2. ASSUME Follows(chart', chart), requests' \subseteq requests, now' = now
      PROVE  LoadInv' /\ Advances
  <2>1. chart'.data.last \in chart.data.last .. now
    <3>1. chart'.data.last \in Nat
      BY <1>2 DEF Follows, IsChart, Charts
    <3> QED
      BY <1>0, <1>2, <3>1 DEF Follows
  <2>2. /\ HasBars(chart') => HasBars(chart)
        /\ chart.data.from \subseteq chart'.data.from
    BY <1>2 DEF Follows
  <2>5. now' \in Nat /\ now' >= now
    BY <1>0, <1>2
  <2>3. /\ chart'.ctx = chart.ctx /\ chart'.loading = chart.loading
        /\ chart'.loadGeneration = chart.loadGeneration
        /\ chart'.activeLoad = chart.activeLoad
    BY <1>2 DEF Follows, SameLoad
  <2>4. IsChart(chart')
    BY <1>2 DEF Follows
  <2> QED
    BY <1>2, <2>1, <2>2, <2>3, <2>4, <2>5, KeepsLoads
<1>3. ASSUME NEW c, SwitchContext(c)
      PROVE  LoadInv' /\ Advances
  <2> DEFINE k == [chart EXCEPT !.ctx = c]
  <2>1. /\ IsChart(k) /\ SameBars(k, chart) /\ k.ctx = c /\ k.loading = chart.loading
        /\ k.loadGeneration = chart.loadGeneration /\ k.activeLoad = chart.activeLoad
    BY <1>0, ContextOfChart
  <2>2. Reload(k) /\ now' = now /\ c # chart.ctx
    BY <1>3 DEF SwitchContext, Counted
  <2> HIDE DEF k
  <2>3. ~AlreadyLoading(k)
    BY <2>1, <2>2 DEF AlreadyLoading, LoadInv
  <2> QED
    BY <2>1, <2>2, <2>3, ReloadLoads
<1>4. CASE HandleRetry
  <2>1. Reload(chart) /\ now' = now /\ SameBars(chart, chart)
    BY <1>4 DEF HandleRetry, Counted, SameBars
  <2> QED
    BY <1>0, <2>1, ReloadLoads
<1>5. CASE EnableRealtime
  <2> DEFINE k == [chart EXCEPT !.enabled = TRUE]
  <2>1. /\ IsChart(k) /\ SameBars(k, chart) /\ k.ctx = chart.ctx
        /\ k.loading = chart.loading /\ k.loadGeneration = chart.loadGeneration
        /\ k.activeLoad = chart.activeLoad
    BY <1>0, FieldsOfChart
  <2> HIDE DEF k
  <2>2. /\ chart' = StartRealtime(k) /\ now' = now
        /\ requests' = requests \cup Sent(chart')
    BY <1>5 DEF EnableRealtime, Counted, k
  <2>3. IsChart(chart') /\ SameLoad(chart', k) /\ SameBars(chart', k)
    BY <2>1, <2>2, StartRealtimeDoes
  <2>4. \A q \in requests' : \/ q \in requests
                             \/ q.kind # "load" /\ q.gen \in Nat /\ q.at \in Nat
    BY <2>2, <2>3, SentIsNoLoad
  <2> QED
    BY <1>0, <2>1, <2>2, <2>3, <2>4, KeepsLoads DEF SameLoad, SameBars, HasBars
<1>6. CASE DisableRealtime \/ Unmount
  <2> PICK k : /\ IsChart(k) /\ SameBars(k, chart) /\ k.ctx = chart.ctx
               /\ k.loading = chart.loading /\ k.loadGeneration = chart.loadGeneration
               /\ k.activeLoad = chart.activeLoad
               /\ chart' = k
    <3>1. CASE DisableRealtime
      <4> DEFINE e == [chart EXCEPT !.enabled = FALSE]
      <4>1. /\ IsChart(e) /\ SameBars(e, chart) /\ e.ctx = chart.ctx
            /\ e.loading = chart.loading /\ e.loadGeneration = chart.loadGeneration
            /\ e.activeLoad = chart.activeLoad
        BY <1>0, FieldsOfChart
      <4>2. chart' = StopRealtime(e)
        BY <3>1 DEF DisableRealtime
      <4> HIDE DEF e
      <4>3. IsChart(chart') /\ SameLoad(chart', e) /\ SameBars(chart', e)
        BY <4>1, <4>2, StopRealtimeDoes
      <4> QED
        BY <4>1, <4>3 DEF SameLoad, SameBars
    <3>2. CASE Unmount
      <4> DEFINE e == StopRealtime(chart)
      <4>1. IsChart(e) /\ SameLoad(e, chart) /\ SameBars(e, chart)
        BY <1>0, StopRealtimeDoes
      <4>2. chart' = [e EXCEPT !.mounted = FALSE]
        BY <3>2 DEF Unmount
      <4> HIDE DEF e
      <4>3. /\ IsChart(chart') /\ SameBars(chart', e) /\ chart'.ctx = e.ctx
            /\ chart'.loading = e.loading /\ chart'.loadGeneration = e.loadGeneration
            /\ chart'.activeLoad = e.activeLoad
        BY <4>1, <4>2, FieldsOfChart
      <4> QED
        BY <4>1, <4>3 DEF SameLoad, SameBars
    <3> QED
      BY <1>6, <3>1, <3>2
  <2>1. requests' = requests /\ now' = now
    BY <1>6 DEF DisableRealtime, Unmount, Counted
  <2> QED
    BY <1>0, <2>1, KeepsLoads DEF SameBars, HasBars
<1>7. ASSUME NEW q \in requests, Loaded(q), now' = now
      PROVE  LoadInv' /\ Advances
  <2>1. CASE Present(q)
    <3>1. /\ IsChart(chart') /\ ~chart'.loading /\ chart'.ctx = chart.ctx
          /\ chart'.loadGeneration = chart.loadGeneration
          /\ q.ctx \in chart'.data.from /\ chart'.data.last \in 0 .. now
          /\ requests' = (requests \ {q}) \cup Sent(chart')
      BY <1>0, <1>7, <2>1, LoadedDoes
    <3>2. \A p \in requests' : \/ p \in requests /\ p # q
                               \/ p.kind # "load" /\ p.gen \in Nat /\ p.at \in Nat
      BY <3>1, SentIsNoLoad
    <3>3. q \in Loads
      BY <1>7 DEF Loaded, Loads
    <3> QED
      BY <1>7, <2>1, <3>1, <3>2, <3>3, SettledLoads
  <2>2. CASE ~Present(q)
    <3>1. chart' = chart /\ requests' \subseteq requests
      BY <1>7, <2>2 DEF Loaded, Present, Without
    <3> QED
      BY <1>0, <1>1, <1>7, <3>1 DEF SameLoad, SameBars
  <2> QED
    BY <2>1, <2>2
<1>8. ASSUME NEW q \in requests, LoadFails(q), now' = now
      PROVE  LoadInv' /\ Advances
  <2>0. requests' = requests \ {q} /\ q \in Loads
    BY <1>8 DEF LoadFails, Without, Loads
  <2>1. CASE Present(q)
    <3>1. chart' = [chart EXCEPT !.loading = FALSE, !.activeLoad = None, !.data = NoBars]
      BY <1>8, <2>1 DEF LoadFails, Present
    <3>2. PICK U : chart \in Charts(U)
      BY <1>0 DEF IsChart
    <3> DEFINE V == U \cup {None}
    <3>3. NoBars \in [from : SUBSET V, last : Nat] /\ NoBars.last = 0
      BY DEF NoBars
    <3>4. U \subseteq V /\ None \in V
      OBVIOUS
    <3> HIDE DEF V
    <3>5. /\ chart' \in Charts(V) /\ ~chart'.loading /\ chart'.ctx = chart.ctx
          /\ chart'.loadGeneration = chart.loadGeneration /\ chart'.data = NoBars
      BY <3>1, <3>2, <3>3, <3>4 DEF Charts
    <3>6. IsChart(chart') /\ chart'.data.last = 0 /\ ~HasBars(chart')
      BY <3>3, <3>5 DEF IsChart, HasBars
    <3> QED
      BY <1>0, <1>8, <2>0, <2>1, <3>5, <3>6, SettledLoads
  <2>2. CASE ~Present(q)
    <3>1. chart' = chart
      BY <1>8, <2>2 DEF LoadFails, Present
    <3> QED
      BY <1>0, <1>1, <1>8, <2>0, <3>1 DEF SameLoad, SameBars
  <2> QED
    BY <2>1, <2>2
<1>9. ASSUME NEW q \in requests, Fetched(q), now' = now
      PROVE  LoadInv' /\ Advances
  <2>1. PICK time \in q.at .. now :
             chart' = [Merged(chart, q.ctx, time) EXCEPT !.fetching = FALSE]
    BY <1>9 DEF Fetched
  <2>2. time \in Nat /\ time <= now /\ requests' \subseteq requests
    BY <1>0, <1>9 DEF LoadInv, Fetched, Without
  <2> DEFINE k == Merged(chart, q.ctx, time)
  <2>3. /\ IsChart(k) /\ SameLoad(k, chart)
        /\ HasBars(k) <=> HasBars(chart)
        /\ chart.data.from \subseteq k.data.from
        /\ k.data.last \in chart.data.last .. now
    BY <2>2, MergedDoes
  <2> HIDE DEF k
  <2>4. IsChart(chart') /\ SameLoad(chart', k) /\ SameBars(chart', k)
    BY <2>1, <2>3, FieldsOfChart DEF k
  <2> QED
    BY <1>0, <1>9, <2>2, <2>3, <2>4, KeepsLoads DEF SameLoad, SameBars, HasBars
<1>10. ASSUME NEW q \in requests, ExchangeKnown(q), now' = now
       PROVE  LoadInv' /\ Advances
  <2>0. requests' \subseteq requests
    BY <1>10 DEF ExchangeKnown, Without
  <2>1. CASE chart' = chart
    BY <1>0, <1>1, <1>10, <2>0, <2>1 DEF SameLoad, SameBars
  <2>2. CASE chart' = Streaming(chart)
    BY <1>0, <1>1, <1>10, <2>0, <2>2, StreamingDoes
  <2>3. CASE chart' = Streaming(HandleWsError(chart))
    <3> DEFINE e == HandleWsError(chart)
    <3>1. Follows(e, chart)
      BY <1>0, HandleWsErrorDoes
    <3> HIDE DEF e
    <3>2. /\ IsChart(chart') /\ SameLoad(chart', e) /\ SameBars(chart', e)
          /\ chart'.realtimeGeneration = e.realtimeGeneration
      BY <2>3, <3>1, StreamingDoes DEF Follows, e
    <3>3. Follows(chart', chart)
      BY <3>1, <3>2 DEF Follows, SameLoad, SameBars, HasBars
    <3> QED
      BY <1>2, <1>10, <2>0, <3>3
  <2> QED
    BY <1>10, <2>1, <2>2, <2>3 DEF ExchangeKnown
<1>11. CASE Failures
  <2> PICK q \in requests : LoadFails(q) \/ FetchFails(q)
    BY <1>11 DEF Failures
  <2>1. now' = now
    BY <1>11 DEF Failures
  <2>2. CASE FetchFails(q)
    <3>1. chart' = [chart EXCEPT !.fetching = FALSE] /\ requests' \subseteq requests
      BY <2>2 DEF FetchFails, Without
    <3> QED
      BY <1>0, <1>1, <2>1, <3>1, FieldsOfChart
  <2> QED
    BY <1>8, <2>1, <2>2
<1>12. CASE RestTick
  <2>1. /\ chart' = [chart EXCEPT !.fetching = TRUE] /\ now' = now
        /\ requests' = requests \cup {Fetch(chart)}
    BY <1>12 DEF RestTick
  <2>2. Fetch(chart).kind # "load" /\ Fetch(chart).gen \in Nat /\ Fetch(chart).at \in Nat
    BY <1>0 DEF Fetch
  <2> QED
    BY <1>0, <1>1, <2>1, <2>2, FieldsOfChart
<1>13. CASE StaleFires
  <2> DEFINE f == [chart EXCEPT !.stale = FALSE]
  <2>1. chart' \in {f, StartRestPolling(f)} /\ requests' = requests /\ now' = now
    BY <1>13 DEF StaleFires
  <2>2. IsChart(f) /\ SameLoad(f, chart) /\ SameBars(f, chart)
    BY <1>0, FieldsOfChart
  <2> HIDE DEF f
  <2>3. IsChart(chart') /\ SameLoad(chart', chart) /\ SameBars(chart', chart)
    BY <2>1, <2>2, StartRestPollingDoes DEF SameLoad, SameBars
  <2> QED
    BY <1>1, <2>1, <2>3
<1>14. CASE ResyncFires
  <2> DEFINE f == [chart EXCEPT !.resync = FALSE]
  <2>1. IsChart(f) /\ SameLoad(f, chart) /\ SameBars(f, chart)
    BY <1>0, FieldsOfChart
  <2>2. now' = now /\ (Reload(f) \/ (chart' = f /\ requests' = requests))
    BY <1>14 DEF ResyncFires
  <2> HIDE DEF f
  <2>3. CASE Reload(f)
    BY <2>1, <2>2, <2>3, ReloadLoads DEF SameLoad
  <2> QED
    BY <1>1, <2>1, <2>2, <2>3
<1>15. CASE NewCandle
  <2>1. chart' = chart /\ requests' = requests /\ now' = now + 1
    BY <1>15 DEF NewCandle
  <2> QED
    BY <1>0, <2>1, KeepsLoads
<1>16. CASE SocketSpeaks \/ StreamTimerFires \/ StreamFails
  <2> PICK r \in SocketMoves \cup TimerMoves \cup FailedMoves, time \in 1 .. now :
           ReactsTo(r, time)
    BY <1>16 DEF SocketSpeaks, StreamTimerFires, StreamFails, Reacts
  <2>1. chart' = React(chart, r.calls, time) /\ requests' = requests /\ now' = now
    BY DEF ReactsTo
  <2>2. Follows(chart', chart)
    BY <1>0, <2>1, CallsKnown, ReactDoes DEF Calls
  <2> QED
    BY <1>2, <2>1, <2>2
<1>17. CASE UNCHANGED vars
  BY <1>0, <1>1, <1>17 DEF vars, SameLoad, SameBars
<1>18. Answers => LoadInv' /\ Advances
  BY <1>7, <1>9, <1>10 DEF Answers, Settle
<1> QED
  BY <1>3, <1>4, <1>5, <1>6, <1>11, <1>12, <1>13, <1>14, <1>15, <1>16, <1>17, <1>18
     DEF Next

(* A chart is mounted with the load of its context under way.              *)
LEMMA InitLoads == Init => LoadInv /\ chart.loading
<1> SUFFICES ASSUME Init PROVE LoadInv /\ chart.loading
  OBVIOUS
<1> PICK c \in Contexts, enabled \in BOOLEAN : chart = LoadKlineData(Created(c, enabled))
  BY DEF Init
<1> DEFINE U == {c, None}
<1>0. c \in U /\ None \in U
  OBVIOUS
<1> HIDE DEF U
<1> DEFINE k == Created(c, enabled)
<1>1. k \in Charts(U) /\ k.data = NoBars /\ k.ctx = c /\ k.loadGeneration = 0
  BY <1>0 DEF Created, Charts, NoBars
<1>2. chart = [StopRealtime(k) EXCEPT !.loadGeneration = @ + 1, !.activeLoad = k.ctx,
                                      !.loading = TRUE]
  BY DEF LoadKlineData
<1> HIDE DEF k
<1>3. StopRealtime(k) \in Charts(U) /\ StopRealtime(k).data = NoBars
      /\ StopRealtime(k).ctx = c /\ StopRealtime(k).loadGeneration = 0
  BY <1>1 DEF StopRealtime, Charts
<1>4. /\ chart \in Charts(U) /\ chart.loading /\ chart.activeLoad = chart.ctx
      /\ chart.data = NoBars /\ chart.loadGeneration = 1
  <2> DEFINE s == StopRealtime(k)
  <2>1. chart = [s EXCEPT !.loadGeneration = 1, !.activeLoad = c, !.loading = TRUE]
    BY <1>1, <1>2, <1>3
  <2>2. s \in Charts(U) /\ s.data = NoBars /\ s.ctx = c
    BY <1>3
  <2> HIDE DEF s
  <2>3. chart \in Charts(U)
    <3>1. s \in Charts(U)
      BY <2>2
    <3> DEFINE n == 1
    <3>2. n \in Nat /\ chart = [s EXCEPT !.loadGeneration = n, !.activeLoad = c, !.loading = TRUE]
      BY <2>1
    <3> HIDE DEF n
    <3> QED
      BY <1>0, <3>1, <3>2 DEF Charts
  <2>4. chart.loading /\ chart.activeLoad = c /\ chart.loadGeneration = 1
    BY <2>1, <2>2 DEF Charts
  <2>5. chart.ctx = c /\ chart.data = NoBars
    BY <2>1, <2>2 DEF Charts
  <2> QED
    BY <2>3, <2>4, <2>5
<1>5. requests = {Load(chart)} /\ now = 1
  BY DEF Init
<1>6. /\ Load(chart).gen = 1 /\ Load(chart).ctx = chart.ctx /\ Load(chart).at = 1
  BY <1>4, <1>5 DEF Load
<1>7. IsChart(chart) /\ chart.data.last = 0
  BY <1>4 DEF IsChart, NoBars
<1>8. ShowsItsContext
  BY <1>4 DEF ShowsItsContext
<1> QED
  BY <1>4, <1>5, <1>6, <1>7, <1>8 DEF LoadInv, Loads, Present

(* An answer that was overtaken by another context never takes its place:  *)
(* the candles of a chart that is not loading include its own context's.   *)
THEOREM ChartShowsItsContext == Spec => []ShowsItsContext
<1>1. LoadInv /\ [Next]_vars => LoadInv'
  BY StepLoads
<1>2. LoadInv => ShowsItsContext
  BY DEF LoadInv
<1> QED
  BY InitLoads, <1>1, <1>2, PTL DEF Spec

(* Between two loads the newest candle of the chart only gets newer.       *)
THEOREM ChartAdvances == Spec => CandlesAdvance
<1>1. LoadInv /\ [Next]_vars
        => LoadInv' /\ [chart'.loading = chart.loading
                            => chart'.data.last >= chart.data.last]_vars
  BY StepLoads DEF Advances
<1> QED
  BY InitLoads, <1>1, PTL DEF Spec, CandlesAdvance

-----------------------------------------------------------------------------
(* The watch on the stream: what a step of the client does to its sockets  *)
(* and timers, and what it tells the chart of it.                          *)
(* It has given up.                                                        *)
GivenUp(r) ==
    /\ "error" \in r.calls /\ r.w.sockets = {}
    /\ r.w.closed \/ (~r.w.reconnectTimer /\ ~r.w.fallbackUsed)

(* A socket has opened, and is given time for its first candle.            *)
Opened(w, r) ==
    /\ w.sockets # {} /\ ~r.w.closed /\ ~r.w.fallbackUsed /\ ~r.w.reconnectTimer
    /\ ~r.w.gotData /\ r.w.openGen \in r.w.dataTimeouts
    /\ r.calls \in {{}, {"reconnected"}}

(* A candle has come.                                                      *)
Ticked(w, r) ==
    /\ w.sockets # {} /\ ~r.w.closed /\ ~r.w.fallbackUsed /\ ~r.w.reconnectTimer
    /\ r.calls = {"tick"}

(* A socket was closed and is to be replaced.                              *)
Waiting(w, r) ==
    /\ w.sockets # {} /\ r.w.sockets = {} /\ ~r.w.fallbackUsed
    /\ r.calls = {"reconnecting"}

(* The reconnect timer has fired.                                          *)
Replaced(w, r) ==
    /\ w.reconnectTimer /\ ~r.w.reconnectTimer /\ r.calls = {}
    /\ r.w.closed = w.closed /\ r.w.fallbackUsed = w.fallbackUsed
    /\ r.w.sockets # {} => ~w.closed

(* A timer found nothing to give up.                                       *)
Unmoved(w, r) ==
    /\ r.calls = {} /\ r.w.closed = w.closed /\ r.w.fallbackUsed = w.fallbackUsed
    /\ r.w.reconnectTimer = w.reconnectTimer /\ r.w.sockets = w.sockets
    /\ r.w.gotData = w.gotData /\ r.w.openGen = w.openGen
    /\ ~w.gotData /\ ~w.closed /\ w.openGen \in w.dataTimeouts
           => w.openGen \in r.w.dataTimeouts

Explained(w, r) ==
    \/ GivenUp(r) \/ Opened(w, r) \/ Ticked(w, r) \/ Waiting(w, r)
    \/ Replaced(w, r) \/ Unmoved(w, r)

(* A client that is not closed has not given up.                           *)
Trying(w) == ~w.closed => ~w.fallbackUsed

(* The client gives up out loud.                                           *)
LEMMA TryFallbackExplained ==
    ASSUME NEW w, IsClient(w), w.sockets = {}
    PROVE  GivenUp(TryFallback(w)) /\ Trying(TryFallback(w).w)
<1>1. /\ TryFallback(w).w.closed /\ TryFallback(w).w.sockets = {}
      /\ TryFallback(w).calls = {"error"}
  BY DEF TryFallback, IsClient, Client
<1> QED
  BY <1>1 DEF GivenUp, Trying

(* A socket opens, or brings a candle.                                     *)
LEMMA SocketExplained ==
    ASSUME NEW w, Tidy(w), Trying(w), NEW s \in w.sockets
    PROVE  /\ Opened(w, OnOpen(w, s.gen)) /\ Trying(OnOpen(w, s.gen).w)
           /\ Ticked(w, OnMessage(w, s.gen)) /\ Trying(OnMessage(w, s.gen).w)
<1>0. s.gen = w.openGen /\ ~w.closed /\ ~w.reconnectTimer /\ ~w.fallbackUsed
  BY DEF Tidy, Trying
<1>1. PICK symbols : w \in Client(symbols)
  BY DEF Tidy, IsClient
<1>2. Opened(w, OnOpen(w, s.gen)) /\ Trying(OnOpen(w, s.gen).w)
  <2> DEFINE g == s.gen
             sockets == Drop(w.sockets, g) \cup {Socket(g, TRUE)}
             opened == [w EXCEPT !.sockets = sockets]
             d == w.dataTimeouts \cup {g}
             x == [opened EXCEPT
                       !.connectTimeout = 0, !.everConnected = TRUE, !.attempts = 0,
                       !.gotData = FALSE, !.dataTimeout = g, !.dataTimeouts = d]
  <2>1. /\ opened.fallbackUsed = w.fallbackUsed /\ opened.dataTimeouts = w.dataTimeouts
        /\ opened.openGen = w.openGen /\ opened.closed = w.closed
        /\ opened.reconnectTimer = w.reconnectTimer
    BY <1>1 DEF Client
  <2>2. OnOpen(w, s.gen).w = [opened EXCEPT
             !.connectTimeout = 0, !.everConnected = TRUE, !.attempts = 0, !.gotData = FALSE,
             !.dataTimeout = IF w.fallbackUsed THEN @ ELSE g,
             !.dataTimeouts = IF w.fallbackUsed THEN @ ELSE @ \cup {g}]
    BY <1>0 DEF OnOpen
  <2>3. OnOpen(w, s.gen).w = x
    BY <1>0, <2>1, <2>2
  <2>4. /\ x.closed = w.closed /\ x.fallbackUsed = w.fallbackUsed
        /\ x.reconnectTimer = w.reconnectTimer /\ x.openGen = w.openGen
        /\ ~x.gotData /\ x.dataTimeouts = d
    BY <1>1 DEF Client
  <2>5. OnOpen(w, s.gen).calls \in {{}, {"reconnected"}}
    BY <1>0 DEF OnOpen
  <2> HIDE DEF x
  <2> QED
    BY <1>0, <2>3, <2>4, <2>5 DEF Opened, Trying
<1>3. Ticked(w, OnMessage(w, s.gen)) /\ Trying(OnMessage(w, s.gen).w)
  <2> DEFINE x == OnMessage(w, s.gen).w
  <2>1. /\ x.closed = w.closed /\ x.fallbackUsed = w.fallbackUsed
        /\ x.reconnectTimer = w.reconnectTimer
        /\ OnMessage(w, s.gen).calls = {"tick"}
    BY <1>0, <1>1 DEF OnMessage, Client
  <2> QED
    BY <1>0, <2>1 DEF Ticked, Trying
<1> QED
  BY <1>2, <1>3

(* A closed socket is replaced by a timer, or the client gives up.         *)
LEMMA CloseExplained ==
    ASSUME NEW w, Tidy(w), Trying(w), NEW s \in w.sockets
    PROVE  LET r == OnClose(w, s.gen) IN
           (GivenUp(r) \/ Waiting(w, r)) /\ Trying(r.w)
<1>0. s.gen = w.openGen /\ ~w.closed /\ ~w.reconnectTimer /\ ~w.fallbackUsed
  BY DEF Tidy, Trying
<1>1. PICK symbols : w \in Client(symbols)
  BY DEF Tidy, IsClient
<1>2. Drop(w.sockets, s.gen) = {}
  BY <1>0 DEF Tidy, Drop
<1> DEFINE none == Drop(w.sockets, s.gen)
           d == [w EXCEPT !.sockets = none]
           x == [d EXCEPT !.connectTimeout = 0]
           made == IF w.everConnected THEN {"reconnecting"} ELSE {}
<1>3. /\ x \in Client(symbols) /\ x.sockets = {} /\ x.closed = w.closed
      /\ x.fallbackUsed = w.fallbackUsed /\ x.reconnectTimer = w.reconnectTimer
  BY <1>1, <1>2 DEF Client
<1>4. OnClose(w, s.gen) = IF ~w.everConnected THEN TryFallback(x)
                          ELSE ScheduleReconnect(x, made)
  BY <1>0 DEF OnClose
<1> HIDE DEF x
<1>5. CASE ~w.everConnected
  BY <1>3, <1>4, <1>5, TryFallbackExplained DEF IsClient
<1>6. CASE w.everConnected
  <2> DEFINE n == x.attempts + 1
             a == [x EXCEPT !.attempts = n]
             b == [x EXCEPT !.attempts = n, !.reconnectTimer = TRUE]
  <2>1. OnClose(w, s.gen) = ScheduleReconnect(x, {"reconnecting"})
    BY <1>4, <1>6
  <2>2. ScheduleReconnect(x, {"reconnecting"}) =
            IF n > MaxReconnectAttempts
            THEN [w |-> a, calls |-> {"reconnecting"} \cup {"error"}]
            ELSE [w |-> b, calls |-> {"reconnecting"}]
    BY DEF ScheduleReconnect
  <2>3. /\ a.closed = w.closed /\ a.fallbackUsed = w.fallbackUsed
        /\ a.reconnectTimer = w.reconnectTimer /\ a.sockets = {}
        /\ b.closed = w.closed /\ b.fallbackUsed = w.fallbackUsed /\ b.sockets = {}
    BY <1>3 DEF Client
  <2> HIDE DEF a, b, n
  <2> QED
    BY <1>0, <2>1, <2>2, <2>3 DEF GivenUp, Waiting, Trying
<1> QED
  BY <1>5, <1>6

(* So is one whose connection or first candle takes too long.              *)
LEMMA TimeoutExplained ==
    ASSUME NEW w, Tidy(w), Trying(w), NEW g
    PROVE  /\ Explained(w, ConnectTimeoutFires(w, g)) /\ Trying(ConnectTimeoutFires(w, g).w)
           /\ Explained(w, DataTimeoutFires(w, g)) /\ Trying(DataTimeoutFires(w, g).w)
<1>0. PICK symbols : w \in Client(symbols)
  BY DEF Tidy, IsClient
<1>1. Drop(w.sockets, w.ws) = {}
  BY DEF Tidy, Drop
<1>2. Explained(w, ConnectTimeoutFires(w, g)) /\ Trying(ConnectTimeoutFires(w, g).w)
  <2> DEFINE f == [w EXCEPT !.connectTimeout = 0]
             x == [f EXCEPT !.sockets = Drop(@, w.ws), !.ws = 0]
  <2>1. x \in Client(symbols) /\ x.sockets = {}
    BY <1>0, <1>1 DEF Client
  <2>2. Unmoved(w, Quiet(f)) /\ Trying(Quiet(f).w)
    BY <1>0 DEF Client, Quiet, Unmoved, Trying
  <2>3. ConnectTimeoutFires(w, g) \in {TryFallback(x), Quiet(f)}
    BY DEF ConnectTimeoutFires
  <2> HIDE DEF x, f
  <2> QED
    BY <2>1, <2>2, <2>3, TryFallbackExplained DEF Explained, IsClient
<1>3. Explained(w, DataTimeoutFires(w, g)) /\ Trying(DataTimeoutFires(w, g).w)
  <2> DEFINE d == w.dataTimeouts \ {g}
             f == [w EXCEPT !.dataTimeouts = d]
             x == [f EXCEPT !.sockets = Drop(@, w.ws), !.ws = 0]
  <2>1. x \in Client(symbols) /\ x.sockets = {}
    BY <1>0, <1>1 DEF Client
  <2>2. CASE g = w.openGen /\ ~w.gotData /\ ~w.closed
    <3>1. DataTimeoutFires(w, g) = TryFallback(x)
      BY <2>2 DEF DataTimeoutFires
    <3> HIDE DEF x
    <3> QED
      BY <2>1, <3>1, TryFallbackExplained DEF Explained, IsClient
  <2>3. CASE ~(g = w.openGen /\ ~w.gotData /\ ~w.closed)
    <3>1. DataTimeoutFires(w, g) = Quiet(f)
      BY <2>3 DEF DataTimeoutFires
    <3>2. Unmoved(w, Quiet(f)) /\ Trying(Quiet(f).w)
      BY <1>0, <2>3 DEF Client, Quiet, Unmoved, Trying
    <3> QED
      BY <3>1, <3>2 DEF Explained
  <2> QED
    BY <2>2, <2>3
<1> QED
  BY <1>2, <1>3

(* The timer opens a socket; one that cannot be opened is a closed one.    *)
LEMMA ReconnectExplained ==
    ASSUME NEW w, Tidy(w), Trying(w), w.reconnectTimer
    PROVE  /\ Explained(w, OpenSocket(ReconnectFires(w)))
           /\ Trying(OpenSocket(ReconnectFires(w)).w)
           /\ Explained(w, OpenThrows(ReconnectFires(w)))
           /\ Trying(OpenThrows(ReconnectFires(w)).w)
<1>0. PICK symbols : w \in Client(symbols)
  BY DEF Tidy, IsClient
<1> DEFINE f == ReconnectFires(w)
<1>1. /\ f \in Client(symbols) /\ f.sockets = {} /\ ~f.reconnectTimer
      /\ f.closed = w.closed /\ f.fallbackUsed = w.fallbackUsed
  BY <1>0 DEF Tidy, ReconnectFires, Client
<1> HIDE DEF f
<1>2. CASE f.closed
  <2>1. OpenSocket(f) = Quiet(f) /\ OpenThrows(f) = Quiet(f)
    BY <1>2 DEF OpenSocket, OpenThrows
  <2>2. Replaced(w, Quiet(f)) /\ Trying(Quiet(f).w)
    BY <1>1, <1>2 DEF Quiet, Replaced, Trying
  <2> QED
    BY <2>1, <2>2 DEF Explained, f
<1>3. CASE ~f.closed
  <2> DEFINE n == f.openGen + 1
             sockets == f.sockets \cup {Socket(n, FALSE)}
             x == [f EXCEPT !.openGen = n, !.ws = n, !.connectTimeout = n,
                            !.sockets = sockets]
             y == [f EXCEPT !.openGen = n]
  <2>1. /\ OpenSocket(f) = Quiet(x) /\ OpenThrows(f) = TryFallback(y)
    BY <1>3 DEF OpenSocket, OpenThrows
  <2>2. /\ x.closed = f.closed /\ x.fallbackUsed = f.fallbackUsed
        /\ x.reconnectTimer = f.reconnectTimer
        /\ y.sockets = {} /\ IsClient(y)
    BY <1>1 DEF IsClient, Client
  <2> HIDE DEF x, y
  <2>3. Replaced(w, Quiet(x)) /\ Trying(Quiet(x).w)
    BY <1>1, <1>3, <2>2 DEF Quiet, Replaced, Trying
  <2> QED
    BY <2>1, <2>2, <2>3, TryFallbackExplained DEF Explained, f
<1> QED
  BY <1>2, <1>3

(* Every step of the client is explained to the chart.                     *)
LEMMA MovesExplained ==
    ASSUME Tidy(stream), Trying(stream),
           NEW r \in SocketMoves \cup TimerMoves \cup FailedMoves
    PROVE  Explained(stream, r) /\ Trying(r.w)
<1>1. CASE r \in SocketMoves
  BY <1>1, SocketExplained DEF SocketMoves, Explained
<1>2. CASE r \in TimerMoves
  BY <1>2, TimeoutExplained, ReconnectExplained DEF TimerMoves
<1>3. CASE r \in FailedMoves
  BY <1>3, CloseExplained, ReconnectExplained DEF FailedMoves, Explained
<1> QED
  BY <1>1, <1>2, <1>3

(* What connecting and disconnecting leave behind.                         *)
LEMMA ConnectDoes ==
    ASSUME NEW w, Tidy(w), NEW c
    PROVE  /\ LET x == OpenSocket(Connecting(w, c)).w IN
              ~x.reconnectTimer /\ Trying(x)
           /\ LET x == OpenThrows(Connecting(w, c)).w IN
              ~x.reconnectTimer /\ Trying(x)
           /\ LET x == Disconnect(w) IN
              x.sockets = {} /\ ~x.reconnectTimer /\ Trying(x)
<1> DEFINE d == Disconnect(w)
           f == Connecting(w, c)
<1>1. /\ d.sockets = {} /\ ~d.reconnectTimer /\ Tidy(d)
  BY DisconnectTidy
<1>2. d.closed
  BY DEF Disconnect, Tidy, IsClient, Client
<1>3. f = [d EXCEPT !.closed = FALSE, !.everConnected = FALSE,
                    !.fallbackUsed = FALSE, !.attempts = 0, !.symbol = c]
  BY DEF Connecting
<1> HIDE DEF d, f
<1>4. ~f.closed /\ ~f.fallbackUsed /\ ~f.reconnectTimer /\ f.sockets = {} /\ IsClient(f)
  BY <1>1, <1>3 DEF Tidy, IsClient, Client
<1> DEFINE n == f.openGen + 1
           sockets == f.sockets \cup {Socket(n, FALSE)}
           x == [f EXCEPT !.openGen = n, !.ws = n, !.connectTimeout = n,
                          !.sockets = sockets]
           y == [f EXCEPT !.openGen = n]
           z == [y EXCEPT !.fallbackUsed = TRUE, !.closed = TRUE]
<1>5. OpenSocket(f).w = x /\ OpenThrows(f).w = z
  BY <1>4 DEF OpenSocket, Quiet, OpenThrows, TryFallback
<1>6. /\ ~x.reconnectTimer /\ ~x.fallbackUsed /\ ~z.reconnectTimer /\ z.closed
  BY <1>4 DEF IsClient, Client
<1> HIDE DEF x, z
<1> QED
  BY <1>1, <1>2, <1>5, <1>6 DEF Trying, d, f

(* The watch: a client that is at work is the chart's, only a streamed     *)
(* context has one, and while it waits to reconnect the chart polls.       *)
ExchangeAsks ==
    \A q \in requests : q.kind = "exchange" =>
        /\ q.gen <= chart.realtimeGeneration
        /\ q.gen = chart.realtimeGeneration /\ Live => chart.ctx \in Streamed

AtWork == stream.sockets # {} \/ (stream.reconnectTimer /\ ~stream.closed)

WatchInv ==
    /\ LoadInv /\ Tidy(stream) /\ Trying(stream)
    /\ ExchangeAsks
    /\ Live /\ chart.wsActive => chart.ctx \in Streamed
    /\ AtWork => chart.wsActive
    /\ Live /\ stream.reconnectTimer => chart.rest
    /\ SilenceIsNoticed

(* A step of the client, and what the chart makes of it.                   *)
LEMMA ReactWatches ==
    ASSUME WatchInv, NEW r, Explained(stream, r), Trying(r.w), r.calls \in Calls,
           NEW time \in 1 .. now,
           Tidy(r.w), stream' = r.w, chart' = React(chart, r.calls, time),
           requests' = requests, LoadInv'
    PROVE  WatchInv'
<1> DEFINE made == r.calls
<1>0. IsChart(chart) /\ now \in Nat \ {0} /\ Tidy(stream)
  BY DEF WatchInv, LoadInv
<1>1. /\ Follows(chart', chart)
      /\ made = {} => chart' = chart
      /\ "error" \in made => ~chart'.wsActive /\ Polls(chart', chart)
      /\ "error" \notin made => chart'.wsActive = chart.wsActive
      /\ "reconnecting" \in made => Polls(chart', chart)
      /\ made = {"reconnected"} => chart'.stale = chart.stale
      /\ made = {"tick"} => IF chart.wsActive THEN Watches(chart', chart) ELSE chart' = chart
  BY <1>0, ReactDoes DEF Calls
<1>2. /\ chart'.ctx = chart.ctx /\ chart'.realtimeGeneration = chart.realtimeGeneration
      /\ Live' <=> Live
  BY <1>1 DEF Follows, SameLoad, Live, HasBars
<1>3. ExchangeAsks'
  BY <1>2 DEF WatchInv, ExchangeAsks
<1>4. (Live /\ chart.wsActive => chart.ctx \in Streamed)'
  BY <1>1, <1>2 DEF WatchInv
<1>5. Live /\ Polls(chart', chart) => chart'.rest
  BY DEF Live, Polls
<1>6. stream.sockets # {} => chart.wsActive /\ ~stream.reconnectTimer
  BY <1>0 DEF WatchInv, AtWork, Tidy
<1>7. /\ (AtWork => chart.wsActive)'
      /\ (Live /\ stream.reconnectTimer => chart.rest)'
      /\ SilenceIsNoticed'
  <2>1. CASE GivenUp(r)
    BY <1>1, <1>2, <1>5, <2>1 DEF GivenUp, AtWork, SilenceIsNoticed
  <2>2. CASE Opened(stream, r)
    <3>1. chart'.wsActive
      BY <1>1, <1>6, <2>2 DEF Opened
    <3> QED
      BY <2>2, <3>1 DEF Opened, SilenceIsNoticed
  <2>3. CASE Ticked(stream, r)
    <3>1. chart.wsActive /\ chart'.wsActive /\ Watches(chart', chart)
      BY <1>1, <1>6, <2>3 DEF Ticked
    <3>2. Live' => chart'.stale
      BY <1>2, <3>1 DEF WatchInv, Watches, Live
    <3> QED
      BY <2>3, <3>1, <3>2 DEF Ticked, SilenceIsNoticed
  <2>4. CASE Waiting(stream, r)
    <3>1. Polls(chart', chart) /\ chart'.wsActive
      BY <1>1, <1>6, <2>4 DEF Waiting
    <3> QED
      BY <1>2, <1>5, <3>1 DEF SilenceIsNoticed
  <2>5. CASE Replaced(stream, r)
    <3>1. chart' = chart /\ ~stream'.reconnectTimer
      BY <1>1, <2>5 DEF Replaced
    <3>2. Live' => chart'.rest
      BY <1>2, <2>5, <3>1 DEF Replaced, WatchInv
    <3>3. stream'.sockets # {} => chart'.wsActive
      BY <2>5, <3>1 DEF Replaced, WatchInv, AtWork
    <3> QED
      BY <3>1, <3>2, <3>3 DEF SilenceIsNoticed, AtWork
  <2>6. CASE Unmoved(stream, r)
    <3>1. chart' = chart
      BY <1>1, <2>6 DEF Unmoved
    <3>2. (AtWork => chart.wsActive)' /\ (Live /\ stream.reconnectTimer => chart.rest)'
      BY <1>2, <2>6, <3>1 DEF Unmoved, WatchInv, AtWork
    <3>3. SilenceIsNoticed'
      BY <1>2, <2>6, <3>1 DEF Unmoved, WatchInv, SilenceIsNoticed
    <3> QED
      BY <3>2, <3>3
  <2> QED
    BY <2>1, <2>2, <2>3, <2>4, <2>5, <2>6 DEF Explained
<1> QED
  BY <1>3, <1>4, <1>7 DEF WatchInv

(* A chart that is loading, off or has no candles has nothing to watch.    *)
LEMMA IdleWatches ==
    ASSUME WatchInv, LoadInv', Tidy(stream)', Trying(stream)', ~Live',
           chart'.realtimeGeneration = chart.realtimeGeneration,
           \/ stream'.sockets = {} /\ ~stream'.reconnectTimer
           \/ UNCHANGED stream /\ chart'.wsActive = chart.wsActive,
           \A q \in requests' : q \in requests \/ q.kind # "exchange"
    PROVE  WatchInv'
<1>1. ExchangeAsks'
  BY DEF WatchInv, ExchangeAsks
<1>2. (AtWork => chart.wsActive)'
  BY DEF WatchInv, AtWork
<1> QED
  BY <1>1, <1>2 DEF WatchInv, SilenceIsNoticed

(* Updates are started: the chart polls until the stream is there.         *)
LEMMA StartWatches ==
    ASSUME WatchInv, LoadInv', Tidy(stream)', Trying(stream)',
           stream'.sockets = {}, ~stream'.reconnectTimer,
           ~chart'.wsActive, Polls(chart', chart'), chart.realtimeGeneration \in Nat,
           chart'.realtimeGeneration = chart.realtimeGeneration + 1,
           \A q \in requests' : q \in requests \/ q \in Sent(chart')
    PROVE  WatchInv'
<1>1. ExchangeAsks'
  <2> SUFFICES ASSUME NEW q \in requests', q.kind = "exchange"
               PROVE  /\ q.gen <= chart'.realtimeGeneration
                      /\ q.gen = chart'.realtimeGeneration => chart'.ctx \in Streamed
    BY DEF ExchangeAsks
  <2>1. CASE q \in requests
    <3>1. q.gen <= chart.realtimeGeneration /\ q.gen \in Nat
      BY <2>1 DEF WatchInv, ExchangeAsks, LoadInv
    <3> QED
      BY <3>1
  <2>2. CASE q \in Sent(chart')
    <3>1. IsChart(chart')
      BY DEF LoadInv
    <3>2. q.gen = chart'.realtimeGeneration /\ AsksExchange(chart') /\ q.gen \in Nat
      BY <2>2, <3>1, SentIsNoLoad
    <3> QED
      BY <3>2 DEF AsksExchange
  <2> QED
    BY <2>1, <2>2
<1>2. Live' => chart'.rest
  BY DEF Live, Polls
<1> QED
  BY <1>1, <1>2 DEF WatchInv, SilenceIsNoticed, AtWork

(* The chart leaves its updates as they are.                               *)
LEMMA QuietWatches ==
    ASSUME WatchInv, LoadInv', UNCHANGED stream, SameUpdates(chart', chart),
           chart'.ctx = chart.ctx, Live' => Live,
           \A q \in requests' : q \in requests \/ q.kind # "exchange"
    PROVE  WatchInv'
<1>1. ExchangeAsks'
  BY DEF WatchInv, ExchangeAsks, SameUpdates
<1> QED
  BY <1>1 DEF WatchInv, SilenceIsNoticed, AtWork, SameUpdates

(* A reload stops the updates first.                                       *)
LEMMA ReloadWatches ==
    ASSUME WatchInv, LoadInv', Tidy(stream)', Trying(stream)', NEW k, IsChart(k),
           SameUpdates(k, chart), Reload(k)
    PROVE  WatchInv'
<1>0. Tidy(stream)
  BY DEF WatchInv
<1>1. CASE AlreadyLoading(k)
  <2>1. chart' = k /\ UNCHANGED stream /\ requests' = requests /\ k.loading
    BY <1>1 DEF Reload, streamVars, AlreadyLoading
  <2>2. ~Live'
    BY <2>1 DEF Live
  <2> QED
    BY <2>1, <2>2, IdleWatches DEF SameUpdates
<1>2. CASE ~AlreadyLoading(k)
  <2> DEFINE s == StopRealtime(k)
             x == LoadKlineData(k)
  <2>1. /\ IsChart(s) /\ SameLoad(s, k) /\ s.realtimeGeneration = k.realtimeGeneration
    BY StopRealtimeDoes
  <2>2. PICK U : s \in Charts(U)
    BY <2>1 DEF IsChart
  <2>3. x = [s EXCEPT !.loadGeneration = @ + 1, !.activeLoad = k.ctx, !.loading = TRUE]
    BY DEF LoadKlineData
  <2> HIDE DEF s, x
  <2>4. x.loading /\ x.realtimeGeneration = s.realtimeGeneration
    BY <2>2, <2>3 DEF Charts
  <2>5. chart' = x /\ requests' = requests \cup {Load(x)} /\ Disconnects
    BY <1>2 DEF Reload, x
  <2>6. stream'.sockets = {} /\ ~stream'.reconnectTimer
    BY <1>0, <2>5, ConnectDoes DEF Disconnects, Moves, Quiet
  <2>7. Load(x).kind = "load"
    BY DEF Load
  <2>8. ~Live'
    BY <2>4, <2>5 DEF Live
  <2>9. \A q \in requests' : q \in requests \/ q.kind # "exchange"
    BY <2>5, <2>7
  <2>10. chart'.realtimeGeneration = chart.realtimeGeneration
    BY <2>1, <2>4, <2>5 DEF SameUpdates
  <2> QED
    BY <2>6, <2>8, <2>9, <2>10, IdleWatches
<1> QED
  BY <1>1, <1>2

(* The watch is inductive.                                                 *)
LEMMA StepWatches ==
    ASSUME WatchInv, [Next]_vars
    PROVE  WatchInv'
<1>0. /\ IsChart(chart) /\ LoadInv /\ LoadInv' /\ Tidy(stream) /\ Tidy(stream)'
      /\ Trying(stream) /\ now \in Nat \ {0}
  BY StepLoads, StreamTidy, ChartDrivesStream DEF WatchInv, LoadInv
<1>1. Disconnects => /\ stream'.sockets = {} /\ ~stream'.reconnectTimer
                     /\ Trying(stream)'
  BY <1>0, ConnectDoes DEF Disconnects, Moves, Quiet
<1>2. UNCHANGED stream => Trying(stream)'
  BY <1>0
<1>3. ASSUME NEW k, Reload(k), IsChart(k), SameUpdates(k, chart)
      PROVE  WatchInv'
  <2>1. Trying(stream)'
    BY <1>1, <1>2, <1>3 DEF Reload, streamVars
  <2> QED
    BY <1>0, <1>3, <2>1, ReloadWatches
<1>4. ASSUME UNCHANGED stream, SameUpdates(chart', chart), SameLoad(chart', chart),
             HasBars(chart') <=> HasBars(chart),
             \A q \in requests' : q \in requests \/ q.kind # "exchange"
      PROVE  WatchInv'
  <2>1. chart'.ctx = chart.ctx /\ (Live' => Live)
    BY <1>4 DEF SameLoad, Live
  <2> QED
    BY <1>0, <1>2, <1>4, <2>1, QuietWatches
<1>5. ASSUME NEW c, SwitchContext(c)
      PROVE  WatchInv'
  <2> DEFINE k == [chart EXCEPT !.ctx = c]
  <2>1. IsChart(k) /\ SameUpdates(k, chart)
    BY <1>0, ContextOfChart
  <2>2. Reload(k)
    BY <1>5 DEF SwitchContext
  <2> HIDE DEF k
  <2> QED
    BY <1>3, <2>1, <2>2
<1>6. CASE HandleRetry
  BY <1>0, <1>3, <1>6 DEF HandleRetry, SameUpdates
<1>7. CASE EnableRealtime
  <2> DEFINE k == [chart EXCEPT !.enabled = TRUE]
  <2>1. IsChart(k) /\ k.realtimeGeneration = chart.realtimeGeneration
    BY <1>0, FieldsOfChart
  <2> HIDE DEF k
  <2>2. chart' = StartRealtime(k) /\ requests' = requests \cup Sent(chart') /\ Disconnects
    BY <1>7 DEF EnableRealtime, k
  <2>3. /\ SameLoad(chart', k) /\ SameBars(chart', k) /\ Polls(chart', k)
        /\ ~chart'.wsActive /\ k.realtimeGeneration \in Nat
        /\ chart'.realtimeGeneration = k.realtimeGeneration + 1
    BY <2>1, <2>2, StartRealtimeDoes
  <2>4. Polls(chart', chart')
    BY <2>3 DEF Polls, SameLoad, SameBars, HasBars
  <2> QED
    BY <1>0, <1>1, <2>1, <2>2, <2>3, <2>4, StartWatches
<1>8. CASE DisableRealtime
  <2> DEFINE k == [chart EXCEPT !.enabled = FALSE]
  <2>1. IsChart(k) /\ k.realtimeGeneration = chart.realtimeGeneration /\ ~k.enabled
    BY <1>0, FieldsOfChart
  <2> HIDE DEF k
  <2>2. chart' = StopRealtime(k) /\ requests' = requests /\ Disconnects
    BY <1>8 DEF DisableRealtime, k
  <2>3. ~chart'.enabled /\ chart'.realtimeGeneration = chart.realtimeGeneration
    BY <2>1, <2>2, StopRealtimeDoes DEF SameLoad
  <2>4. ~Live'
    BY <2>3 DEF Live
  <2> QED
    BY <1>0, <1>1, <2>2, <2>3, <2>4, IdleWatches
<1>9. CASE Unmount
  <2> DEFINE e == StopRealtime(chart)
  <2>1. IsChart(e) /\ e.realtimeGeneration = chart.realtimeGeneration
    BY <1>0, StopRealtimeDoes
  <2>2. chart' = [e EXCEPT !.mounted = FALSE] /\ requests' = requests /\ Disconnects
    BY <1>9 DEF Unmount
  <2> HIDE DEF e
  <2>3. ~chart'.mounted /\ chart'.realtimeGeneration = chart.realtimeGeneration
    BY <2>1, <2>2, FieldsOfChart DEF SameUpdates
  <2>4. ~Live'
    BY <2>3 DEF Live
  <2> QED
    BY <1>0, <1>1, <2>2, <2>3, <2>4, IdleWatches
<1>10. ASSUME NEW q \in requests, Loaded(q)
       PROVE  WatchInv'
  <2>1. CASE Present(q)
    <3>1. /\ requests' = (requests \ {q}) \cup Sent(chart') /\ IsChart(chart')
          /\ chart'.enabled = chart.enabled
          /\ IF chart.enabled
             THEN /\ Disconnects /\ Polls(chart', chart') /\ ~chart'.wsActive
                  /\ chart'.realtimeGeneration = chart.realtimeGeneration + 1
                  /\ chart.realtimeGeneration \in Nat
             ELSE SameUpdates(chart', chart) /\ UNCHANGED stream
      BY <1>0, <1>10, <2>1, LoadedDoes
    <3>2. CASE chart.enabled
      BY <1>0, <1>1, <3>1, <3>2, StartWatches
    <3>3. CASE ~chart.enabled
      <4>1. Sent(chart') = {} /\ ~Live'
        BY <3>1, <3>3 DEF Sent, AsksExchange, Live
      <4>2. /\ UNCHANGED stream /\ chart'.wsActive = chart.wsActive
            /\ chart'.realtimeGeneration = chart.realtimeGeneration
            /\ requests' \subseteq requests
        BY <3>1, <3>3, <4>1 DEF SameUpdates
      <4> QED
        BY <1>0, <1>2, <4>1, <4>2, IdleWatches
    <3> QED
      BY <3>2, <3>3
  <2>2. CASE ~Present(q)
    <3>1. chart' = chart /\ requests' \subseteq requests /\ UNCHANGED stream
      BY <1>10, <2>2 DEF Loaded, Present, Without, streamVars
    <3> QED
      BY <1>4, <3>1 DEF SameLoad, SameUpdates
  <2> QED
    BY <2>1, <2>2
<1>11. ASSUME NEW q \in requests, LoadFails(q)
       PROVE  WatchInv'
  <2>0. requests' = requests \ {q} /\ UNCHANGED stream
    BY <1>11 DEF LoadFails, Without
  <2>1. CASE Present(q)
    <3>1. chart' = [chart EXCEPT !.loading = FALSE, !.activeLoad = None, !.data = NoBars]
      BY <1>11, <2>1 DEF LoadFails, Present
    <3>2. PICK U : chart \in Charts(U)
      BY <1>0 DEF IsChart
    <3>3. /\ chart'.wsActive = chart.wsActive /\ chart'.data = NoBars
          /\ chart'.realtimeGeneration = chart.realtimeGeneration
      BY <3>1, <3>2 DEF Charts
    <3>4. ~Live'
      BY <3>3 DEF Live, HasBars, NoBars
    <3> QED
      BY <1>0, <1>2, <2>0, <3>3, <3>4, IdleWatches
  <2>2. CASE ~Present(q)
    <3>1. chart' = chart
      BY <1>11, <2>2 DEF LoadFails, Present
    <3> QED
      BY <1>4, <2>0, <3>1 DEF SameLoad, SameUpdates
  <2> QED
    BY <2>1, <2>2
<1>12. ASSUME NEW q \in requests, Fetched(q)
       PROVE  WatchInv'
  <2>1. PICK time \in q.at .. now :
             chart' = [Merged(chart, q.ctx, time) EXCEPT !.fetching = FALSE]
    BY <1>12 DEF Fetched
  <2>2. time \in Nat /\ time <= now /\ requests' \subseteq requests /\ UNCHANGED stream
    BY <1>0, <1>12 DEF LoadInv, Fetched, Without, streamVars
  <2> DEFINE k == Merged(chart, q.ctx, time)
  <2>3. /\ IsChart(k) /\ SameLoad(k, chart) /\ SameUpdates(k, chart)
        /\ HasBars(k) <=> HasBars(chart)
    BY <1>0, <2>2, MergedDoes
  <2> HIDE DEF k
  <2>4. SameLoad(chart', k) /\ SameBars(chart', k) /\ SameUpdates(chart', k)
    BY <2>1, <2>3, FieldsOfChart DEF k
  <2>5. SameLoad(chart', chart) /\ SameUpdates(chart', chart)
    BY <2>3, <2>4 DEF SameLoad, SameUpdates
  <2>6. HasBars(chart') <=> HasBars(chart)
    BY <2>3, <2>4 DEF SameBars, HasBars
  <2> QED
    BY <1>4, <2>2, <2>5, <2>6
<1>13. ASSUME NEW q \in requests, ExchangeKnown(q)
       PROVE  WatchInv'
  <2>0. requests' = requests \ {q}
    BY <1>13 DEF ExchangeKnown, Without
  <2>1. CASE chart' = chart /\ UNCHANGED stream
    BY <1>4, <2>0, <2>1 DEF SameLoad, SameUpdates
  <2>2. CASE /\ q.kind = "exchange" /\ q.gen = chart.realtimeGeneration
             /\ \/ chart' = Streaming(chart) /\ Connects(chart.ctx)
                \/ chart' = Streaming(HandleWsError(chart)) /\ ConnectFails(chart.ctx)
    <3>1. PICK e : /\ Follows(e, chart) /\ chart' = Streaming(e)
      <4>1. Follows(chart, chart)
        BY <1>0, SameBarsFollows DEF SameLoad, SameBars
      <4>2. Follows(HandleWsError(chart), chart)
        BY <1>0, HandleWsErrorDoes
      <4> QED
        BY <2>2, <4>1, <4>2
    <3>2. /\ SameLoad(chart', e) /\ SameBars(chart', e) /\ Watches(chart', e)
          /\ chart'.wsActive /\ chart'.realtimeGeneration = e.realtimeGeneration
      BY <3>1, StreamingDoes DEF Follows
    <3>3. /\ chart'.ctx = chart.ctx /\ chart'.enabled = chart.enabled
          /\ chart'.realtimeGeneration = chart.realtimeGeneration
          /\ Live' <=> Live
      BY <3>1, <3>2 DEF Follows, SameLoad, SameBars, HasBars, Live
    <3>4. ~stream'.reconnectTimer /\ Trying(stream)'
      BY <1>0, <2>2, ConnectDoes DEF Connects, ConnectFails, Moves, Fails
    <3>5. Live => chart.ctx \in Streamed
      BY <2>2 DEF WatchInv, ExchangeAsks
    <3>6. Live' => chart'.stale /\ chart'.ctx \in Streamed
      BY <3>1, <3>2, <3>3, <3>5 DEF Follows, SameLoad, Watches, Live
    <3>7. ExchangeAsks'
      BY <2>0, <3>3 DEF WatchInv, ExchangeAsks
    <3> QED
      BY <1>0, <3>2, <3>4, <3>6, <3>7 DEF WatchInv, SilenceIsNoticed
  <2> QED
    BY <1>13, <2>1, <2>2 DEF ExchangeKnown, streamVars
<1>14. ASSUME NEW q \in requests, FetchFails(q)
       PROVE  WatchInv'
  <2>1. /\ chart' = [chart EXCEPT !.fetching = FALSE] /\ requests' \subseteq requests
        /\ UNCHANGED stream
    BY <1>14 DEF FetchFails, Without
  <2>2. SameLoad(chart', chart) /\ SameBars(chart', chart) /\ SameUpdates(chart', chart)
    BY <1>0, <2>1, FieldsOfChart
  <2> QED
    BY <1>4, <2>1, <2>2 DEF SameBars, HasBars
<1>15. CASE RestTick
  <2>1. /\ chart' = [chart EXCEPT !.fetching = TRUE] /\ UNCHANGED stream
        /\ requests' = requests \cup {Fetch(chart)}
    BY <1>15 DEF RestTick, streamVars
  <2>2. Fetch(chart).kind # "exchange"
    BY DEF Fetch
  <2>3. SameLoad(chart', chart) /\ SameBars(chart', chart) /\ SameUpdates(chart', chart)
    BY <1>0, <2>1, FieldsOfChart
  <2> QED
    BY <1>4, <2>1, <2>2, <2>3 DEF SameBars, HasBars
<1>16. CASE StaleFires
  <2> DEFINE f == [chart EXCEPT !.stale = FALSE]
  <2>1. /\ requests' = requests /\ UNCHANGED stream
        /\ chart' = IF chart.wsActive /\ chart.enabled /\ HasBars(chart)
                    THEN StartRestPolling(f) ELSE f
    BY <1>16 DEF StaleFires, streamVars
  <2>2. /\ IsChart(f) /\ SameLoad(f, chart) /\ SameBars(f, chart) /\ f.rest = chart.rest
        /\ f.wsActive = chart.wsActive
        /\ f.realtimeGeneration = chart.realtimeGeneration
    BY <1>0, FieldsOfChart
  <2> HIDE DEF f
  <2>3. /\ SameLoad(StartRestPolling(f), f) /\ SameBars(StartRestPolling(f), f)
        /\ Polls(StartRestPolling(f), f)
        /\ StartRestPolling(f).wsActive = f.wsActive
        /\ StartRestPolling(f).realtimeGeneration = f.realtimeGeneration
    BY <2>2, StartRestPollingDoes
  <2>4. /\ chart'.ctx = chart.ctx /\ chart'.wsActive = chart.wsActive
        /\ chart'.realtimeGeneration = chart.realtimeGeneration
        /\ Live' <=> Live
    BY <2>1, <2>2, <2>3 DEF SameLoad, SameBars, HasBars, Live
  <2>5. Live => chart'.rest
    <3>1. CASE chart.wsActive /\ chart.enabled /\ HasBars(chart)
      BY <2>1, <2>2, <2>3, <3>1 DEF Polls, SameLoad, SameBars, HasBars
    <3>2. CASE ~(chart.wsActive /\ chart.enabled /\ HasBars(chart))
      BY <2>1, <2>2, <3>2 DEF WatchInv, SilenceIsNoticed, Live
    <3> QED
      BY <3>1, <3>2
  <2>6. ExchangeAsks'
    BY <2>1, <2>4 DEF WatchInv, ExchangeAsks
  <2> QED
    BY <1>0, <1>2, <2>1, <2>4, <2>5, <2>6 DEF WatchInv, SilenceIsNoticed, AtWork
<1>17. CASE ResyncFires
  <2> DEFINE f == [chart EXCEPT !.resync = FALSE]
  <2>1. IsChart(f) /\ SameLoad(f, chart) /\ SameBars(f, chart) /\ SameUpdates(f, chart)
    BY <1>0, FieldsOfChart
  <2>2. Reload(f) \/ (chart' = f /\ requests' = requests /\ UNCHANGED stream)
    BY <1>17 DEF ResyncFires, streamVars
  <2> HIDE DEF f
  <2> QED
    BY <1>3, <1>4, <2>1, <2>2 DEF SameBars, HasBars
<1>18. CASE SocketSpeaks \/ StreamTimerFires \/ StreamFails
  <2> PICK r \in SocketMoves \cup TimerMoves \cup FailedMoves, time \in 1 .. now :
           ReactsTo(r, time) /\ stream' = r.w
    BY <1>18 DEF SocketSpeaks, StreamTimerFires, StreamFails, Reacts, Moves, Fails
  <2>1. chart' = React(chart, r.calls, time) /\ requests' = requests
    BY DEF ReactsTo
  <2>2. Explained(stream, r) /\ Trying(r.w) /\ Tidy(r.w) /\ r.calls \in Calls
    BY <1>0, MovesExplained, MovesTidy, CallsKnown
  <2> QED
    BY <1>0, <2>1, <2>2, ReactWatches
<1>19. CASE NewCandle \/ UNCHANGED vars
  <2>1. chart' = chart /\ requests' = requests /\ UNCHANGED stream
    BY <1>19 DEF NewCandle, vars, streamVars
  <2> QED
    BY <1>4, <2>1 DEF SameLoad, SameUpdates
<1>20. (Answers \/ Failures) => WatchInv'
  BY <1>10, <1>11, <1>12, <1>13, <1>14 DEF Answers, Failures, Settle
<1> QED
  BY <1>5, <1>6, <1>7, <1>8, <1>9, <1>15, <1>16, <1>17, <1>18, <1>19, <1>20 DEF Next

(* Whatever the stream does, something is set that will notice when it     *)
(* goes silent: the polling, the watchdog, or the stream's own timer.      *)
THEOREM SilenceNoticed == Spec => []SilenceIsNoticed
<1>1. Init => WatchInv
  <2> SUFFICES ASSUME Init PROVE WatchInv
    OBVIOUS
  <2>1. LoadInv /\ Tidy(stream)
    BY InitLoads, InitTidy DEF Init
  <2>2. /\ stream.sockets = {} /\ ~stream.reconnectTimer /\ ~stream.fallbackUsed
        /\ ~stream.gotData /\ stream.dataTimeouts = {}
    BY DEF Init, StreamInit, Idle
  <2>3. chart.loading
    BY InitLoads
  <2>5. Trying(stream)
    BY <2>2 DEF Trying
  <2>4. requests = {Load(chart)} /\ Load(chart).kind = "load"
    BY DEF Init, Load
  <2> QED
    BY <2>1, <2>2, <2>3, <2>4, <2>5
       DEF WatchInv, ExchangeAsks, Live, SilenceIsNoticed, AtWork
<1>2. WatchInv /\ [Next]_vars => WatchInv'
  BY StepWatches
<1>3. WatchInv => SilenceIsNoticed
  BY DEF WatchInv
<1> QED
  BY <1>1, <1>2, <1>3, PTL DEF Spec
=============================================================================
