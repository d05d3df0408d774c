----------------------------- MODULE KlineStream -----------------------------
(***************************************************************************)
(* utils/exchangeWs.js, ExchangeKlineWs: one client of an exchange's       *)
(* candle stream.  It opens a WebSocket, gives up when it does not open or *)
(* stays silent, and reopens one that was closed.  Everything a socket or  *)
(* a timer does carries the generation (_openGen) it was created in.       *)
(*                                                                         *)
(* An operation maps the client's state to [w |-> its next state,          *)
(* calls |-> the callbacks it makes, in order].                            *)
(***************************************************************************)
EXTENDS Naturals, FiniteSets

CONSTANTS
    Contexts,               \* the symbols a client can be connected to
    None,
    MaxReconnectAttempts,   \* _maxReconnectAttempts
    MaxFaults               \* bound: sockets that fail, and failed requests

ASSUME AttemptsAssumption == MaxReconnectAttempts \in Nat

VARIABLES
    stream,     \* the client's fields, its sockets and its timers
    faults

streamVars == <<stream, faults>>

(* ws is the generation of this._ws, 0 for null; sockets are those the     *)
(* browser has not closed; dataTimeouts those not cleared, of which the    *)
(* client remembers dataTimeout.                                           *)
Idle ==
    [closed |-> FALSE, openGen |-> 0, ws |-> 0, sockets |-> {},
     symbol |-> None, everConnected |-> FALSE, fallbackUsed |-> FALSE,
     gotData |-> FALSE, attempts |-> 0, reconnectTimer |-> FALSE,
     connectTimeout |-> 0, dataTimeout |-> 0, dataTimeouts |-> {}]

Quiet(w) == [w |-> w, calls |-> {}]

Socket(g, open) == [gen |-> g, open |-> open]
Drop(sockets, g) == {s \in sockets : s.gen # g}
-----------------------------------------------------------------------------
TryFallback(w) ==
    [w |-> [w EXCEPT !.fallbackUsed = TRUE, !.closed = TRUE],
     calls |-> {"error"}]

(* Mutant: the reconnect of the former connection is still to come.        *)
DisconnectReconnecting(w) ==
    [w EXCEPT !.closed = TRUE, !.openGen = @ + 1,
              !.connectTimeout = 0,
              !.dataTimeouts = @ \ {w.dataTimeout}, !.dataTimeout = 0,
              !.sockets = Drop(@, w.ws), !.ws = 0]

Disconnect(w) ==
    [w EXCEPT !.closed = TRUE, !.openGen = @ + 1,
              !.reconnectTimer = FALSE, !.connectTimeout = 0,
              !.dataTimeouts = @ \ {w.dataTimeout}, !.dataTimeout = 0,
              !.sockets = Drop(@, w.ws), !.ws = 0]

(* _open, when the constructor of the socket returns and when it throws.   *)
OpenSocket(w) ==
    IF w.closed THEN Quiet(w)
    ELSE LET g == w.openGen + 1 IN
         Quiet([w EXCEPT !.openGen = g, !.ws = g, !.connectTimeout = g,
                         !.sockets = @ \cup {Socket(g, FALSE)}])

OpenThrows(w) ==
    IF w.closed THEN Quiet(w)
    ELSE TryFallback([w EXCEPT !.openGen = @ + 1])

Connecting(w, symbol) ==
    [Disconnect(w) EXCEPT !.closed = FALSE, !.everConnected = FALSE,
                          !.fallbackUsed = FALSE, !.attempts = 0,
                          !.symbol = symbol]

ScheduleReconnect(w, made) ==
    IF w.attempts + 1 > MaxReconnectAttempts
    THEN [w |-> [w EXCEPT !.attempts = @ + 1], calls |-> made \cup {"error"}]
    ELSE [w |-> [w EXCEPT !.attempts = @ + 1, !.reconnectTimer = TRUE],
          calls |-> made]
-----------------------------------------------------------------------------
(* The handlers of a socket of generation g.                               *)
OnOpen(w, g) ==
    LET opened == [w EXCEPT !.sockets = Drop(@, g) \cup {Socket(g, TRUE)}]
    IN  IF g # w.openGen THEN Quiet(opened)
        ELSE [w |-> [opened EXCEPT
                  !.connectTimeout = 0, !.everConnected = TRUE,
                  !.attempts = 0, !.gotData = FALSE,
                  !.dataTimeout = IF w.fallbackUsed THEN @ ELSE g,
                  !.dataTimeouts = IF w.fallbackUsed THEN @ ELSE @ \cup {g}],
              calls |-> IF w.everConnected THEN {"reconnected"} ELSE {}]

OnClose(w, g) ==
    LET dropped == [w EXCEPT !.sockets = Drop(@, g)]
        settled == [dropped EXCEPT !.connectTimeout = 0]
    IN  IF g # w.openGen THEN Quiet(dropped)
        ELSE IF w.closed THEN Quiet(settled)
        ELSE IF ~w.everConnected /\ ~w.fallbackUsed THEN TryFallback(settled)
        ELSE ScheduleReconnect(settled,
                 IF w.everConnected THEN {"reconnecting"} ELSE {})

OnMessage(w, g) ==
    IF g # w.openGen THEN Quiet(w)
    ELSE [w |-> [w EXCEPT !.gotData = TRUE,
                     !.dataTimeouts = IF w.gotData THEN @
                                      ELSE @ \ {w.dataTimeout},
                     !.dataTimeout = IF w.gotData THEN @ ELSE 0],
          calls |-> {"tick"}]

(* The timers: eight seconds to open, twelve to the first candle, and the  *)
(* growing delay before a closed socket is replaced.                       *)
ConnectTimeoutFires(w, g) ==
    LET fired == [w EXCEPT !.connectTimeout = 0] IN
    IF g = w.openGen /\ w.ws # 0 /\ Socket(w.ws, TRUE) \notin w.sockets
    THEN TryFallback([fired EXCEPT !.sockets = Drop(@, w.ws), !.ws = 0])
    ELSE Quiet(fired)

DataTimeoutFires(w, g) ==
    LET fired == [w EXCEPT !.dataTimeouts = @ \ {g}] IN
    IF g = w.openGen /\ ~w.gotData /\ ~w.closed
    THEN TryFallback([fired EXCEPT !.sockets = Drop(@, w.ws), !.ws = 0])
    ELSE Quiet(fired)

ReconnectFires(w) == [w EXCEPT !.reconnectTimer = FALSE]
-----------------------------------------------------------------------------
(* What may happen to the client next: its socket talks, a timer fires, or *)
(* something fails.  Its owner connects and disconnects it.                *)
SocketMoves ==
    {OnOpen(stream, s.gen) : s \in {x \in stream.sockets : ~x.open}}
    \cup {OnMessage(stream, s.gen) : s \in {x \in stream.sockets : x.open}}

TimerMoves ==
    {ConnectTimeoutFires(stream, g) : g \in {stream.connectTimeout} \ {0}}
    \cup {DataTimeoutFires(stream, g) : g \in stream.dataTimeouts}
    \cup IF stream.reconnectTimer THEN {OpenSocket(ReconnectFires(stream))}
         ELSE {}

FailedMoves ==
    {OnClose(stream, s.gen) : s \in stream.sockets}
    \cup IF stream.reconnectTimer THEN {OpenThrows(ReconnectFires(stream))}
         ELSE {}

Moves(r) == stream' = r.w /\ UNCHANGED faults
Fault == faults < MaxFaults /\ faults' = faults + 1
Fails(r) == stream' = r.w /\ Fault

Connects(c) == Moves(OpenSocket(Connecting(stream, c)))
ConnectFails(c) == Fails(OpenThrows(Connecting(stream, c)))
Disconnects == Moves(Quiet(Disconnect(stream)))

StreamInit == stream = Idle /\ faults = 0

StreamNext ==
    \/ \E c \in Contexts : Connects(c) \/ ConnectFails(c)
    \/ Disconnects
    \/ \E r \in SocketMoves \cup TimerMoves : Moves(r)
    \/ \E r \in FailedMoves : Fails(r)

StreamSpec == StreamInit /\ [][StreamNext]_streamVars
-----------------------------------------------------------------------------
(* However connects, disconnects, closures and timers follow one another,  *)
(* the browser holds at most the socket of the present connection: none is *)
(* left open behind it, and none at all once the client is closed.         *)
OneSocket ==
    \A s \in stream.sockets :
        ~stream.closed /\ s.gen = stream.openGen /\ stream.ws = s.gen
=============================================================================
