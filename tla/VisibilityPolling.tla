-------------------------- MODULE VisibilityPolling --------------------------
(***************************************************************************)
(* utils/visibilityPolling.js, createVisibilityPolling: a task repeated    *)
(* at an interval while the page can be seen.                              *)
(***************************************************************************)
CONSTANTS
    Immediate,          \* options.immediate
    RunWhenHidden,      \* options.runWhenHidden
    ImmediateOnVisible  \* options.immediateOnVisible

ASSUME OptionsAssumption ==
    Immediate \in BOOLEAN /\ RunWhenHidden \in BOOLEAN
    /\ ImmediateOnVisible \in BOOLEAN

VARIABLES
    poller,     \* stopped, listening, running and timer
    hidden      \* document.hidden

pollVars == <<poller, hidden>>

Created == [stopped |-> TRUE, listening |-> FALSE, running |-> FALSE, timer |-> FALSE]

PollInit == poller = Created /\ hidden \in BOOLEAN

Suspended(h) == ~RunWhenHidden /\ h

(* tick and schedule, when the page is hidden as h says.                   *)
Ticks(p, h) == ~p.stopped /\ ~p.running /\ ~Suspended(h)
Tick(p, h) == [p EXCEPT !.running = @ \/ Ticks(p, h)]
Schedule(p, h) == [p EXCEPT !.timer = ~Suspended(h)]

(* Mutant: the interval is left to the first turn of the page.             *)
StartedUnscheduled(p, h) ==
    LET started == [p EXCEPT !.stopped = FALSE, !.listening = TRUE]
    IN  IF Immediate THEN Tick(started, h) ELSE started

Started(p, h) ==
    LET started == Schedule([p EXCEPT !.stopped = FALSE, !.listening = TRUE], h)
    IN  IF Immediate THEN Tick(started, h) ELSE started

Start ==
    /\ poller.stopped
    /\ poller' = Started(poller, hidden)
    /\ UNCHANGED hidden

Stop ==
    /\ poller' = [poller EXCEPT !.stopped = TRUE, !.timer = FALSE,
                                !.listening = FALSE]
    /\ UNCHANGED hidden

(* Mutant: a page that is shown again is not polled until a restart.       *)
HandleVisibilityOnce(p, h) ==
    IF p.stopped THEN p
    ELSE IF Suspended(h) THEN [p EXCEPT !.timer = FALSE]
    ELSE IF ImmediateOnVisible THEN Tick(p, h) ELSE p

HandleVisibility(p, h) ==
    IF p.stopped THEN p
    ELSE IF Suspended(h) THEN [p EXCEPT !.timer = FALSE]
    ELSE IF ImmediateOnVisible THEN Tick(Schedule(p, h), h) ELSE Schedule(p, h)

(* The browser turns the page over and calls who listens in one task.      *)
VisibilityChange ==
    /\ hidden' = ~hidden
    /\ poller' = IF poller.listening THEN HandleVisibility(poller, hidden')
                 ELSE poller

TimerFires ==
    /\ poller.timer
    /\ poller' = Tick(poller, hidden)
    /\ UNCHANGED hidden

TaskSettles ==
    /\ poller.running
    /\ poller' = [poller EXCEPT !.running = FALSE]
    /\ UNCHANGED hidden

PollNext == Start \/ Stop \/ VisibilityChange \/ TimerFires \/ TaskSettles
PollSpec == PollInit /\ [][PollNext]_pollVars
-----------------------------------------------------------------------------
PollTypeOK ==
    /\ poller \in [stopped : BOOLEAN, listening : BOOLEAN, running : BOOLEAN,
                   timer : BOOLEAN]
    /\ hidden \in BOOLEAN

(* However starts, stops and turns of the page follow one another, the     *)
(* timer runs exactly while the poller is started and the page is one it   *)
(* may poll on: no timer is left behind, none is missing.                  *)
PollsWhileSeen == poller.timer <=> ~poller.stopped /\ ~Suspended(hidden)
=============================================================================
