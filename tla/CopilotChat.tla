----------------------------- MODULE CopilotChat -----------------------------
(***************************************************************************)
(* views/ai-analysis/components/CopilotWorkbench.vue: a message the user   *)
(* sends to the AI copilot, from sendMessage to its reply, while           *)
(* conversations are opened, begun and deleted; with the chat routes of    *)
(* the gateway it posts to.                                                *)
(*                                                                         *)
(* A turn is one call of sendMessage or retryProfessionalAnalysis: the     *)
(* chain of its awaits, of which one is under way.                         *)
(***************************************************************************)
EXTENDS Naturals, Sequences, FiniteSets

CONSTANTS
    None,
    Tasks,      \* the pendingAgentTask types sendMessage looks at, of
                \* "monitor_setup", "market_diagnosis" and "strategy_design"
    MaxTurns,   \* bound: messages sent and reports retried
    MaxClicks,  \* bound: conversations opened, begun or deleted, tasks chosen
    MaxFaults   \* bound: requests that fail

ASSUME TasksAssumption ==
    Tasks \subseteq {"monitor_setup", "market_diagnosis", "strategy_design"}
ASSUME BoundAssumption == MaxTurns \in Nat

VARIABLES
    view,       \* sessionId, messages, sending and pendingAgentTask
    turns,      \* the turns, by number
    lookups,    \* chat/history and delete requests not answered
    handlers,   \* chat requests the gateway works on
    store,      \* qd_ai_copilot_sessions and qd_ai_copilot_messages
    clicks,
    faults

vars == <<view, turns, lookups, handlers, store, clicks, faults>>

Fault == faults < MaxFaults /\ faults' = faults + 1
-----------------------------------------------------------------------------
(* The gateway.  A session that is not given or not found is created.      *)
Inserted(db, session, t, role, via) ==
    LET s == IF session \in db.sessions THEN session ELSE db.next IN
    [sessions |-> db.sessions \cup {s},
     next     |-> IF s = db.next THEN s + 1 ELSE db.next,
     rows     |-> db.rows \cup
                    {[turn |-> t, role |-> role, via |-> via, session |-> s]}]

SessionFor(db, session) == IF session \in db.sessions THEN session ELSE db.next

Moved(h, phase) == (handlers \ {h}) \cup {[h EXCEPT !.phase = phase]}

(* chat_message and chat_message_stream: the request is refused, or the    *)
(* user's message is committed before the model is asked.                  *)
Refuse(h) ==
    /\ h.phase = "posted"
    /\ handlers' = Moved(h, "refused")
    /\ Fault /\ UNCHANGED <<view, turns, lookups, store, clicks>>

Accept(h) ==
    /\ h.phase = "posted"
    /\ store' = Inserted(store, h.session, h.turn, "user", h.via)
    /\ handlers' = (handlers \ {h}) \cup
          {[h EXCEPT !.phase = "accepted",
                     !.session = SessionFor(store, h.session)]}
    /\ UNCHANGED <<view, turns, lookups, clicks, faults>>

Reply(h) ==
    /\ h.phase = "accepted"
    /\ store' = IF h.session \in store.sessions
                THEN Inserted(store, h.session, h.turn, "assistant", h.via)
                ELSE store
    /\ handlers' = Moved(h, IF h.session \in store.sessions THEN "replied"
                            ELSE "broken")
    /\ UNCHANGED <<view, turns, lookups, clicks, faults>>

Break(h) ==
    /\ h.phase = "accepted"
    /\ handlers' = Moved(h, "broken")
    /\ Fault /\ UNCHANGED <<view, turns, lookups, store, clicks>>
-----------------------------------------------------------------------------
(* The messages on the screen.  Those a history brought are "stored" and   *)
(* are not the objects a turn holds: what it writes to those is not seen.  *)
Bubble(t, role, state) == [turn |-> t, role |-> role, state |-> state]
Mine(v, t) ==
    {b \in v.messages : b.turn = t /\ b.role = "assistant" /\ b.state # "stored"}

Push(v, t, role, state) ==
    [v EXCEPT !.messages = @ \cup {Bubble(t, role, state)}]
Write(v, t, state) ==
    IF Mine(v, t) = {} THEN v
    ELSE [v EXCEPT !.messages = (@ \ Mine(v, t))
                                  \cup {Bubble(t, "assistant", state)}]
ReplacePendingAssistant(v, t, state) ==
    [v EXCEPT !.messages = (@ \ Mine(v, t)) \cup {Bubble(t, "assistant", state)}]

Released(v) == [v EXCEPT !.sending = FALSE]

Active == {t \in DOMAIN turns : turns[t].at # "ended"}
At(where) == {t \in DOMAIN turns : turns[t].at = where}

(* A turn: what it awaits, the messages it has still to save and what it   *)
(* does then, the tasks it clears, what it heard of its stream, the bubble *)
(* it writes to.                                                           *)
Turn(t, at) ==
    [at |-> at, saves |-> <<>>, after |-> "end", session |-> None,
     clears |-> {}, heard |-> {}, bubble |-> t,
     clean |-> Active = {} /\ lookups = {}, failed |-> FALSE]

Becomes(t, turn) == turns' = [turns EXCEPT ![t] = turn]

(* Mutant: a turn that ends keeps the messages it was to save.             *)
EndedUnreset(turn) == [turn EXCEPT !.at = "ended"]

Ended(turn) == [turn EXCEPT !.at = "ended", !.saves = <<>>, !.after = "end",
                            !.session = None, !.clears = {}]
Failed(turn) == [turn EXCEPT !.failed = TRUE]

(* Await the save of the roles, then of what comes after.                  *)
Saving(turn, roles, after, session) ==
    [turn EXCEPT !.at = "save", !.saves = roles, !.after = after,
                 !.session = session]

Posted(t, via, v) ==
    [turn |-> t, via |-> via, session |-> v.session, phase |-> "posted"]

Quietly == UNCHANGED <<lookups, handlers, store, clicks, faults>>
-----------------------------------------------------------------------------
(* sendMessage up to its first await.                                      *)
Send ==
    LET t == Len(turns) + 1
        pushed == Push([view EXCEPT !.sending = TRUE], t, "user", "shown")
        begins(v, turn) == view' = v /\ turns' = Append(turns, turn) /\ Quietly
    IN  /\ t <= MaxTurns /\ ~view.sending
        /\ \/ /\ view.task = "monitor_setup"
              /\ begins(Push(pushed, t, "assistant", "done"),
                        Saving(Turn(t, "save"), <<"user", "assistant">>, "end",
                               view.session))
           \/ /\ view.task = "market_diagnosis"
              /\ begins(Push(pushed, t, "assistant", "loading"),
                        Turn(t, "report"))
           \/ /\ view.task = "strategy_design"
              /\ begins(pushed, Saving(Turn(t, "save"), <<"user">>, "draft",
                                       view.session))
           \/ /\ view.task = None
              /\ begins(pushed, Turn(t, "intent"))

(* retryProfessionalAnalysis, of the report a turn failed to get.          *)
RetryReport ==
    /\ Len(turns) < MaxTurns
    /\ \E b \in view.messages :
          /\ b.state = "no report"
          /\ view' = [Write(view, b.turn, "loading") EXCEPT !.sending = TRUE]
          /\ turns' = Append(
                [t \in DOMAIN turns |-> [turns[t] EXCEPT !.clean = FALSE]],
                [Turn(b.turn, "retry") EXCEPT !.clean = FALSE])
    /\ Quietly
-----------------------------------------------------------------------------
(* persistCopilotMessage is answered; one that fails is not tried again,   *)
(* whether or not the gateway committed it.                                *)
SavesNext(v, t, turn) ==
    IF Len(turn.saves) > 1
    THEN /\ view' = v
         /\ Becomes(t, Saving(turn, Tail(turn.saves), turn.after, v.session))
    ELSE IF turn.after = "draft"
    THEN /\ view' = Push(v, t, "assistant", "loading")
         /\ Becomes(t, [turn EXCEPT !.at = "draft", !.saves = <<>>])
    ELSE /\ view' = Released([v EXCEPT !.task = IF @ \in turn.clears THEN None
                                                ELSE @])
         /\ Becomes(t, Ended(turn))

(* Mutant: the session a message was saved in is not remembered.           *)
SavedForgotten(t) ==
    LET turn == turns[t] IN
    /\ store' = Inserted(store, turn.session, t, Head(turn.saves), "local")
    /\ SavesNext(view, t, turn)
    /\ UNCHANGED <<lookups, handlers, clicks, faults>>

Saved(t) ==
    LET turn == turns[t] IN
    /\ store' = Inserted(store, turn.session, t, Head(turn.saves), "local")
    /\ SavesNext([view EXCEPT !.session = SessionFor(store, turn.session)],
                 t, turn)
    /\ UNCHANGED <<lookups, handlers, clicks, faults>>

SaveFails(t) ==
    LET turn == turns[t] IN
    /\ \/ UNCHANGED store
       \/ store' = Inserted(store, turn.session, t, Head(turn.saves), "local")
    /\ SavesNext(view, t, Failed(turn))
    /\ Fault /\ UNCHANGED <<lookups, handlers, clicks>>
-----------------------------------------------------------------------------
(* executeProfessionalAnalysis and the retry.                              *)
ReportArrives(t) ==
    /\ view' = Write(view, t, "done")
    /\ Becomes(t, [Saving(turns[t], <<"user", "assistant">>, "end",
                          view.session)
                   EXCEPT !.clears = {"market_diagnosis"}])
    /\ Quietly

(* Mutant: the report that failed goes on loading.                         *)
ReportFailsLoading(t) ==
    /\ view' = Released([view EXCEPT !.task =
                             IF @ = "market_diagnosis" THEN None ELSE @])
    /\ Becomes(t, Ended(Failed(turns[t])))
    /\ Fault /\ UNCHANGED <<lookups, handlers, store, clicks>>

ReportFails(t) ==
    /\ view' = Released([Write(view, t, "no report") EXCEPT !.task =
                             IF @ = "market_diagnosis" THEN None ELSE @])
    /\ Becomes(t, Ended(Failed(turns[t])))
    /\ Fault /\ UNCHANGED <<lookups, handlers, store, clicks>>

RetryArrives(t) ==
    /\ view' = Released(Write(view, turns[t].bubble, "done"))
    /\ Becomes(t, Ended(turns[t]))
    /\ Quietly

RetryFails(t) ==
    /\ view' = Released(Write(view, turns[t].bubble, "no report"))
    /\ Becomes(t, Ended(Failed(turns[t])))
    /\ Fault /\ UNCHANGED <<lookups, handlers, store, clicks>>

(* generateStrategyV2Draft and generateChartIndicatorDraft, after which    *)
(* the task is cleared.                                                    *)
DraftArrives(t) ==
    /\ view' = Write(view, t, "done")
    /\ Becomes(t, [Saving(turns[t], <<"assistant">>, "end", view.session)
                   EXCEPT !.clears = Tasks \cup {"strategy_design"}])
    /\ Quietly

DraftFails(t) ==
    /\ view' = Released([Write(view, t, "failed") EXCEPT !.task = None])
    /\ Becomes(t, Ended(Failed(turns[t])))
    /\ Fault /\ UNCHANGED <<lookups, handlers, store, clicks>>
-----------------------------------------------------------------------------
(* handleBackendAgentIntent, loadAgentPreflight and resolveMessageSymbol;  *)
(* one that fails is passed over.                                          *)
IntentKnown(t) ==
    /\ \/ /\ view' = Push([view EXCEPT !.task = "strategy_design"], t,
                          "assistant", "loading")
          /\ Becomes(t, [turns[t] EXCEPT !.at = "draft"])
       \/ /\ view' = Released(Push(view, t, "assistant", "done"))
          /\ Becomes(t, Ended(turns[t]))
       \/ /\ Becomes(t, [turns[t] EXCEPT !.at = "preflight"])
          /\ UNCHANGED view
    /\ Quietly

PreflightKnown(t) ==
    /\ \/ /\ view' = Push(view, t, "assistant", "done")
          /\ Becomes(t, Saving(turns[t], <<"assistant">>, "end", view.session))
       \/ /\ view' = Push(view, t, "assistant", "loading")
          /\ Becomes(t, [turns[t] EXCEPT !.at = "resolve"])
    /\ Quietly

Chat(t, via, turn) ==
    /\ Becomes(t, [turn EXCEPT !.at = via])
    /\ handlers' = handlers \cup {Posted(t, via, view)}

(* A message about a monitor is not streamed.                              *)
Resolved(t) ==
    /\ Chat(t, "stream", turns[t]) \/ Chat(t, "json", turns[t])
    /\ UNCHANGED <<view, lookups, store, clicks, faults>>
-----------------------------------------------------------------------------
(* sendMessageStream reads the events in the order they were sent.         *)
HeardAccepted(t, h) ==
    /\ h.phase \in {"accepted", "replied", "broken"}
    /\ turns[t].heard = {}
    /\ view' = [view EXCEPT !.session = h.session]
    /\ Becomes(t, [turns[t] EXCEPT !.heard = {"accepted"}])
    /\ Quietly

HeardContent(t, h) ==
    /\ h.phase \in {"accepted", "replied", "broken"}
    /\ turns[t].heard = {"accepted"}
    /\ view' = Write(view, t, "partial")
    /\ Becomes(t, [turns[t] EXCEPT !.heard = @ \cup {"content"}])
    /\ Quietly

(* Mutant: a completed stream does not release the composer.               *)
HeardDoneLocked(t, h) ==
    /\ h.phase = "replied" /\ turns[t].heard # {}
    /\ view' = [Write(view, t, IF "content" \in turns[t].heard
                               THEN "done" ELSE "failed")
                EXCEPT !.session = h.session]
    /\ Becomes(t, Ended(turns[t]))
    /\ Quietly

HeardDone(t, h) ==
    /\ h.phase = "replied" /\ turns[t].heard # {}
    /\ view' = Released([Write(view, t, IF "content" \in turns[t].heard
                                        THEN "done" ELSE "failed")
                         EXCEPT !.session = h.session])
    /\ Becomes(t, Ended(turns[t]))
    /\ Quietly

(* Mutant: any stream that failed is sent again.                           *)
StreamThrowsAnyway(t) ==
    /\ view' = Write(view, t, "loading")
    /\ Chat(t, "json", Failed(turns[t]))

(* The catch of sendMessage: a stream that was accepted is not sent again. *)
StreamThrows(t) ==
    IF turns[t].heard # {}
    THEN /\ view' = Released(Write(view, t, "failed"))
         /\ Becomes(t, Ended(Failed(turns[t])))
         /\ UNCHANGED handlers
    ELSE /\ view' = Write(view, t, "loading")
         /\ Chat(t, "json", Failed(turns[t]))

HeardError(t, h) ==
    /\ h.phase = "refused" \/ (h.phase = "broken" /\ turns[t].heard # {})
    /\ StreamThrows(t)
    /\ UNCHANGED <<lookups, store, clicks, faults>>

StreamDrops(t) ==
    /\ StreamThrows(t)
    /\ Fault /\ UNCHANGED <<lookups, store, clicks>>

(* The answer of chat/message, and the setup guide when there is none.     *)
JsonReplied(t, h) ==
    /\ h.phase = "replied"
    /\ view' = Released([ReplacePendingAssistant(view, t, "done")
                         EXCEPT !.session = h.session])
    /\ Becomes(t, Ended(turns[t]))
    /\ Quietly

Guided(t) ==
    /\ view' = ReplacePendingAssistant(view, t, "done")
    /\ Becomes(t, Saving(Failed(turns[t]), <<"assistant">>, "end", view.session))

JsonRefused(t, h) ==
    h.phase \in {"refused", "broken"} /\ Guided(t) /\ Quietly

JsonDrops(t) ==
    Guided(t) /\ Fault /\ UNCHANGED <<lookups, handlers, store, clicks>>
-----------------------------------------------------------------------------
(* The user turns to another conversation, or chooses a task.              *)
Clicked == clicks < MaxClicks /\ clicks' = clicks + 1
LooksAway ==
    turns' = [t \in DOMAIN turns |-> [turns[t] EXCEPT !.clean = FALSE]]

LoadHistory(s) ==
    /\ Clicked /\ LooksAway
    /\ view' = [view EXCEPT !.session = s, !.task = None]
    /\ lookups' = lookups \cup {[kind |-> "history", session |-> s, at |-> clicks]}
    /\ UNCHANGED <<handlers, store, faults>>

NewSession ==
    /\ Clicked /\ LooksAway
    /\ view' = [view EXCEPT !.session = None, !.task = None, !.messages = {}]
    /\ UNCHANGED <<lookups, handlers, store, faults>>

RemoveSession(s) ==
    /\ Clicked /\ LooksAway
    /\ lookups' = lookups \cup {[kind |-> "delete", session |-> s, at |-> clicks]}
    /\ UNCHANGED <<view, handlers, store, faults>>

ChooseTask(task) ==
    /\ Clicked /\ view' = [view EXCEPT !.task = task]
    /\ UNCHANGED <<turns, lookups, handlers, store, faults>>

HistoryLoaded(q) ==
    /\ q.kind = "history" /\ q.session \in store.sessions
    /\ view' = [view EXCEPT !.messages =
          {Bubble(r.turn, r.role, "stored") :
               r \in {x \in store.rows : x.session = q.session}}]
    /\ UNCHANGED store

SessionRemoved(q) ==
    /\ q.kind = "delete" /\ q.session \in store.sessions
    /\ store' = [store EXCEPT !.sessions = @ \ {q.session},
                              !.rows = {r \in @ : r.session # q.session}]
    /\ view' = IF view.session = q.session
               THEN [view EXCEPT !.session = None, !.messages = {}] ELSE view

NotFound(q) == q.session \notin store.sessions /\ UNCHANGED <<view, store>>

Lookup(q) ==
    /\ HistoryLoaded(q) \/ SessionRemoved(q) \/ NotFound(q)
    /\ lookups' = lookups \ {q}
    /\ UNCHANGED <<turns, handlers, clicks, faults>>

LookupFails(q) ==
    /\ lookups' = lookups \ {q}
    /\ Fault /\ UNCHANGED <<view, turns, handlers, store, clicks>>
-----------------------------------------------------------------------------
Init ==
    /\ view = [session |-> None, messages |-> {}, sending |-> FALSE,
               task |-> None]
    /\ turns = <<>> /\ lookups = {} /\ handlers = {}
    /\ store = [sessions |-> {}, next |-> 1, rows |-> {}]
    /\ clicks = 0 /\ faults = 0

HandlerOf(t, via) == {h \in handlers : h.turn = t /\ h.via = via}

Gateway == \E h \in handlers : Accept(h) \/ Reply(h)
GatewayFails == \E h \in handlers : Refuse(h) \/ Break(h)

(* What a turn awaits arrives.                                             *)
Continue(t) ==
    \/ t \in At("save") /\ Saved(t)
    \/ t \in At("report") /\ ReportArrives(t)
    \/ t \in At("retry") /\ RetryArrives(t)
    \/ t \in At("draft") /\ DraftArrives(t)
    \/ t \in At("intent") /\ IntentKnown(t)
    \/ t \in At("preflight") /\ PreflightKnown(t)
    \/ t \in At("resolve") /\ Resolved(t)
    \/ t \in At("stream") /\ \E h \in HandlerOf(t, "stream") :
           \/ HeardAccepted(t, h) \/ HeardContent(t, h)
           \/ HeardDone(t, h) \/ HeardError(t, h)
    \/ t \in At("json") /\ \E h \in HandlerOf(t, "json") :
           JsonReplied(t, h) \/ JsonRefused(t, h)

Fails(t) ==
    \/ t \in At("save") /\ SaveFails(t)
    \/ t \in At("report") /\ ReportFails(t)
    \/ t \in At("retry") /\ RetryFails(t)
    \/ t \in At("draft") /\ DraftFails(t)
    \/ t \in At("stream") /\ StreamDrops(t)
    \/ t \in At("json") /\ JsonDrops(t)

Next ==
    \/ Send \/ RetryReport
    \/ \E s \in store.sessions : LoadHistory(s) \/ RemoveSession(s)
    \/ NewSession \/ \E task \in Tasks : ChooseTask(task)
    \/ \E q \in lookups : Lookup(q) \/ LookupFails(q)
    \/ Gateway \/ GatewayFails
    \/ \E t \in DOMAIN turns : Continue(t) \/ Fails(t)

(* The gateway works on what it was sent, and answers arrive.              *)
Spec ==
    /\ Init /\ [][Next]_vars
    /\ WF_vars(Gateway)
    /\ \A t \in 1 .. MaxTurns : WF_vars(t \in DOMAIN turns /\ Continue(t))
-----------------------------------------------------------------------------
States == {"shown", "stored", "loading", "partial", "done", "failed", "no report"}
Places == {"save", "report", "retry", "draft", "intent", "preflight", "resolve",
           "stream", "json", "ended"}

TypeOK ==
    /\ view.session \in Nat \cup {None} /\ view.sending \in BOOLEAN
    /\ view.task \in Tasks \cup {None, "strategy_design"}
    /\ view.messages \subseteq
          [turn : 1 .. MaxTurns, role : {"user", "assistant"}, state : States]
    /\ \A t \in DOMAIN turns :
          /\ turns[t].at \in Places
          /\ turns[t].at = "save" <=> turns[t].saves # <<>>
    /\ store.sessions \subseteq 1 .. store.next - 1
    /\ \A r \in store.rows : r.session \in store.sessions

Submissions(t) ==
    {r \in store.rows : r.turn = t /\ r.role = "user" /\ r.via # "local"}

(* A message the gateway told the page it has is not submitted again,      *)
(* whatever becomes of its stream.                                         *)
AcceptedOnce ==
    \A t \in DOMAIN turns :
        turns[t].heard # {} => Cardinality(Submissions(t)) <= 1

(* ai_chat.py means the accepted event to keep the page from submitting a  *)
(* message again after a disconnect.                                       *)
SubmittedOnce == \A t \in DOMAIN turns : Cardinality(Submissions(t)) <= 1

(* A bubble that still waits for its text or its report has a turn that    *)
(* will write to it.                                                       *)
SpinnerHasTurn ==
    \A b \in view.messages :
        b.state \in {"loading", "partial"} =>
            \E t \in Active : turns[t].bubble = b.turn

(* While the user stays in a conversation and nothing of a turn fails,     *)
(* what the turn stores is in one conversation, the one then on the screen.*)
Rows(t) == {r \in store.rows : r.turn = t}
TurnsStayTogether ==
    \A t \in DOMAIN turns : turns[t].clean /\ ~turns[t].failed =>
        /\ \A r, s \in Rows(t) : r.session = s.session
        /\ t = Len(turns) /\ turns[t].at = "ended" =>
              \A r \in Rows(t) : r.session = view.session

(* The composer is released: a send never leaves it locked.                *)
SendingEnds == view.sending ~> ~view.sending
=============================================================================
