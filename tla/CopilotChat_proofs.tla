--------------------------- MODULE CopilotChat_proofs ---------------------------
(***************************************************************************)
(* For any number of messages, clicks and faults: a message the gateway    *)
(* told the page it has is not submitted again, a bubble that waits has a  *)
(* turn that writes to it, and the rows of an undisturbed turn are of one  *)
(* conversation.                                                           *)
(*                                                                         *)
(* Some thirty steps continue a turn.  TurnStep says what each may do to   *)
(* its turn, the screen, the requests and the store, and is shown of all   *)
(* of them once; the invariants are shown of TurnStep.                     *)
(***************************************************************************)
EXTENDS CopilotChat, FiniteSetTheorems, SequenceTheorems, TLAPS

Roles == {"user", "assistant"}
Sessions == Nat \cup {None}
Clearable == Tasks \cup {"strategy_design", "market_diagnosis"}

Bubbles == [turn : 1 .. MaxTurns, role : Roles, state : States]

Views ==
    [session : Sessions, messages : SUBSET Bubbles, sending : BOOLEAN,
     task : Tasks \cup {None, "strategy_design"}]

Batches == {<<"user">>, <<"assistant">>, <<"user", "assistant">>}
TurnSet ==
    [at : Places, saves : {<<>>} \cup Batches,
     after : {"end", "draft"}, session : Sessions, clears : SUBSET Clearable,
     heard : SUBSET {"accepted", "content"}, bubble : 1 .. MaxTurns,
     clean : BOOLEAN, failed : BOOLEAN]

RowSet ==
    [turn : Nat, role : Roles, via : {"local", "stream", "json"}, session : Nat]
Stores == [sessions : SUBSET (Nat \ {0}), next : Nat \ {0}, rows : SUBSET RowSet]

Heard == {"accepted", "replied", "broken"}
Phases == {"posted", "refused"} \cup Heard
HandlerSet ==
    [turn : Nat, via : {"stream", "json"}, session : Sessions, phase : Phases]

Waiting == {"loading", "partial"}

(* A turn is at a save exactly while it has messages to save, but for a    *)
(* retry it writes to the bubble of its own number, and what it heard of   *)
(* its stream it heard while it read it.                                   *)
TurnOK(t, turn) ==
    /\ turn \in TurnSet
    /\ turn.at = "save" <=> turn.saves # <<>>
    /\ turn.at \notin {"retry", "ended"} => turn.bubble = t
    /\ turn.heard # {} => turn.at \in {"stream", "ended"}
ViewOK(v) ==
    /\ v \in Views
    /\ \A b \in v.messages : b.state \in Waiting => b.role = "assistant"

StoreOK(db) ==
    /\ db \in Stores
    /\ \A s \in db.sessions : s < db.next
    /\ \A r \in db.rows : r.session \in db.sessions

TypeInv ==
    /\ ViewOK(view) /\ StoreOK(store)
    /\ turns \in Seq(TurnSet) /\ Len(turns) <= MaxTurns
    /\ \A t \in DOMAIN turns : TurnOK(t, turns[t])
    /\ handlers \subseteq HandlerSet
    /\ \A h \in handlers : h.turn \in DOMAIN turns
    /\ \A r \in store.rows : r.turn \in DOMAIN turns

(* Type correctness follows.                                               *)
LEMMA TypeInvImpliesTypeOK == TypeInv => TypeOK
<1> SUFFICES ASSUME TypeInv PROVE TypeOK
  OBVIOUS
<1>1. /\ view.session \in Nat \cup {None} /\ view.sending \in BOOLEAN
      /\ view.task \in Tasks \cup {None, "strategy_design"}
  BY DEF TypeInv, ViewOK, Views, Sessions
<1>2. view.messages \subseteq
        [turn : 1 .. MaxTurns, role : {"user", "assistant"}, state : States]
  BY DEF TypeInv, ViewOK, Views, Bubbles, Roles
<1>3. \A t \in DOMAIN turns :
        /\ turns[t].at \in Places
        /\ turns[t].at = "save" <=> turns[t].saves # <<>>
  BY DEF TypeInv, TurnOK, TurnSet
<1>4. store.sessions \subseteq 1 .. store.next - 1
  <2> SUFFICES ASSUME NEW s \in store.sessions PROVE s \in 1 .. store.next - 1
    OBVIOUS
  <2>1. s \in Nat \ {0} /\ store.next \in Nat /\ s < store.next
    BY DEF TypeInv, StoreOK, Stores
  <2> QED
    BY <2>1
<1> QED
  BY <1>1, <1>2, <1>3, <1>4 DEF TypeInv, StoreOK, TypeOK

-----------------------------------------------------------------------------
(* What the operators of the model do to their types.                      *)
LEMMA InsertedOK ==
    ASSUME NEW db, StoreOK(db), NEW session, NEW t \in Nat, NEW role \in Roles,
           NEW via \in {"local", "stream", "json"}
    PROVE  LET s == SessionFor(db, session)
               new == Inserted(db, session, t, role, via)
               row == [turn |-> t, role |-> role, via |-> via, session |-> s]
           IN  /\ StoreOK(new) /\ s \in Nat
               /\ new.rows = db.rows \cup {row}
<1> DEFINE s == SessionFor(db, session)
           new == Inserted(db, session, t, role, via)
           row == [turn |-> t, role |-> role, via |-> via, session |-> s]
           n == IF s = db.next THEN s + 1 ELSE db.next
<1>1. new = [sessions |-> db.sessions \cup {s}, next |-> n, rows |-> db.rows \cup {row}]
  BY DEF Inserted, SessionFor
<1>2. s \in Nat \ {0} /\ s <= db.next /\ db.next \in Nat \ {0}
  BY DEF SessionFor, StoreOK, Stores
<1>3. n \in Nat \ {0} /\ s < n /\ db.next <= n
  BY <1>2
<1>4. row \in RowSet /\ row.session = s
  BY <1>2 DEF RowSet
<1> HIDE DEF s, n, row, new
<1>5. new \in Stores
  BY <1>1, <1>2, <1>3, <1>4 DEF StoreOK, Stores
<1>6. \A x \in new.sessions : x < new.next
  BY <1>1, <1>2, <1>3 DEF StoreOK, Stores
<1>7. \A r \in new.rows : r.session \in new.sessions
  BY <1>1, <1>4 DEF StoreOK
<1> QED
  BY <1>1, <1>2, <1>5, <1>6, <1>7 DEF StoreOK, s, row, new

(* The screen: a bubble is added, or those of a turn become one that does  *)
(* not wait unless it is said to.                                          *)
LEMMA PushOK ==
    ASSUME NEW v, ViewOK(v), NEW t \in 1 .. MaxTurns, NEW role \in Roles,
           NEW state \in States, state \in Waiting => role = "assistant"
    PROVE  LET w == Push(v, t, role, state) IN
           /\ ViewOK(w) /\ w.session = v.session /\ w.sending = v.sending
           /\ w.task = v.task
           /\ w.messages = v.messages \cup {Bubble(t, role, state)}
<1> DEFINE b == Bubble(t, role, state)
           m == v.messages \cup {b}
           w == [v EXCEPT !.messages = m]
<1>1. Push(v, t, role, state) = w
  BY DEF Push
<1>2. b \in Bubbles /\ b.role = role /\ b.state = state
  BY DEF Bubble, Bubbles
<1> HIDE DEF b
<1>3. /\ m \in SUBSET Bubbles
      /\ \A x \in m : x.state \in Waiting => x.role = "assistant"
  BY <1>2 DEF ViewOK, Views
<1>4. m = v.messages \cup {b}
  OBVIOUS
<1> HIDE DEF m
<1>5. w \in Views /\ w.messages = m /\ w.session = v.session
      /\ w.sending = v.sending /\ w.task = v.task
  BY <1>3 DEF ViewOK, Views
<1> HIDE DEF w
<1>6. ViewOK(w)
  BY <1>3, <1>5 DEF ViewOK
<1> QED
  BY <1>1, <1>4, <1>5, <1>6 DEF b

(* w is v with the messages of turn t rewritten to state.                  *)
Rewritten(w, v, t, state) ==
    /\ ViewOK(w) /\ w.session = v.session /\ w.sending = v.sending
    /\ w.task = v.task
    /\ \A b \in w.messages : b.state \in Waiting =>
         \/ b \in v.messages /\ b.turn # t
         \/ b.turn = t /\ state \in Waiting

(* Both ways to rewrite do it.                                             *)
LEMMA WriteOK ==
    ASSUME NEW v, ViewOK(v), NEW t \in 1 .. MaxTurns, NEW state \in States
    PROVE  /\ Rewritten(Write(v, t, state), v, t, state)
           /\ Rewritten(ReplacePendingAssistant(v, t, state), v, t, state)
<1> DEFINE b == Bubble(t, "assistant", state)
           m == (v.messages \ Mine(v, t)) \cup {b}
           w == [v EXCEPT !.messages = m]
<1>1. \A x \in v.messages : x.state \in Waiting =>
        x.turn # t \/ x \in Mine(v, t)
  BY DEF ViewOK, Mine, Waiting
<1>2. /\ ReplacePendingAssistant(v, t, state) = w
      /\ Write(v, t, state) = v \/ Write(v, t, state) = w
      /\ Mine(v, t) = {} => Write(v, t, state) = v
      /\ Mine(v, t) # {} => Write(v, t, state) = w
  BY DEF ReplacePendingAssistant, Write
<1>3. b \in Bubbles /\ b.role = "assistant" /\ b.state = state /\ b.turn = t
  BY DEF Bubble, Bubbles, Roles
<1> HIDE DEF b
<1>4. /\ m \in SUBSET Bubbles
      /\ \A x \in m : x.state \in Waiting => x.role = "assistant"
      /\ \A x \in m : x.state \in Waiting =>
           (x \in v.messages /\ x.turn # t) \/ (x.turn = t /\ state \in Waiting)
  BY <1>1, <1>3 DEF ViewOK, Views
<1> HIDE DEF m
<1>5. w \in Views /\ w.messages = m /\ w.session = v.session
      /\ w.sending = v.sending /\ w.task = v.task
  BY <1>4 DEF ViewOK, Views
<1> HIDE DEF w
<1>6. Rewritten(w, v, t, state)
  BY <1>4, <1>5 DEF Rewritten, ViewOK
<1>7. Mine(v, t) = {} => Rewritten(v, v, t, state)
  BY <1>1 DEF Rewritten
<1> QED
  BY <1>2, <1>6, <1>7

(* The composer, the task and the conversation.                            *)
Relabelled(w, v) == ViewOK(w) /\ w.messages = v.messages

(* One label changes, the others and the messages do not.                  *)
LEMMA LabelsOK ==
    ASSUME NEW v, ViewOK(v), NEW b \in BOOLEAN, NEW s \in Sessions,
           NEW k \in Tasks \cup {None, "strategy_design"}
    PROVE  /\ LET w == [v EXCEPT !.sending = b]
              IN  Relabelled(w, v) /\ w.session = v.session /\ w.task = v.task
           /\ LET w == [v EXCEPT !.session = s]
              IN  /\ Relabelled(w, v) /\ w.session = s /\ w.sending = v.sending
                  /\ w.task = v.task
           /\ LET w == [v EXCEPT !.task = k]
              IN  /\ Relabelled(w, v) /\ w.session = v.session
                  /\ w.sending = v.sending
<1>1. v \in Views
  BY DEF ViewOK
<1>2. LET w == [v EXCEPT !.sending = b]
      IN  /\ w \in Views /\ w.messages = v.messages /\ w.session = v.session
          /\ w.task = v.task
  BY <1>1 DEF Views
<1>3. LET w == [v EXCEPT !.session = s]
      IN  /\ w \in Views /\ w.messages = v.messages /\ w.session = s
          /\ w.sending = v.sending /\ w.task = v.task
  BY <1>1 DEF Views
<1>4. LET w == [v EXCEPT !.task = k]
      IN  /\ w \in Views /\ w.messages = v.messages /\ w.session = v.session
          /\ w.sending = v.sending
  BY <1>1 DEF Views
<1> QED
  BY <1>2, <1>3, <1>4 DEF Relabelled, ViewOK

-----------------------------------------------------------------------------
(* What a step of a turn may do.  a is the turn before, u the turn after.  *)
Asked == {"intent", "preflight", "resolve"}
Awaits == {"report", "retry", "draft", "resolve", "stream", "json"}

Paths(a, u) ==
    /\ a.at # "ended" /\ u.at \notin {"report", "retry"}
    /\ u.bubble = a.bubble /\ u.clean = a.clean /\ (a.failed => u.failed)
    /\ u.at \in Asked => a.at \in Asked
    /\ u.at \in {"save", "draft"} /\ ~u.failed =>
         a.at \in {"save", "draft", "report"} \cup Asked
    /\ u.at \in {"stream", "json"} /\ ~u.failed => a.at \in {u.at, "resolve"}
    /\ u.heard # {} => a.heard # {} \/ a.at = "stream"

(* It sends nothing, or one chat request: a second one only of a stream of *)
(* which it has heard nothing.                                             *)
Posts(t, a, u) ==
    \/ /\ handlers' = handlers
       /\ u.at = "stream" => a.at = "stream"
       /\ u.at = "json" => a.at = "json"
    \/ \E via \in {"stream", "json"} :
         /\ handlers' = handlers \cup {Posted(t, via, view)}
         /\ u.at = via /\ u.heard = {} /\ a.heard = {}
         /\ \/ a.at = "resolve"
            \/ a.at = "stream" /\ via = "json" /\ u.failed

(* A bubble that waits is of another turn, or the turn awaits its text.    *)
Paints(a, u) ==
    \A b \in view'.messages : b.state \in Waiting =>
        \/ /\ b \in view.messages
           /\ b.turn # a.bubble \/ a.at \notin Awaits \/ u.at \in Awaits
        \/ b.turn = u.bubble /\ u.at \in Awaits

Saves(t, a) ==
    /\ a.at = "save"
    /\ \E role \in Roles : store' = Inserted(store, a.session, t, role, "local")

(* The conversation on the screen, of a turn of which nothing failed.      *)
Joins(t, a, u) ==
    \/ u.failed
    \/ /\ view'.session = view.session /\ store' = store
       /\ a.at \in {"stream", "json"} => u.at = a.at
    \/ Saves(t, a) /\ view'.session = SessionFor(store, a.session)
    \/ \E h \in handlers :
         /\ h.turn = t /\ h.phase \in Heard /\ a.at \in {"stream", "json"}
         /\ u.at \in {a.at, "ended"} /\ (u.at = "ended" => h.phase = "replied")
         /\ view'.session = h.session /\ store' = store

TurnStep(t, u) ==
    /\ turns' = [turns EXCEPT ![t] = u] /\ TurnOK(t, u)
    /\ ViewOK(view') /\ lookups' = lookups
    /\ Paths(turns[t], u) /\ Posts(t, turns[t], u) /\ Paints(turns[t], u)
    /\ store' = store \/ Saves(t, turns[t])
    /\ Joins(t, turns[t], u)
    /\ u.at = "save" => u.session = view'.session
    /\ u.at # "ended" => view'.sending = view.sending

(* What becomes of a turn.                                                 *)
SameBut(u, a) ==
    u.heard = a.heard /\ u.bubble = a.bubble /\ u.clean = a.clean

(* Each change of a turn keeps its types and the rest of it.               *)
LEMMA TurnsOK ==
    ASSUME NEW a \in TurnSet
    PROVE  /\ LET u == Ended(a)
              IN  /\ u \in TurnSet /\ SameBut(u, a) /\ u.failed = a.failed
                  /\ u.at = "ended" /\ u.saves = <<>>
           /\ LET u == Failed(a)
              IN  /\ u \in TurnSet /\ SameBut(u, a) /\ u.failed
                  /\ u.at = a.at /\ u.saves = a.saves /\ u.after = a.after
                  /\ u.session = a.session /\ u.clears = a.clears
           /\ \A p \in Places :
                LET u == [a EXCEPT !.at = p]
                IN  /\ u \in TurnSet /\ SameBut(u, a) /\ u.failed = a.failed
                    /\ u.at = p /\ u.saves = a.saves
           /\ LET u == [a EXCEPT !.at = "draft", !.saves = <<>>]
              IN  /\ u \in TurnSet /\ SameBut(u, a) /\ u.failed = a.failed
                  /\ u.at = "draft" /\ u.saves = <<>>
           /\ \A c \in SUBSET Clearable :
                LET u == [a EXCEPT !.clears = c]
                IN  /\ u \in TurnSet /\ SameBut(u, a) /\ u.failed = a.failed
                    /\ u.at = a.at /\ u.saves = a.saves /\ u.session = a.session
           /\ \A c \in SUBSET {"accepted", "content"} :
                LET u == [a EXCEPT !.heard = c]
                IN  /\ u \in TurnSet /\ u.bubble = a.bubble /\ u.clean = a.clean
                    /\ u.failed = a.failed /\ u.heard = c
                    /\ u.at = a.at /\ u.saves = a.saves
<1>1. LET u == Ended(a)
      IN  /\ u \in TurnSet /\ SameBut(u, a) /\ u.failed = a.failed
          /\ u.at = "ended" /\ u.saves = <<>>
  BY DEF Ended, TurnSet, SameBut, Places, Sessions
<1>2. LET u == Failed(a)
      IN  /\ u \in TurnSet /\ SameBut(u, a) /\ u.failed
          /\ u.at = a.at /\ u.saves = a.saves /\ u.after = a.after
          /\ u.session = a.session /\ u.clears = a.clears
  BY DEF Failed, TurnSet, SameBut
<1>3. \A p \in Places :
        LET u == [a EXCEPT !.at = p]
        IN  /\ u \in TurnSet /\ SameBut(u, a) /\ u.failed = a.failed
            /\ u.at = p /\ u.saves = a.saves
  BY DEF TurnSet, SameBut
<1>4. LET u == [a EXCEPT !.at = "draft", !.saves = <<>>]
      IN  /\ u \in TurnSet /\ SameBut(u, a) /\ u.failed = a.failed
          /\ u.at = "draft" /\ u.saves = <<>>
  BY DEF TurnSet, SameBut, Places
<1>5. \A c \in SUBSET Clearable :
        LET u == [a EXCEPT !.clears = c]
        IN  /\ u \in TurnSet /\ SameBut(u, a) /\ u.failed = a.failed
            /\ u.at = a.at /\ u.saves = a.saves /\ u.session = a.session
  BY DEF TurnSet, SameBut
<1>6. \A c \in SUBSET {"accepted", "content"} :
        LET u == [a EXCEPT !.heard = c]
        IN  /\ u \in TurnSet /\ u.bubble = a.bubble /\ u.clean = a.clean
            /\ u.failed = a.failed /\ u.heard = c
            /\ u.at = a.at /\ u.saves = a.saves
  BY DEF TurnSet
<1> QED
  BY <1>1, <1>2, <1>3, <1>4, <1>5, <1>6

(* A turn that is to save.                                                 *)
LEMMA SavingOK ==
    ASSUME NEW a \in TurnSet, NEW session \in Sessions,
           NEW roles \in Batches, NEW after \in {"end", "draft"}
    PROVE  LET u == Saving(a, roles, after, session)
           IN  /\ u \in TurnSet /\ SameBut(u, a) /\ u.failed = a.failed
               /\ u.at = "save" /\ u.saves # <<>> /\ u.session = session
<1> DEFINE u == Saving(a, roles, after, session)
<1>1. roles # <<>>
  BY DEF Batches
<1>2. u = [a EXCEPT !.at = "save", !.saves = roles, !.after = after,
                    !.session = session]
  BY DEF Saving
<1> HIDE DEF u
<1>3. u \in TurnSet
  BY <1>2 DEF TurnSet, Places
<1>4. SameBut(u, a) /\ u.failed = a.failed
      /\ u.at = "save" /\ u.saves = roles /\ u.session = session
  BY <1>2 DEF TurnSet, SameBut
<1> QED
  BY <1>1, <1>3, <1>4 DEF u

(* The screen after a step of its turn.                                    *)
LEMMA PaintsOK ==
    ASSUME NEW a, NEW u, u.bubble = a.bubble,
           \/ \E w : \E state \in States :
                /\ Rewritten(w, view, a.bubble, state) /\ view'.messages = w.messages
                /\ state \in Waiting => u.at \in Awaits
           \/ /\ view'.messages = view.messages
              /\ a.at \notin Awaits \/ u.at \in Awaits
           \/ \E state \in States :
                /\ view'.messages =
                     view.messages \cup {Bubble(u.bubble, "assistant", state)}
                /\ state \in Waiting => u.at \in Awaits
                /\ a.at \notin Awaits \/ u.at \in Awaits
    PROVE  Paints(a, u)
<1>1. CASE \E w : \E state \in States :
             /\ Rewritten(w, view, a.bubble, state) /\ view'.messages = w.messages
             /\ state \in Waiting => u.at \in Awaits
  BY <1>1 DEF Paints, Rewritten
<1>2. CASE /\ view'.messages = view.messages
           /\ a.at \notin Awaits \/ u.at \in Awaits
  BY <1>2 DEF Paints
<1>3. CASE \E state \in States :
             /\ view'.messages =
                  view.messages \cup {Bubble(u.bubble, "assistant", state)}
             /\ state \in Waiting => u.at \in Awaits
             /\ a.at \notin Awaits \/ u.at \in Awaits
  BY <1>3 DEF Paints, Bubble
<1> QED
  BY <1>1, <1>2, <1>3

(* A turn that takes a step.                                               *)
LEMMA TurnTyped ==
    ASSUME TypeInv, NEW t \in DOMAIN turns
    PROVE  /\ t \in Nat /\ t \in 1 .. MaxTurns /\ TurnOK(t, turns[t])
           /\ turns[t] \in TurnSet /\ view.session \in Sessions /\ view \in Views
           /\ turns[t].bubble \in 1 .. MaxTurns
<1>1. DOMAIN turns = 1 .. Len(turns) /\ Len(turns) \in Nat
  BY LenProperties DEF TypeInv
<1>2. t \in 1 .. MaxTurns
  BY <1>1, BoundAssumption DEF TypeInv
<1> QED
  BY <1>2 DEF TypeInv, TurnOK, ViewOK, Views, TurnSet

(* The messages a turn saves, the first and then at most one.              *)
LEMMA SavesOfTurn ==
    ASSUME NEW roles \in Batches
    PROVE  /\ Len(roles) \in Nat /\ Head(roles) \in Roles
           /\ Len(roles) > 1 => Tail(roles) = <<"assistant">>
<1>1. CASE roles = <<"user">>
  <2>1. Head(roles) = "user" /\ Len(roles) = 1
    BY <1>1
  <2> QED
    BY <2>1 DEF Roles
<1>2. CASE roles = <<"assistant">>
  <2>1. Head(roles) = "assistant" /\ Len(roles) = 1
    BY <1>2
  <2> QED
    BY <2>1 DEF Roles
<1>3. CASE roles = <<"user", "assistant">>
  <2>1. Head(roles) = "user"
    BY <1>3
  <2>2. Tail(roles) = <<"assistant">>
    <3> DEFINE s == Tail(roles)
               one == <<"assistant">>
    <3>1. Len(s) = 1 /\ s[1] = "assistant" /\ s \in Seq({"user", "assistant"})
      BY <1>3
    <3>2. Len(one) = 1 /\ one[1] = "assistant" /\ one \in Seq({"user", "assistant"})
      OBVIOUS
    <3> HIDE DEF s, one
    <3>3. \A i \in 1 .. Len(s) : s[i] = one[i]
      BY <3>1, <3>2
    <3>4. s = one
      BY <3>1, <3>2, <3>3, SeqEqual
    <3> QED
      BY <3>4 DEF s, one
  <2> QED
    BY <2>1, <2>2 DEF Roles
<1> QED
  BY <1>1, <1>2, <1>3 DEF Batches

(* After a save: the next one, the draft, or the end of the turn.          *)
AfterSave(t, u, failed, session) ==
    /\ turns' = [turns EXCEPT ![t] = u] /\ TurnOK(t, u)
    /\ ViewOK(view') /\ Paths(turns[t], u) /\ Paints(turns[t], u)
    /\ u.failed = failed /\ view'.session = session
    /\ u.at \in {"save", "draft", "ended"}
    /\ u.at = "save" => u.session = view'.session
    /\ u.at # "ended" => view'.sending = view.sending

(* Each of the three is such a step.                                       *)
LEMMA SavesNextDoes ==
    ASSUME TypeInv, NEW t \in At("save"), NEW v, Relabelled(v, view),
           v.sending = view.sending, v.session \in Sessions,
           NEW turn \in TurnSet, SameBut(turn, turns[t]), turn.at = "save",
           turn.saves = turns[t].saves, turns[t].failed => turn.failed,
           SavesNext(v, t, turn)
    PROVE  \E u : AfterSave(t, u, turn.failed, v.session)
<1> DEFINE a == turns[t]
<1>1. /\ t \in 1 .. MaxTurns /\ a \in TurnSet /\ a.at = "save" /\ TurnOK(t, a)
      /\ view.session \in Sessions
  BY TurnTyped DEF At
<1>2. a.bubble = t /\ a.heard = {} /\ a.saves # <<>>
  BY <1>1 DEF TurnOK
<1>3. turn.bubble = t /\ turn.heard = {} /\ turn.clean = a.clean
  BY <1>2 DEF SameBut
<1>0. turn.saves \in Batches
  BY <1>1, <1>2 DEF TurnSet
<1>4. Len(turn.saves) \in Nat /\ (Len(turn.saves) > 1 => Tail(turn.saves) = <<"assistant">>)
  BY <1>0, SavesOfTurn
<1>5. turn.after \in {"end", "draft"}
  BY DEF TurnSet
<1>6. a.failed => turn.failed
  OBVIOUS
<1> HIDE DEF a
<1>7. CASE Len(turn.saves) > 1
  <2> DEFINE u == Saving(turn, Tail(turn.saves), turn.after, v.session)
  <2>1. view' = v /\ turns' = [turns EXCEPT ![t] = u]
    BY <1>7 DEF SavesNext, Becomes
  <2>2. /\ u \in TurnSet /\ SameBut(u, turn) /\ u.failed = turn.failed
        /\ u.at = "save" /\ u.saves # <<>> /\ u.session = v.session
    <3> DEFINE rest == Tail(turn.saves)
               next == turn.after
               s == v.session
    <3>1. rest \in Batches
      BY <1>4, <1>7 DEF Batches
    <3>2. next \in {"end", "draft"} /\ s \in Sessions
      BY <1>5
    <3>3. u = Saving(turn, rest, next, s)
      OBVIOUS
    <3> HIDE DEF rest, next, s, u
    <3>4. LET x == Saving(turn, rest, next, s)
          IN  /\ x \in TurnSet /\ SameBut(x, turn) /\ x.failed = turn.failed
              /\ x.at = "save" /\ x.saves # <<>> /\ x.session = s
      BY <3>1, <3>2, SavingOK
    <3> QED
      BY <3>3, <3>4 DEF s
  <2> HIDE DEF u
  <2>3. u.heard = {} /\ u.bubble = t /\ u.clean = a.clean
    BY <1>3, <2>2 DEF SameBut
  <2>4. TurnOK(t, u)
    BY <2>2, <2>3 DEF TurnOK
  <2>5. Paths(a, u)
    BY <1>1, <1>2, <1>6, <2>2, <2>3 DEF Paths, Asked
  <2>6. Paints(a, u)
    BY <1>1, <1>2, <2>1, <2>3, PaintsOK DEF Relabelled, Awaits
  <2> QED
    BY <2>1, <2>2, <2>4, <2>5, <2>6 DEF Relabelled, AfterSave, a
<1>8. CASE Len(turn.saves) <= 1 /\ turn.after = "draft"
  <2> DEFINE u == [turn EXCEPT !.at = "draft", !.saves = <<>>]
  <2>1. view' = Push(v, t, "assistant", "loading") /\ turns' = [turns EXCEPT ![t] = u]
    <3>1. ~(Len(turn.saves) > 1)
      BY <1>4, <1>8
    <3> QED
      BY <1>8, <3>1 DEF SavesNext, Becomes
  <2>2. /\ u \in TurnSet /\ SameBut(u, turn) /\ u.failed = turn.failed
        /\ u.at = "draft" /\ u.saves = <<>>
    BY TurnsOK
  <2> HIDE DEF u
  <2>3. u.heard = {} /\ u.bubble = t /\ u.clean = a.clean
    BY <1>3, <2>2 DEF SameBut
  <2>4. TurnOK(t, u)
    BY <2>2, <2>3 DEF TurnOK
  <2>5. Paths(a, u)
    BY <1>1, <1>2, <1>6, <2>2, <2>3 DEF Paths, Asked
  <2>6. /\ ViewOK(view') /\ view'.session = v.session /\ view'.sending = view.sending
        /\ view'.messages = view.messages \cup {Bubble(t, "assistant", "loading")}
    <3>1. "assistant" \in Roles /\ "loading" \in States
      BY DEF Roles, States
    <3>2. ViewOK(v)
      BY DEF Relabelled
    <3>3. LET w == Push(v, t, "assistant", "loading")
          IN  /\ ViewOK(w) /\ w.session = v.session /\ w.sending = v.sending
              /\ w.task = v.task
              /\ w.messages = v.messages \cup {Bubble(t, "assistant", "loading")}
      BY <1>1, <3>1, <3>2, PushOK
    <3> QED
      BY <2>1, <3>3 DEF Relabelled
  <2>7. Paints(a, u)
    <3>1. "loading" \in States /\ u.at \in Awaits
      BY <2>2 DEF States, Awaits
    <3> QED
      BY <1>2, <2>3, <2>6, <3>1, PaintsOK
  <2> QED
    BY <2>1, <2>2, <2>4, <2>5, <2>6, <2>7 DEF AfterSave, a
<1>9. CASE Len(turn.saves) <= 1 /\ turn.after # "draft"
  <2> DEFINE u == Ended(turn)
             k == IF v.task \in turn.clears THEN None ELSE v.task
             x == [v EXCEPT !.task = k]
             w == [x EXCEPT !.sending = FALSE]
  <2>1. view' = w /\ turns' = [turns EXCEPT ![t] = u]
    <3>1. ~(Len(turn.saves) > 1)
      BY <1>4, <1>9
    <3> QED
      BY <1>9, <3>1 DEF SavesNext, Becomes, Released
  <2>2. /\ u \in TurnSet /\ SameBut(u, turn) /\ u.failed = turn.failed
        /\ u.at = "ended" /\ u.saves = <<>>
    BY TurnsOK
  <2>3. k \in Tasks \cup {None, "strategy_design"}
    BY DEF Relabelled, ViewOK, Views
  <2> HIDE DEF u, k
  <2>4. u.heard = {} /\ u.bubble = t /\ u.clean = a.clean
    BY <1>3, <2>2 DEF SameBut
  <2>5. TurnOK(t, u)
    BY <2>2, <2>4 DEF TurnOK
  <2>6. Paths(a, u)
    BY <1>1, <1>2, <1>6, <2>2, <2>4 DEF Paths, Asked
  <2>7. Relabelled(x, v) /\ x.session = v.session
    BY <2>3, LabelsOK DEF Relabelled
  <2> HIDE DEF x
  <2>8. Relabelled(w, x) /\ w.session = x.session
    BY <2>7, LabelsOK DEF Relabelled
  <2> HIDE DEF w
  <2>9. Paints(a, u)
    <3>1. view'.messages = view.messages /\ a.at \notin Awaits
      BY <1>1, <2>1, <2>7, <2>8 DEF Relabelled, Awaits
    <3> QED
      BY <1>2, <2>4, <3>1, PaintsOK
  <2> QED
    BY <2>1, <2>2, <2>5, <2>6, <2>7, <2>8, <2>9 DEF a, Relabelled, AfterSave
<1> QED
  BY <1>4, <1>7, <1>8, <1>9

(* Saved and SaveFails.                                                    *)
LEMMA SavedDoes ==
    ASSUME TypeInv, NEW t \in At("save"), Saved(t) \/ SaveFails(t)
    PROVE  \E u : TurnStep(t, u)
<1> DEFINE a == turns[t]
<1>1. /\ t \in Nat /\ t \in DOMAIN turns /\ a \in TurnSet /\ a.at = "save"
      /\ TurnOK(t, a) /\ view.session \in Sessions
  BY TurnTyped DEF At
<1>2. a.saves \in Batches
  BY <1>1 DEF TurnOK, TurnSet
<1>3. Head(a.saves) \in Roles
  BY <1>2, SavesOfTurn
<1>4. ViewOK(view) /\ StoreOK(store)
  BY DEF TypeInv
<1>5. ASSUME NEW u, NEW failed, NEW session, AfterSave(t, u, failed, session),
             lookups' = lookups, handlers' = handlers,
             store' = store \/ Saves(t, a),
             \/ u.failed
             \/ Saves(t, a) /\ session = SessionFor(store, a.session)
      PROVE  TurnStep(t, u)
  <2>1. Posts(t, a, u)
    BY <1>5 DEF AfterSave, Posts
  <2>2. Joins(t, a, u)
    BY <1>5 DEF AfterSave, Joins
  <2> QED
    BY <1>5, <2>1, <2>2 DEF AfterSave, TurnStep
<1>6. CASE Saved(t)
  <2> DEFINE s == SessionFor(store, a.session)
             v == [view EXCEPT !.session = s]
  <2>1. /\ SavesNext(v, t, a) /\ lookups' = lookups /\ handlers' = handlers
        /\ Saves(t, a)
    BY <1>1, <1>3, <1>6 DEF Saved, Saves
  <2>2. s \in Sessions
    BY <1>4 DEF SessionFor, StoreOK, Stores, Sessions
  <2> HIDE DEF s
  <2>3. Relabelled(v, view) /\ v.sending = view.sending /\ v.session = s
    BY <1>4, <2>2, LabelsOK DEF ViewOK, Views
  <2> HIDE DEF v
  <2>4. SameBut(a, turns[t])
    BY DEF SameBut
  <2>5. PICK u : AfterSave(t, u, a.failed, s)
    BY <1>1, <2>1, <2>2, <2>3, <2>4, SavesNextDoes
  <2> QED
    BY <1>5, <2>1, <2>5 DEF s
<1>7. CASE SaveFails(t)
  <2> DEFINE f == Failed(a)
  <2>1. /\ SavesNext(view, t, f) /\ lookups' = lookups /\ handlers' = handlers
        /\ store' = store \/ Saves(t, a)
    BY <1>1, <1>3, <1>7 DEF SaveFails, Saves
  <2>2. /\ f \in TurnSet /\ SameBut(f, a) /\ f.failed /\ f.at = "save"
        /\ f.saves = a.saves
    BY <1>1, TurnsOK
  <2> HIDE DEF f
  <2>3. Relabelled(view, view)
    BY <1>4 DEF Relabelled
  <2>4. PICK u : AfterSave(t, u, f.failed, view.session)
    BY <1>1, <2>1, <2>2, <2>3, SavesNextDoes
  <2>5. u.failed
    BY <2>2, <2>4 DEF AfterSave
  <2> QED
    BY <1>5, <2>1, <2>4, <2>5
<1> QED
  BY <1>6, <1>7

-----------------------------------------------------------------------------
(* The messages of turn t were rewritten, and what else the screen shows   *)
(* changed.                                                                *)
Wrote(w, t, state) == \E x : Rewritten(x, view, t, state) /\ Relabelled(w, x)

(* Rewritten, and then released or relabelled.                             *)
LEMMA WroteOK ==
    ASSUME ViewOK(view), NEW t \in 1 .. MaxTurns, NEW state \in States,
           NEW s \in Sessions, NEW k \in Tasks \cup {None, "strategy_design"},
           NEW x \in {Write(view, t, state), ReplacePendingAssistant(view, t, state)}
    PROVE  /\ x.task = view.task
           /\ Wrote(x, t, state) /\ x.session = view.session
           /\ x.sending = view.sending
           /\ LET w == Released(x)
              IN  Wrote(w, t, state) /\ w.session = view.session
           /\ LET w == Released([x EXCEPT !.task = k])
              IN  Wrote(w, t, state) /\ w.session = view.session
           /\ LET w == Released([x EXCEPT !.session = s])
              IN  Wrote(w, t, state) /\ w.session = s
<1>1. Rewritten(x, view, t, state)
  BY WriteOK
<1>2. ViewOK(x) /\ x.task = view.task /\ x.session = view.session
      /\ x.sending = view.sending
  BY <1>1 DEF Rewritten
<1>3. Wrote(x, t, state)
  BY <1>1, <1>2 DEF Wrote, Relabelled
<1>4. ASSUME NEW y, Relabelled(y, x)
      PROVE  LET w == Released(y)
             IN  Wrote(w, t, state) /\ w.session = y.session
  <2> DEFINE w == Released(y)
  <2>1. Relabelled(w, y) /\ w.session = y.session
    BY <1>4, LabelsOK DEF Released, Relabelled
  <2> HIDE DEF w
  <2>2. Relabelled(w, x)
    BY <1>4, <2>1 DEF Relabelled
  <2> QED
    BY <1>1, <2>1, <2>2 DEF Wrote, w
<1>5. Relabelled(x, x)
  BY <1>2 DEF Relabelled
<1>6. LET y == [x EXCEPT !.task = k]
      IN  Relabelled(y, x) /\ y.session = x.session
  BY <1>2, LabelsOK
<1>7. LET y == [x EXCEPT !.session = s]
      IN  Relabelled(y, x) /\ y.session = s
  BY <1>2, LabelsOK
<1>8. LET w == Released(x)
      IN  Wrote(w, t, state) /\ w.session = view.session
  BY <1>2, <1>4, <1>5
<1>9. LET w == Released([x EXCEPT !.task = k])
      IN  Wrote(w, t, state) /\ w.session = view.session
  BY <1>2, <1>4, <1>6
<1>10. LET w == Released([x EXCEPT !.session = s])
       IN  Wrote(w, t, state) /\ w.session = s
  BY <1>4, <1>7
<1> QED
  BY <1>2, <1>3, <1>8, <1>9, <1>10

(* A turn ends: of a report, a draft, a stream or an answer.               *)
LEMMA EndsOK ==
    ASSUME TypeInv, NEW t \in DOMAIN turns, turns[t].at \in Awaits,
           NEW x, x = turns[t] \/ x = Failed(turns[t]),
           NEW state \in States \ Waiting, Wrote(view', turns[t].bubble, state),
           Becomes(t, Ended(x)), UNCHANGED <<lookups, handlers, store>>,
           \/ x = Failed(turns[t])
           \/ view'.session = view.session /\ turns[t].at \notin {"stream", "json"}
           \/ \E h \in handlers :
                /\ h.turn = t /\ h.phase = "replied"
                /\ turns[t].at \in {"stream", "json"} /\ view'.session = h.session
    PROVE  \E u : TurnStep(t, u)
<1> DEFINE a == turns[t]
           u == Ended(x)
<1>1. a \in TurnSet /\ TurnOK(t, a)
  BY TurnTyped
<1>2. /\ x \in TurnSet /\ SameBut(x, a) /\ (a.failed => x.failed)
      /\ x = Failed(a) => x.failed
  <2>1. /\ Failed(a) \in TurnSet /\ SameBut(Failed(a), a) /\ Failed(a).failed
    BY <1>1, TurnsOK
  <2>2. SameBut(a, a)
    BY DEF SameBut
  <2> QED
    BY <1>1, <2>1, <2>2
<1>3. u \in TurnSet /\ SameBut(u, x) /\ u.failed = x.failed /\ u.at = "ended"
      /\ u.saves = <<>>
  BY <1>2, TurnsOK
<1>4. turns' = [turns EXCEPT ![t] = u]
  BY DEF Becomes
<1>5. /\ u.heard = a.heard /\ u.bubble = a.bubble /\ u.clean = a.clean
      /\ (a.failed => u.failed) /\ (x = Failed(a) => u.failed)
  BY <1>2, <1>3 DEF SameBut
<1> HIDE DEF a, u
<1>6. TurnOK(t, u)
  BY <1>3 DEF TurnOK
<1>7. Paths(a, u)
  BY <1>3, <1>5 DEF Paths, Asked, Awaits, a
<1>8. Paints(a, u)
  <2>1. PICK w : Rewritten(w, view, a.bubble, state) /\ Relabelled(view', w)
    BY DEF Wrote, a
  <2>2. view'.messages = w.messages /\ state \notin Waiting
    BY <2>1 DEF Relabelled
  <2> QED
    BY <1>5, <2>1, <2>2, PaintsOK
<1>9. ViewOK(view')
  BY DEF Wrote, Relabelled
<1>10. Posts(t, a, u)
  BY <1>3 DEF Posts
<1>11. Joins(t, a, u)
  BY <1>3, <1>5 DEF Joins, Heard, a
<1> QED
  BY <1>3, <1>4, <1>6, <1>7, <1>8, <1>9, <1>10, <1>11 DEF TurnStep, a

(* A turn goes on to save what it wrote: of a report, a draft or a guide.  *)
LEMMA SavesOK ==
    ASSUME TypeInv, NEW t \in DOMAIN turns,
           turns[t].at \in {"report", "draft", "json"},
           NEW u \in TurnSet, SameBut(u, turns[t]), turns[t].failed => u.failed,
           u.at = "save", u.saves # <<>>, u.session = view.session,
           NEW state \in States \ Waiting, Wrote(view', t, state),
           view'.session = view.session, view'.sending = view.sending,
           Becomes(t, u), UNCHANGED <<lookups, handlers, store>>,
           u.failed \/ turns[t].at # "json"
    PROVE  TurnStep(t, u)
<1> DEFINE a == turns[t]
<1>1. a \in TurnSet /\ TurnOK(t, a)
  BY TurnTyped
<1>2. a.bubble = t /\ a.heard = {}
  BY <1>1 DEF TurnOK
<1>3. u.heard = {} /\ u.bubble = t /\ u.clean = a.clean
  BY <1>2 DEF SameBut
<1>4. turns' = [turns EXCEPT ![t] = u]
  BY DEF Becomes
<1> HIDE DEF a
<1>5. TurnOK(t, u)
  BY <1>3 DEF TurnOK
<1>6. Paths(a, u)
  BY <1>2, <1>3 DEF Paths, Asked, a
<1>7. Paints(a, u)
  <2>1. PICK w : Rewritten(w, view, t, state) /\ Relabelled(view', w)
    BY DEF Wrote
  <2>2. view'.messages = w.messages /\ state \notin Waiting
    BY <2>1 DEF Relabelled
  <2> QED
    BY <1>2, <1>3, <2>1, <2>2, PaintsOK
<1>8. ViewOK(view')
  BY DEF Wrote, Relabelled
<1>9. Posts(t, a, u)
  BY DEF Posts
<1>10. Joins(t, a, u)
  BY DEF Joins, a
<1> QED
  BY <1>4, <1>5, <1>6, <1>7, <1>8, <1>9, <1>10 DEF TurnStep, a

(* The report, its retry and the draft.                                    *)
LEMMA ReportDoes ==
    ASSUME TypeInv, NEW t \in DOMAIN turns,
           \/ t \in At("report") /\ (ReportArrives(t) \/ ReportFails(t))
           \/ t \in At("retry") /\ (RetryArrives(t) \/ RetryFails(t))
           \/ t \in At("draft") /\ (DraftArrives(t) \/ DraftFails(t))
    PROVE  \E u : TurnStep(t, u)
<1> DEFINE a == turns[t]
<1>1. /\ a \in TurnSet /\ TurnOK(t, a) /\ t \in 1 .. MaxTurns
      /\ a.bubble \in 1 .. MaxTurns /\ ViewOK(view) /\ view.session \in Sessions
      /\ view.task \in Tasks \cup {None, "strategy_design"}
  BY TurnTyped DEF TypeInv, Views
<1>2. /\ "done" \in States \ Waiting /\ "no report" \in States \ Waiting
      /\ "failed" \in States \ Waiting
  BY DEF States, Waiting
<1>3. ASSUME NEW state \in States, NEW b \in 1 .. MaxTurns
      PROVE  LET x == Write(view, b, state)
             IN  /\ x.task = view.task
                 /\ Wrote(x, b, state) /\ x.session = view.session
                 /\ x.sending = view.sending
                 /\ LET w == Released(x)
                    IN  Wrote(w, b, state) /\ w.session = view.session
                 /\ \A k \in Tasks \cup {None, "strategy_design"} :
                      LET w == Released([x EXCEPT !.task = k])
                      IN  Wrote(w, b, state) /\ w.session = view.session
  BY <1>1, WroteOK
<1>4. ASSUME NEW batch \in Batches, NEW c \in SUBSET Clearable
      PROVE  LET u == [Saving(a, batch, "end", view.session) EXCEPT !.clears = c]
             IN  /\ u \in TurnSet /\ SameBut(u, a) /\ u.failed = a.failed
                 /\ u.at = "save" /\ u.saves # <<>> /\ u.session = view.session
  <2> DEFINE x == Saving(a, batch, "end", view.session)
             u == [x EXCEPT !.clears = c]
  <2>1. /\ x \in TurnSet /\ SameBut(x, a) /\ x.failed = a.failed
        /\ x.at = "save" /\ x.saves # <<>> /\ x.session = view.session
    BY <1>1, SavingOK
  <2> HIDE DEF x
  <2>2. /\ u \in TurnSet /\ SameBut(u, x) /\ u.failed = x.failed
        /\ u.at = x.at /\ u.saves = x.saves /\ u.session = x.session
    <3>1. \A d \in SUBSET Clearable :
            LET y == [x EXCEPT !.clears = d]
            IN  /\ y \in TurnSet /\ SameBut(y, x) /\ y.failed = x.failed
                /\ y.at = x.at /\ y.saves = x.saves /\ y.session = x.session
      BY ONLY <2>1, TurnsOK
    <3> QED
      BY <3>1
  <2> QED
    BY <2>1, <2>2 DEF SameBut, x
<1>5. CASE t \in At("report") /\ ReportArrives(t)
  <2> DEFINE c == {"market_diagnosis"}
             batch == <<"user", "assistant">>
             w == Write(view, t, "done")
             u == [Saving(a, batch, "end", view.session) EXCEPT !.clears = c]
  <2>1. view' = w /\ Becomes(t, u) /\ UNCHANGED <<lookups, handlers, store>>
    BY <1>5 DEF ReportArrives, Quietly
  <2>2. a.at = "report"
    BY <1>5 DEF At
  <2>3. batch \in Batches /\ c \in SUBSET Clearable
    BY DEF Batches, Clearable
  <2> HIDE DEF batch, c
  <2>4. /\ u \in TurnSet /\ SameBut(u, a) /\ u.failed = a.failed
        /\ u.at = "save" /\ u.saves # <<>> /\ u.session = view.session
    BY <1>4, <2>3
  <2>5. Wrote(w, t, "done") /\ w.session = view.session /\ w.sending = view.sending
    BY <1>1, <1>2, <1>3
  <2> HIDE DEF u, w
  <2> QED
    BY <1>2, <2>1, <2>2, <2>4, <2>5, SavesOK
<1>6. CASE t \in At("draft") /\ DraftArrives(t)
  <2> DEFINE c == Tasks \cup {"strategy_design"}
             batch == <<"assistant">>
             w == Write(view, t, "done")
             u == [Saving(a, batch, "end", view.session) EXCEPT !.clears = c]
  <2>1. view' = w /\ Becomes(t, u) /\ UNCHANGED <<lookups, handlers, store>>
    BY <1>6 DEF DraftArrives, Quietly
  <2>2. a.at = "draft"
    BY <1>6 DEF At
  <2>3. batch \in Batches /\ c \in SUBSET Clearable
    BY DEF Batches, Clearable
  <2> HIDE DEF batch, c
  <2>4. /\ u \in TurnSet /\ SameBut(u, a) /\ u.failed = a.failed
        /\ u.at = "save" /\ u.saves # <<>> /\ u.session = view.session
    BY <1>4, <2>3
  <2>5. Wrote(w, t, "done") /\ w.session = view.session /\ w.sending = view.sending
    BY <1>1, <1>2, <1>3
  <2> HIDE DEF u, w
  <2> QED
    BY <1>2, <2>1, <2>2, <2>4, <2>5, SavesOK
<1>7. CASE t \in At("retry") /\ (RetryArrives(t) \/ RetryFails(t))
  <2>1. a.at = "retry" /\ a.at \in Awaits
    BY <1>7 DEF At, Awaits
  <2>2. CASE RetryArrives(t)
    <3> DEFINE w == Released(Write(view, a.bubble, "done"))
    <3>1. view' = w /\ Becomes(t, Ended(a)) /\ UNCHANGED <<lookups, handlers, store>>
      BY <2>2 DEF RetryArrives, Quietly
    <3>2. Wrote(w, a.bubble, "done") /\ w.session = view.session
      BY <1>1, <1>2, <1>3
    <3> HIDE DEF w
    <3> QED
      BY <1>2, <2>1, <3>1, <3>2, EndsOK
  <2>3. CASE RetryFails(t)
    <3> DEFINE w == Released(Write(view, a.bubble, "no report"))
    <3>1. /\ view' = w /\ Becomes(t, Ended(Failed(a)))
          /\ UNCHANGED <<lookups, handlers, store>>
      BY <2>3 DEF RetryFails
    <3>2. Wrote(w, a.bubble, "no report") /\ w.session = view.session
      BY <1>1, <1>2, <1>3
    <3> HIDE DEF w
    <3> QED
      BY <1>2, <2>1, <3>1, <3>2, EndsOK
  <2> QED
    BY <1>7, <2>2, <2>3
<1>8. CASE t \in At("report") /\ ReportFails(t)
  <2> DEFINE x == Write(view, t, "no report")
             k == IF x.task = "market_diagnosis" THEN None ELSE x.task
             w == Released([x EXCEPT !.task = k])
  <2>1. /\ view' = w /\ Becomes(t, Ended(Failed(a)))
        /\ UNCHANGED <<lookups, handlers, store>>
    BY <1>8 DEF ReportFails
  <2>2. a.at \in Awaits /\ a.bubble = t
    BY <1>1, <1>8 DEF At, Awaits, TurnOK
  <2>3. k \in Tasks \cup {None, "strategy_design"}
    <3>1. x.task = view.task
      BY <1>1, <1>2, <1>3
    <3> HIDE DEF x
    <3> QED
      BY <1>1, <3>1
  <2> HIDE DEF k
  <2>4. Wrote(w, t, "no report")
    BY <1>1, <1>2, <1>3, <2>3
  <2> HIDE DEF w, x
  <2> QED
    BY <1>2, <2>1, <2>2, <2>4, EndsOK
<1>9. CASE t \in At("draft") /\ DraftFails(t)
  <2> DEFINE x == Write(view, t, "failed")
             w == Released([x EXCEPT !.task = None])
  <2>1. /\ view' = w /\ Becomes(t, Ended(Failed(a)))
        /\ UNCHANGED <<lookups, handlers, store>>
    BY <1>9 DEF DraftFails
  <2>2. a.at \in Awaits /\ a.bubble = t
    BY <1>1, <1>9 DEF At, Awaits, TurnOK
  <2>3. Wrote(w, t, "failed")
    BY <1>1, <1>2, <1>3
  <2> HIDE DEF w, x
  <2> QED
    BY <1>2, <2>1, <2>2, <2>3, EndsOK
<1> QED
  BY <1>5, <1>6, <1>7, <1>8, <1>9

(* The intent, the preflight and the symbol.                               *)
LEMMA IntentDoes ==
    ASSUME TypeInv, NEW t \in DOMAIN turns,
           \/ t \in At("intent") /\ IntentKnown(t)
           \/ t \in At("preflight") /\ PreflightKnown(t)
           \/ t \in At("resolve") /\ Resolved(t)
    PROVE  \E u : TurnStep(t, u)
<1> DEFINE a == turns[t]
<1>1. /\ a \in TurnSet /\ TurnOK(t, a) /\ t \in 1 .. MaxTurns
      /\ ViewOK(view) /\ view.session \in Sessions /\ view \in Views
  BY TurnTyped DEF TypeInv
<1>2. a.at \in Asked
  BY DEF At, Asked
<1>3. a.bubble = t /\ a.heard = {} /\ a.saves = <<>>
  BY <1>1, <1>2 DEF TurnOK, Asked
<1>4. \A p \in Places :
        LET u == [a EXCEPT !.at = p]
        IN  /\ u \in TurnSet /\ SameBut(u, a) /\ u.failed = a.failed
            /\ u.at = p /\ u.saves = a.saves
  BY <1>1, TurnsOK
<1>5. "assistant" \in Roles /\ "loading" \in States /\ "done" \in States
      /\ "done" \notin Waiting
  BY DEF Roles, States, Waiting
<1>6. ASSUME NEW v, Relabelled(v, view), NEW state \in States
      PROVE  LET w == Push(v, t, "assistant", state)
             IN  /\ ViewOK(w) /\ w.session = v.session /\ w.sending = v.sending
                 /\ w.messages = view.messages \cup {Bubble(t, "assistant", state)}
  <2>1. ViewOK(v) /\ v.messages = view.messages
    BY <1>6 DEF Relabelled
  <2>2. LET w == Push(v, t, "assistant", state)
        IN  /\ ViewOK(w) /\ w.session = v.session /\ w.sending = v.sending
            /\ w.messages = v.messages \cup {Bubble(t, "assistant", state)}
    BY <1>1, <1>5, <2>1, PushOK
  <2> QED
    BY <2>1, <2>2
<1>7. Relabelled(view, view)
  BY <1>1 DEF Relabelled
(* A step that neither sends nor stores.                                   *)
<1>8. ASSUME NEW u \in TurnSet, SameBut(u, a), u.failed = a.failed,
             u.at \in {"draft", "preflight", "resolve", "save", "ended"},
             u.at = "save" <=> u.saves # <<>>,
             u.at = "save" => u.session = view'.session,
             ViewOK(view'), view'.session = view.session,
             u.at # "ended" => view'.sending = view.sending,
             Becomes(t, u), Quietly, Paints(a, u)
      PROVE  TurnStep(t, u)
  <2>1. u.heard = {} /\ u.bubble = t /\ u.clean = a.clean
    BY <1>3, <1>8 DEF SameBut
  <2>2. TurnOK(t, u)
    BY <1>8, <2>1 DEF TurnOK
  <2>3. Paths(a, u)
    BY <1>2, <1>3, <1>8, <2>1 DEF Paths, Asked
  <2>4. Posts(t, a, u)
    BY <1>8 DEF Posts, Quietly
  <2>5. Joins(t, a, u)
    BY <1>2, <1>8 DEF Joins, Quietly, Asked
  <2> QED
    BY <1>8, <2>2, <2>3, <2>4, <2>5 DEF TurnStep, Quietly, Becomes
<1>9. CASE t \in At("intent") /\ IntentKnown(t)
  <2>0. a.at = "intent" /\ a.at \notin Awaits
    BY <1>9 DEF At, Awaits
  <2>1. CASE /\ view' = Push([view EXCEPT !.task = "strategy_design"], t,
                             "assistant", "loading")
             /\ Becomes(t, [a EXCEPT !.at = "draft"]) /\ Quietly
    <3> DEFINE v == [view EXCEPT !.task = "strategy_design"]
               u == [a EXCEPT !.at = "draft"]
    <3>1. Relabelled(v, view) /\ v.session = view.session /\ v.sending = view.sending
      BY <1>1, LabelsOK
    <3>2. /\ ViewOK(view') /\ view'.session = v.session /\ view'.sending = v.sending
          /\ view'.messages = view.messages \cup {Bubble(t, "assistant", "loading")}
      BY <1>5, <1>6, <2>1, <3>1
    <3>3. /\ u \in TurnSet /\ SameBut(u, a) /\ u.failed = a.failed
          /\ u.at = "draft" /\ u.saves = a.saves
      BY <1>4 DEF Places
    <3> HIDE DEF u, v, a
    <3>4. u.bubble = t
      BY <1>3, <3>3 DEF SameBut
    <3>5. Paints(a, u)
      <4>1. u.at \in Awaits
        BY <3>3 DEF Awaits
      <4> QED
        BY <1>3, <1>5, <3>2, <3>4, <4>1, PaintsOK
    <3> QED
      BY <1>3, <1>8, <2>1, <3>1, <3>2, <3>3, <3>5 DEF u
  <2>2. CASE /\ view' = Released(Push(view, t, "assistant", "done"))
             /\ Becomes(t, Ended(a)) /\ Quietly
    <3> DEFINE w == Push(view, t, "assistant", "done")
               u == Ended(a)
    <3>1. /\ ViewOK(w) /\ w.session = view.session
          /\ w.messages = view.messages \cup {Bubble(t, "assistant", "done")}
      BY <1>5, <1>6, <1>7
    <3>0. view' = [w EXCEPT !.sending = FALSE]
      BY <2>2 DEF Released
    <3> HIDE DEF w
    <3>2. Relabelled(view', w) /\ view'.session = w.session
      <4>1. LET y == [w EXCEPT !.sending = FALSE]
            IN  Relabelled(y, w) /\ y.session = w.session
        BY <1>1, <3>1, LabelsOK
      <4> QED
        BY <3>0, <4>1
    <3>3. /\ u \in TurnSet /\ SameBut(u, a) /\ u.failed = a.failed
          /\ u.at = "ended" /\ u.saves = <<>>
      BY <1>1, TurnsOK
    <3> HIDE DEF u, a
    <3>4. u.bubble = t
      BY <1>3, <3>3 DEF SameBut
    <3>5. Paints(a, u)
      <4>1. view'.messages = view.messages \cup {Bubble(u.bubble, "assistant", "done")}
        BY <3>1, <3>2, <3>4 DEF Relabelled
      <4> QED
        BY <1>3, <1>5, <2>0, <3>4, <4>1, PaintsOK
    <3>6. ViewOK(view') /\ view'.session = view.session
      BY <3>1, <3>2 DEF Relabelled
    <3> QED
      BY <1>8, <2>2, <3>3, <3>5, <3>6 DEF u
  <2>3. CASE /\ Becomes(t, [a EXCEPT !.at = "preflight"])
             /\ UNCHANGED view /\ Quietly
    <3> DEFINE u == [a EXCEPT !.at = "preflight"]
    <3>1. /\ u \in TurnSet /\ SameBut(u, a) /\ u.failed = a.failed
          /\ u.at = "preflight" /\ u.saves = a.saves
      BY <1>4 DEF Places
    <3> HIDE DEF u, a
    <3>2. u.bubble = t
      BY <1>3, <3>1 DEF SameBut
    <3>3. Paints(a, u)
      BY <1>3, <2>0, <2>3, <3>2, PaintsOK
    <3> QED
      BY <1>1, <1>3, <1>8, <2>3, <3>1, <3>3 DEF u
  <2> QED
    BY <1>9, <2>1, <2>2, <2>3 DEF IntentKnown
<1>10. CASE t \in At("preflight") /\ PreflightKnown(t)
  <2>0. a.at = "preflight" /\ a.at \notin Awaits
    BY <1>10 DEF At, Awaits
  <2>1. CASE /\ view' = Push(view, t, "assistant", "done")
             /\ Becomes(t, Saving(a, <<"assistant">>, "end", view.session))
             /\ Quietly
    <3> DEFINE batch == <<"assistant">>
               u == Saving(a, batch, "end", view.session)
    <3>1. /\ ViewOK(view') /\ view'.session = view.session
          /\ view'.sending = view.sending
          /\ view'.messages = view.messages \cup {Bubble(t, "assistant", "done")}
      BY <1>5, <1>6, <1>7, <2>1
    <3>2. batch \in Batches
      BY DEF Batches
    <3>3. Becomes(t, u)
      BY <2>1
    <3> HIDE DEF batch
    <3>4. /\ u \in TurnSet /\ SameBut(u, a) /\ u.failed = a.failed
          /\ u.at = "save" /\ u.saves # <<>> /\ u.session = view.session
      BY <1>1, <3>2, SavingOK
    <3> HIDE DEF u, a
    <3>5. u.bubble = t
      BY <1>3, <3>4 DEF SameBut
    <3>6. Paints(a, u)
      BY <1>3, <1>5, <2>0, <3>1, <3>5, PaintsOK
    <3> QED
      BY <1>8, <2>1, <3>1, <3>3, <3>4, <3>6
  <2>2. CASE /\ view' = Push(view, t, "assistant", "loading")
             /\ Becomes(t, [a EXCEPT !.at = "resolve"]) /\ Quietly
    <3> DEFINE u == [a EXCEPT !.at = "resolve"]
    <3>1. /\ ViewOK(view') /\ view'.session = view.session
          /\ view'.sending = view.sending
          /\ view'.messages = view.messages \cup {Bubble(t, "assistant", "loading")}
      BY <1>5, <1>6, <1>7, <2>2
    <3>2. /\ u \in TurnSet /\ SameBut(u, a) /\ u.failed = a.failed
          /\ u.at = "resolve" /\ u.saves = a.saves
      BY <1>4 DEF Places
    <3> HIDE DEF u, a
    <3>3. u.bubble = t
      BY <1>3, <3>2 DEF SameBut
    <3>4. Paints(a, u)
      <4>1. u.at \in Awaits
        BY <3>2 DEF Awaits
      <4> QED
        BY <1>3, <1>5, <3>1, <3>3, <4>1, PaintsOK
    <3> QED
      BY <1>3, <1>8, <2>2, <3>1, <3>2, <3>4 DEF u
  <2> QED
    BY <1>10, <2>1, <2>2 DEF PreflightKnown
<1>11. CASE t \in At("resolve") /\ Resolved(t)
  <2>1. PICK via \in {"stream", "json"} : Chat(t, via, a)
    BY <1>11 DEF Resolved
  <2> DEFINE u == [a EXCEPT !.at = via]
  <2>2. /\ turns' = [turns EXCEPT ![t] = u]
        /\ handlers' = handlers \cup {Posted(t, via, view)}
        /\ UNCHANGED <<view, lookups, store>>
    BY <1>11, <2>1 DEF Chat, Becomes, Resolved
  <2>3. a.at = "resolve"
    BY <1>11 DEF At
  <2>4. /\ u \in TurnSet /\ SameBut(u, a) /\ u.failed = a.failed
        /\ u.at = via /\ u.saves = a.saves
    BY <1>4 DEF Places
  <2> HIDE DEF u, a
  <2>5. u.heard = {} /\ u.bubble = t /\ u.clean = a.clean
    BY <1>3, <2>4 DEF SameBut
  <2>6. TurnOK(t, u)
    BY <1>3, <2>4, <2>5 DEF TurnOK
  <2>7. Paths(a, u)
    BY <1>3, <2>3, <2>4, <2>5 DEF Paths, Asked
  <2>8. Paints(a, u)
    <3>1. u.at \in Awaits
      BY <2>4 DEF Awaits
    <3> QED
      BY <1>3, <2>2, <2>5, <3>1, PaintsOK
  <2>9. Posts(t, a, u)
    BY <1>3, <2>2, <2>3, <2>4, <2>5 DEF Posts
  <2>10. Joins(t, a, u)
    BY <2>2, <2>3, <2>4 DEF Joins
  <2> QED
    BY <1>1, <2>2, <2>4, <2>6, <2>7, <2>8, <2>9, <2>10 DEF TurnStep, a
<1> QED
  BY <1>9, <1>10, <1>11

(* The stream and the answer.                                              *)
LEMMA StreamDoes ==
    ASSUME TypeInv, NEW t \in At("stream"),
           \/ StreamDrops(t)
           \/ \E h \in HandlerOf(t, "stream") :
                HeardAccepted(t, h) \/ HeardContent(t, h) \/ HeardDone(t, h)
                \/ HeardError(t, h)
    PROVE  \E u : TurnStep(t, u)
<1> DEFINE a == turns[t]
<1>1. /\ t \in DOMAIN turns /\ a \in TurnSet /\ TurnOK(t, a) /\ t \in 1 .. MaxTurns
      /\ ViewOK(view) /\ view.session \in Sessions /\ view \in Views
  BY TurnTyped DEF TypeInv, At
<1>2. a.at = "stream" /\ a.at \in Awaits
  BY DEF At, Awaits
<1>3. a.bubble = t /\ a.saves = <<>> /\ a.heard \in SUBSET {"accepted", "content"}
  BY <1>1, <1>2 DEF TurnOK, TurnSet
<1>4. /\ "partial" \in States /\ "loading" \in States
      /\ "done" \in States \ Waiting /\ "failed" \in States \ Waiting
  BY DEF States, Waiting
<1>5. ASSUME NEW state \in States
      PROVE  LET x == Write(view, t, state)
             IN  /\ Wrote(x, t, state) /\ x.session = view.session
                 /\ x.sending = view.sending
                 /\ LET w == Released(x)
                    IN  Wrote(w, t, state) /\ w.session = view.session
                 /\ \A s \in Sessions :
                      LET w == Released([x EXCEPT !.session = s])
                      IN  Wrote(w, t, state) /\ w.session = s
  <2>1. None \in Tasks \cup {None, "strategy_design"}
    OBVIOUS
  <2> QED
    BY <1>1, <2>1, WroteOK
<1>6. \A c \in SUBSET {"accepted", "content"} :
        LET u == [a EXCEPT !.heard = c]
        IN  /\ u \in TurnSet /\ u.bubble = a.bubble /\ u.clean = a.clean
            /\ u.failed = a.failed /\ u.heard = c
            /\ u.at = a.at /\ u.saves = a.saves
  BY <1>1, TurnsOK
(* A step that goes on reading the stream.                                 *)
<1>7. ASSUME NEW c \in SUBSET {"accepted", "content"},
             Becomes(t, [a EXCEPT !.heard = c]), Quietly,
             ViewOK(view'), view'.sending = view.sending,
             \A b \in view'.messages : b.state \in Waiting =>
                b \in view.messages \/ b.turn = t,
             \/ view'.session = view.session
             \/ \E h \in handlers :
                  /\ h.turn = t /\ h.phase \in Heard /\ view'.session = h.session
      PROVE  \E u : TurnStep(t, u)
  <2> DEFINE u == [a EXCEPT !.heard = c]
  <2>1. /\ u \in TurnSet /\ u.bubble = a.bubble /\ u.clean = a.clean
        /\ u.failed = a.failed /\ u.heard = c /\ u.at = a.at /\ u.saves = a.saves
    BY <1>6
  <2>2. turns' = [turns EXCEPT ![t] = u]
    BY <1>7 DEF Becomes
  <2> HIDE DEF u, a
  <2>3. TurnOK(t, u)
    BY <1>2, <1>3, <2>1 DEF TurnOK
  <2>4. Paths(a, u)
    BY <1>2, <2>1 DEF Paths, Asked
  <2>5. Posts(t, a, u)
    BY <1>2, <1>7, <2>1 DEF Posts, Quietly
  <2>6. Paints(a, u)
    BY <1>2, <1>3, <1>7, <2>1 DEF Paints
  <2>7. Joins(t, a, u)
    BY <1>2, <1>7, <2>1 DEF Joins, Quietly
  <2> QED
    BY <1>2, <1>7, <2>1, <2>2, <2>3, <2>4, <2>5, <2>6, <2>7 DEF TurnStep, Quietly, a
(* The stream throws.                                                      *)
<1>8. ASSUME StreamThrows(t), UNCHANGED <<lookups, store>>
      PROVE  \E u : TurnStep(t, u)
  <2>1. CASE a.heard # {}
    <3> DEFINE w == Released(Write(view, t, "failed"))
    <3>1. /\ view' = w /\ Becomes(t, Ended(Failed(a)))
          /\ UNCHANGED <<lookups, handlers, store>>
      BY <1>8, <2>1 DEF StreamThrows
    <3>2. Wrote(w, t, "failed")
      BY <1>4, <1>5
    <3> HIDE DEF w
    <3> QED
      BY <1>1, <1>2, <1>3, <1>4, <3>1, <3>2, EndsOK
  <2>2. CASE a.heard = {}
    <3> DEFINE w == Write(view, t, "loading")
               f == Failed(a)
               u == [f EXCEPT !.at = "json"]
    <3>1. /\ view' = w /\ turns' = [turns EXCEPT ![t] = u]
          /\ handlers' = handlers \cup {Posted(t, "json", view)}
          /\ UNCHANGED <<lookups, store>>
      BY <1>8, <2>2 DEF StreamThrows, Chat, Becomes
    <3>2. f \in TurnSet /\ SameBut(f, a) /\ f.failed /\ f.saves = a.saves
      BY <1>1, TurnsOK
    <3> HIDE DEF f
    <3>3. u \in TurnSet /\ SameBut(u, f) /\ u.failed = f.failed /\ u.at = "json"
          /\ u.saves = f.saves
      <4>1. "json" \in Places
        BY DEF Places
      <4> QED
        BY <3>2, <4>1, TurnsOK
    <3> HIDE DEF u, a
    <3>4. /\ u.heard = {} /\ u.bubble = t /\ u.clean = a.clean /\ u.failed
          /\ u.saves = <<>>
      BY <1>3, <2>2, <3>2, <3>3 DEF SameBut
    <3>5. Wrote(w, t, "loading") /\ w.session = view.session
          /\ w.sending = view.sending
      BY <1>4, <1>5
    <3> HIDE DEF w
    <3>6. TurnOK(t, u)
      BY <3>3, <3>4 DEF TurnOK
    <3>7. Paths(a, u)
      BY <1>2, <1>3, <3>3, <3>4 DEF Paths, Asked
    <3>8. Paints(a, u)
      <4>1. PICK x : Rewritten(x, view, t, "loading") /\ Relabelled(w, x)
        BY <3>5 DEF Wrote
      <4>2. view'.messages = x.messages /\ u.at \in Awaits
        BY <3>1, <3>3, <4>1 DEF Relabelled, Awaits
      <4> QED
        BY <1>3, <1>4, <3>4, <4>1, <4>2, PaintsOK
    <3>9. Posts(t, a, u)
      BY <1>2, <2>2, <3>1, <3>3, <3>4 DEF Posts
    <3>10. Joins(t, a, u)
      BY <3>4 DEF Joins
    <3>11. ViewOK(view')
      BY <3>1, <3>5 DEF Wrote, Relabelled
    <3> QED
      BY <3>1, <3>3, <3>5, <3>6, <3>7, <3>8, <3>9, <3>10, <3>11 DEF TurnStep, a
  <2> QED
    BY <2>1, <2>2
<1>9. CASE StreamDrops(t)
  BY <1>8, <1>9 DEF StreamDrops
<1>10. ASSUME NEW h \in HandlerOf(t, "stream"),
              HeardAccepted(t, h) \/ HeardContent(t, h) \/ HeardDone(t, h)
              \/ HeardError(t, h)
       PROVE  \E u : TurnStep(t, u)
  <2>1. h \in handlers /\ h.turn = t /\ h.session \in Sessions
    BY DEF HandlerOf, TypeInv, HandlerSet
  <2>2. CASE HeardAccepted(t, h)
    <3> DEFINE s == h.session
               w == [view EXCEPT !.session = s]
    <3>1. Relabelled(w, view) /\ w.session = s /\ w.sending = view.sending
      <4>1. s \in Sessions
        BY <2>1
      <4> HIDE DEF s
      <4> QED
        BY <1>1, <4>1, LabelsOK DEF Views
    <3>2. /\ view' = w /\ h.phase \in Heard /\ Quietly
          /\ Becomes(t, [a EXCEPT !.heard = {"accepted"}])
      BY <2>2 DEF HeardAccepted, Heard
    <3> HIDE DEF w
    <3>3. {"accepted"} \in SUBSET {"accepted", "content"}
      OBVIOUS
    <3> QED
      BY <1>7, <2>1, <3>1, <3>2, <3>3 DEF Relabelled
  <2>3. CASE HeardContent(t, h)
    <3> DEFINE w == Write(view, t, "partial")
               c == a.heard \cup {"content"}
    <3>1. view' = w /\ Quietly /\ Becomes(t, [a EXCEPT !.heard = c])
      BY <2>3 DEF HeardContent
    <3>2. Wrote(w, t, "partial") /\ w.session = view.session
          /\ w.sending = view.sending
      BY <1>4, <1>5
    <3>3. c \in SUBSET {"accepted", "content"}
      BY <1>3
    <3> HIDE DEF w, c
    <3>4. PICK x : Rewritten(x, view, t, "partial") /\ Relabelled(w, x)
      BY <3>2 DEF Wrote
    <3>5. ViewOK(view')
      BY <3>1, <3>4 DEF Relabelled
    <3>6. \A b \in view'.messages : b.state \in Waiting =>
             b \in view.messages \/ b.turn = t
      BY <3>1, <3>4 DEF Relabelled, Rewritten
    <3> QED
      BY <1>7, <3>1, <3>2, <3>3, <3>5, <3>6
  <2>4. CASE HeardDone(t, h)
    <3> DEFINE state == IF "content" \in a.heard THEN "done" ELSE "failed"
               w == Released([Write(view, t, state) EXCEPT !.session = h.session])
    <3>1. /\ view' = w /\ Becomes(t, Ended(a)) /\ h.phase = "replied"
          /\ UNCHANGED <<lookups, handlers, store>>
      BY <2>4 DEF HeardDone, Quietly
    <3>2. state \in States \ Waiting
      BY <1>4
    <3> HIDE DEF state
    <3>3. Wrote(w, t, state) /\ w.session = h.session
      BY <1>5, <2>1, <3>2
    <3> HIDE DEF w
    <3> QED
      BY <1>1, <1>2, <1>3, <2>1, <3>1, <3>2, <3>3, EndsOK
  <2>5. CASE HeardError(t, h)
    BY <1>8, <2>5 DEF HeardError
  <2> QED
    BY <1>10, <2>2, <2>3, <2>4, <2>5
<1> QED
  BY <1>9, <1>10

(* The answer that is not streamed.                                        *)
LEMMA JsonDoes ==
    ASSUME TypeInv, NEW t \in At("json"),
           \/ JsonDrops(t)
           \/ \E h \in HandlerOf(t, "json") : JsonReplied(t, h) \/ JsonRefused(t, h)
    PROVE  \E u : TurnStep(t, u)
<1> DEFINE a == turns[t]
<1>1. /\ t \in DOMAIN turns /\ a \in TurnSet /\ TurnOK(t, a) /\ t \in 1 .. MaxTurns
      /\ ViewOK(view) /\ view.session \in Sessions
  BY TurnTyped DEF TypeInv, At
<1>2. a.at = "json" /\ a.at \in Awaits
  BY DEF At, Awaits
<1>3. a.bubble = t
  BY <1>1, <1>2 DEF TurnOK
<1>4. "done" \in States \ Waiting
  BY DEF States, Waiting
<1> DEFINE x == ReplacePendingAssistant(view, t, "done")
<1>5. /\ Wrote(x, t, "done") /\ x.session = view.session /\ x.sending = view.sending
      /\ \A s \in Sessions :
           LET w == Released([x EXCEPT !.session = s])
           IN  Wrote(w, t, "done") /\ w.session = s
  <2>1. None \in Tasks \cup {None, "strategy_design"}
    OBVIOUS
  <2> QED
    BY <1>1, <1>4, <2>1, WroteOK
<1>6. ASSUME Guided(t), UNCHANGED <<lookups, handlers, store>>
      PROVE  \E u : TurnStep(t, u)
  <2> DEFINE batch == <<"assistant">>
             f == Failed(a)
             u == Saving(f, batch, "end", view.session)
  <2>1. view' = x /\ Becomes(t, u)
    BY <1>6 DEF Guided
  <2>2. batch \in Batches
    BY DEF Batches
  <2>3. f \in TurnSet /\ SameBut(f, a) /\ f.failed
    BY <1>1, TurnsOK
  <2> HIDE DEF batch, f
  <2>4. /\ u \in TurnSet /\ SameBut(u, f) /\ u.failed = f.failed
        /\ u.at = "save" /\ u.saves # <<>> /\ u.session = view.session
    BY <1>1, <2>2, <2>3, SavingOK
  <2> HIDE DEF u, x
  <2>5. SameBut(u, a) /\ u.failed
    BY <2>3, <2>4 DEF SameBut
  <2> QED
    BY <1>1, <1>2, <1>4, <1>5, <1>6, <2>1, <2>4, <2>5, SavesOK
<1>7. CASE JsonDrops(t)
  BY <1>6, <1>7 DEF JsonDrops
<1>8. ASSUME NEW h \in HandlerOf(t, "json"), JsonReplied(t, h) \/ JsonRefused(t, h)
      PROVE  \E u : TurnStep(t, u)
  <2>1. h \in handlers /\ h.turn = t /\ h.session \in Sessions
    BY DEF HandlerOf, TypeInv, HandlerSet
  <2>2. CASE JsonRefused(t, h)
    BY <1>6, <2>2 DEF JsonRefused, Quietly
  <2>3. CASE JsonReplied(t, h)
    <3> DEFINE w == Released([x EXCEPT !.session = h.session])
    <3>1. /\ view' = w /\ Becomes(t, Ended(a)) /\ h.phase = "replied"
          /\ UNCHANGED <<lookups, handlers, store>>
      BY <2>3 DEF JsonReplied, Quietly
    <3>2. Wrote(w, t, "done") /\ w.session = h.session
      BY <1>5, <2>1
    <3> HIDE DEF w, x
    <3> QED
      BY <1>1, <1>2, <1>3, <1>4, <2>1, <3>1, <3>2, EndsOK
  <2> QED
    BY <1>8, <2>2, <2>3
<1> QED
  BY <1>7, <1>8

(* Whatever continues a turn, or fails it, is such a step.                 *)
LEMMA TurnDoes ==
    ASSUME TypeInv, NEW t \in DOMAIN turns, Continue(t) \/ Fails(t)
    PROVE  \E u : TurnStep(t, u)
<1>1. CASE Continue(t)
  BY <1>1, SavedDoes, ReportDoes, IntentDoes, StreamDoes, JsonDoes DEF Continue
<1>2. CASE Fails(t)
  BY <1>2, SavedDoes, ReportDoes, StreamDoes, JsonDoes DEF Fails
<1> QED
  BY <1>1, <1>2

-----------------------------------------------------------------------------
(* The other steps.  x is a turn another step leaves as it was, but that   *)
(* it may be disturbed.                                                    *)
Kept(x, a) ==
    /\ x \in TurnSet /\ x.at = a.at /\ x.saves = a.saves /\ x.session = a.session
    /\ x.heard = a.heard /\ x.bubble = a.bubble /\ x.failed = a.failed
    /\ x.clean => a.clean

KeepsTurns == \A t \in DOMAIN turns : Kept(turns'[t], turns[t])

(* A turn begins.                                                          *)
Begins(u) ==
    LET n == Len(turns) + 1 IN
    /\ n <= MaxTurns
    /\ turns' \in Seq(TurnSet) /\ Len(turns') = n /\ turns'[n] = u /\ KeepsTurns
    /\ TurnOK(n, u) /\ u.heard = {}
    /\ u.at \in {"save", "report", "intent", "retry"}
    /\ ViewOK(view') /\ view'.session = view.session /\ view'.sending
    /\ UNCHANGED <<lookups, handlers, store>>
    /\ \A b \in view'.messages : b.state \in Waiting =>
         b \in view.messages \/ (b.turn = u.bubble /\ u.at \in Awaits)
    /\ u.at = "save" => u.session = view.session
    /\ u.clean => u.at # "retry" /\ Active = {} /\ lookups = {}
    /\ ~view.sending \/ \A t \in DOMAIN turns : ~turns'[t].clean

(* The user turns elsewhere, or an answer of that arrives.                 *)
Looks ==
    /\ ViewOK(view') /\ view'.sending = view.sending
    /\ \A b \in view'.messages : b.state \in Waiting => b \in view.messages
    /\ handlers' = handlers
    /\ StoreOK(store') /\ store'.rows \subseteq store.rows
    /\ turns' \in Seq(TurnSet) /\ Len(turns') = Len(turns) /\ KeepsTurns
    /\ \/ lookups # {}
       \/ \A t \in DOMAIN turns : ~turns'[t].clean
       \/ UNCHANGED <<lookups, store>> /\ view'.session = view.session

Works(h) == Accept(h) \/ Reply(h) \/ Refuse(h) \/ Break(h)

(* A turn left alone, and a turn a click disturbed.                        *)
LEMMA KeptOK ==
    ASSUME NEW a \in TurnSet
    PROVE  /\ Kept(a, a)
           /\ LET x == [a EXCEPT !.clean = FALSE] IN Kept(x, a) /\ ~x.clean
<1>1. Kept(a, a)
  BY DEF Kept
<1> DEFINE x == [a EXCEPT !.clean = FALSE]
<1>2. x \in TurnSet /\ ~x.clean
  BY DEF TurnSet
<1>3. /\ x.at = a.at /\ x.saves = a.saves /\ x.session = a.session
      /\ x.heard = a.heard /\ x.bubble = a.bubble /\ x.failed = a.failed
  BY DEF TurnSet
<1> HIDE DEF x
<1>4. Kept(x, a) /\ ~x.clean
  BY <1>2, <1>3 DEF Kept
<1> QED
  BY <1>1, <1>4 DEF x

(* The turns as LooksAway leaves them.                                     *)
LEMMA LooksAwayOK ==
    ASSUME TypeInv
    PROVE  LET s == [t \in DOMAIN turns |-> [turns[t] EXCEPT !.clean = FALSE]]
           IN  /\ s \in Seq(TurnSet) /\ Len(s) = Len(turns)
               /\ \A t \in DOMAIN turns : Kept(s[t], turns[t]) /\ ~s[t].clean
<1> DEFINE e(t) == [turns[t] EXCEPT !.clean = FALSE]
           n == Len(turns)
           s == [t \in DOMAIN turns |-> e(t)]
<1>1. DOMAIN turns = 1 .. n /\ n \in Nat /\ \A t \in 1 .. n : turns[t] \in TurnSet
  BY LenProperties, ElementOfSeq DEF TypeInv
<1>2. \A t \in 1 .. n : Kept(e(t), turns[t]) /\ ~e(t).clean /\ e(t) \in TurnSet
  <2> SUFFICES ASSUME NEW t \in 1 .. n
               PROVE  Kept(e(t), turns[t]) /\ ~e(t).clean /\ e(t) \in TurnSet
    OBVIOUS
  <2>1. Kept(e(t), turns[t]) /\ ~e(t).clean
    BY <1>1, KeptOK
  <2> QED
    BY <2>1 DEF Kept
<1> HIDE DEF e, n
<1>3. s = [t \in 1 .. n |-> e(t)]
  BY <1>1
<1>4. s \in Seq(TurnSet) /\ DOMAIN s = 1 .. n
  BY <1>1, <1>2, <1>3, IsASeq
<1>5. Len(s) = n
  BY <1>1, <1>4, LenProperties
<1>6. \A t \in DOMAIN turns : Kept(s[t], turns[t]) /\ ~s[t].clean
  BY <1>1, <1>2
<1> QED
  BY <1>4, <1>5, <1>6 DEF e, n

(* A turn that begins.                                                     *)
LEMMA NewTurnOK ==
    ASSUME NEW t \in 1 .. MaxTurns, NEW at \in Places
    PROVE  LET u == Turn(t, at)
           IN  /\ u \in TurnSet /\ u.at = at /\ u.saves = <<>> /\ u.heard = {}
               /\ u.bubble = t
               /\ u.clean => Active = {} /\ lookups = {}
<1> DEFINE c == Active = {} /\ lookups = {}
           u == Turn(t, at)
<1>1. c \in BOOLEAN
  OBVIOUS
<1>2. u = [at |-> at, saves |-> <<>>, after |-> "end", session |-> None,
           clears |-> {}, heard |-> {}, bubble |-> t, clean |-> c,
           failed |-> FALSE]
  BY DEF Turn
<1>3. u.clean = c
  BY <1>2
<1>4. u.clean => Active = {} /\ lookups = {}
  BY <1>3 DEF c
<1> HIDE DEF c
<1>5. /\ u \in TurnSet /\ u.at = at /\ u.saves = <<>> /\ u.heard = {}
      /\ u.bubble = t
  BY <1>1, <1>2 DEF TurnSet, Sessions
<1> QED
  BY <1>4, <1>5 DEF u

(* sendMessage.                                                            *)
LEMMA SendDoes ==
    ASSUME TypeInv, Send
    PROVE  \E u : Begins(u)
<1> DEFINE t == Len(turns) + 1
           shown == [view EXCEPT !.sending = TRUE]
           pushed == Push(shown, t, "user", "shown")
<1>1. /\ ViewOK(view) /\ view \in Views /\ view.session \in Sessions
      /\ turns \in Seq(TurnSet) /\ Len(turns) \in Nat
      /\ DOMAIN turns = 1 .. Len(turns)
      /\ \A n \in DOMAIN turns : turns[n] \in TurnSet
  BY LenProperties, ElementOfSeq DEF TypeInv, ViewOK, Views
<1>2. t \in 1 .. MaxTurns /\ ~view.sending
  BY <1>1 DEF Send
<1>3. /\ "user" \in Roles /\ "assistant" \in Roles /\ "shown" \in States
      /\ "done" \in States /\ "loading" \in States
      /\ "shown" \notin Waiting /\ "done" \notin Waiting
  BY DEF Roles, States, Waiting
<1>4. /\ ViewOK(pushed) /\ pushed.session = view.session /\ pushed.sending
      /\ pushed.messages = view.messages \cup {Bubble(t, "user", "shown")}
  <2>1. /\ Relabelled(shown, view) /\ shown.session = view.session
        /\ shown.sending = TRUE
    BY <1>1, LabelsOK DEF Views
  <2>2. ViewOK(shown) /\ shown.messages = view.messages
    BY <2>1 DEF Relabelled
  <2> HIDE DEF shown, t
  <2> QED
    BY <1>2, <1>3, <2>1, <2>2, PushOK
<1> HIDE DEF shown, pushed
<1>5. ASSUME NEW state \in States
      PROVE  LET w == Push(pushed, t, "assistant", state)
             IN  /\ ViewOK(w) /\ w.session = view.session /\ w.sending
                 /\ w.messages = view.messages \cup
                      {Bubble(t, "user", "shown"), Bubble(t, "assistant", state)}
  <2> HIDE DEF t
  <2>1. LET w == Push(pushed, t, "assistant", state)
        IN  /\ ViewOK(w) /\ w.session = pushed.session /\ w.sending = pushed.sending
            /\ w.messages = pushed.messages \cup {Bubble(t, "assistant", state)}
    <3>1. t \in 1 .. MaxTurns /\ "assistant" \in Roles /\ ViewOK(pushed)
      BY <1>2, <1>3, <1>4
    <3> QED
      BY ONLY <3>1, state \in States, PushOK
  <2> QED
    BY <1>4, <2>1
<1>6. ASSUME NEW at \in Places
      PROVE  LET u == Turn(t, at)
             IN  /\ u \in TurnSet /\ u.at = at /\ u.saves = <<>> /\ u.heard = {}
                 /\ u.bubble = t
                 /\ u.clean => Active = {} /\ lookups = {}
  BY <1>2, NewTurnOK
(* What all of them do.                                                    *)
<1>7. ASSUME NEW u \in TurnSet, NEW w, view' = w, turns' = Append(turns, u), Quietly,
             ViewOK(w), w.session = view.session, w.sending,
             \A b \in w.messages : b.state \in Waiting =>
                b \in view.messages \/ (b.turn = t /\ u.at \in Awaits),
             u.at \in {"save", "report", "intent"}, u.heard = {}, u.bubble = t,
             u.clean => Active = {} /\ lookups = {},
             u.at = "save" <=> u.saves # <<>>,
             u.at = "save" => u.session = view.session
      PROVE  Begins(u)
  <2>1. /\ turns' \in Seq(TurnSet) /\ Len(turns') = t /\ turns'[t] = u
        /\ \A i \in DOMAIN turns : turns'[i] = turns[i]
    BY <1>1, <1>7, AppendProperties
  <2>2. KeepsTurns
    BY <1>1, <2>1, KeptOK DEF KeepsTurns
  <2>3. TurnOK(t, u)
    BY <1>7 DEF TurnOK
  <2> QED
    BY <1>2, <1>7, <2>1, <2>2, <2>3 DEF Begins, Quietly
<1>0. \/ /\ view' = Push(pushed, t, "assistant", "done") /\ Quietly
         /\ turns' = Append(turns, Saving(Turn(t, "save"), <<"user", "assistant">>,
                                          "end", view.session))
      \/ /\ view' = pushed /\ Quietly
         /\ turns' = Append(turns, Saving(Turn(t, "save"), <<"user">>, "draft",
                                          view.session))
      \/ /\ view' = Push(pushed, t, "assistant", "loading") /\ Quietly
         /\ turns' = Append(turns, Turn(t, "report"))
      \/ view' = pushed /\ Quietly /\ turns' = Append(turns, Turn(t, "intent"))
  BY DEF Send, pushed, shown
<1>8. CASE \E batch \in Batches, after \in {"end", "draft"} :
             /\ turns' = Append(turns, Saving(Turn(t, "save"), batch, after,
                                              view.session))
             /\ Quietly
             /\ view' = Push(pushed, t, "assistant", "done") \/ view' = pushed
  <2>1. PICK batch \in Batches, after \in {"end", "draft"} :
          /\ turns' = Append(turns, Saving(Turn(t, "save"), batch, after, view.session))
          /\ Quietly
          /\ view' = Push(pushed, t, "assistant", "done") \/ view' = pushed
    BY <1>8
  <2> DEFINE n == Turn(t, "save")
             u == Saving(n, batch, after, view.session)
  <2>2. "save" \in Places
    BY DEF Places
  <2>3. /\ n \in TurnSet /\ n.heard = {} /\ n.bubble = t
        /\ n.clean => Active = {} /\ lookups = {}
    BY <1>6, <2>2
  <2>0. turns' = Append(turns, u)
    BY <2>1
  <2> HIDE DEF n
  <2>4. /\ u \in TurnSet /\ SameBut(u, n) /\ u.at = "save" /\ u.saves # <<>>
        /\ u.session = view.session
    BY <1>1, <2>3, SavingOK
  <2> HIDE DEF u
  <2>5. /\ u.heard = {} /\ u.bubble = t
        /\ u.clean => Active = {} /\ lookups = {}
    BY <2>3, <2>4 DEF SameBut
  <2>6. /\ ViewOK(view') /\ view'.session = view.session /\ view'.sending
        /\ view'.messages \subseteq view.messages \cup
             {Bubble(t, "user", "shown"), Bubble(t, "assistant", "done")}
    BY <1>3, <1>4, <1>5, <2>1
  <2>7. \A b \in view'.messages : b.state \in Waiting => b \in view.messages
    BY <1>3, <2>6 DEF Bubble
  <2> QED
    BY <1>7, <2>0, <2>1, <2>4, <2>5, <2>6, <2>7
<1>9. CASE /\ view' = Push(pushed, t, "assistant", "loading") /\ Quietly
           /\ turns' = Append(turns, Turn(t, "report"))
  <2> DEFINE u == Turn(t, "report")
  <2>1. /\ turns' = Append(turns, u) /\ Quietly
        /\ view' = Push(pushed, t, "assistant", "loading")
    BY <1>9
  <2>2. "report" \in Places
    BY DEF Places
  <2>3. /\ u \in TurnSet /\ u.at = "report" /\ u.saves = <<>> /\ u.heard = {}
        /\ u.bubble = t
        /\ u.clean => Active = {} /\ lookups = {}
    BY <1>6, <2>2
  <2> HIDE DEF u
  <2>4. /\ ViewOK(view') /\ view'.session = view.session /\ view'.sending
        /\ view'.messages = view.messages \cup
             {Bubble(t, "user", "shown"), Bubble(t, "assistant", "loading")}
    BY <1>3, <1>5, <2>1
  <2>5. \A b \in view'.messages : b.state \in Waiting =>
          b \in view.messages \/ (b.turn = t /\ u.at \in Awaits)
    BY <1>3, <2>3, <2>4 DEF Bubble, Awaits
  <2> QED
    BY <1>7, <2>1, <2>3, <2>4, <2>5
<1>10. CASE view' = pushed /\ Quietly /\ turns' = Append(turns, Turn(t, "intent"))
  <2> DEFINE u == Turn(t, "intent")
  <2>1. turns' = Append(turns, u) /\ Quietly /\ view' = pushed
    BY <1>10
  <2>2. "intent" \in Places
    BY DEF Places
  <2>3. /\ u \in TurnSet /\ u.at = "intent" /\ u.saves = <<>> /\ u.heard = {}
        /\ u.bubble = t
        /\ u.clean => Active = {} /\ lookups = {}
    BY <1>6, <2>2
  <2> HIDE DEF u
  <2>4. \A b \in view'.messages : b.state \in Waiting => b \in view.messages
    BY <1>3, <1>4, <2>1 DEF Bubble
  <2> QED
    BY <1>4, <1>7, <2>1, <2>3, <2>4
<1>11. <<"user", "assistant">> \in Batches /\ <<"user">> \in Batches
  BY DEF Batches
<1> HIDE DEF t
<1> QED
  BY <1>0, <1>8, <1>9, <1>10, <1>11

(* retryProfessionalAnalysis.                                              *)
LEMMA RetryDoes ==
    ASSUME TypeInv, RetryReport
    PROVE  \E u : Begins(u)
<1>1. PICK b \in view.messages :
        /\ view' = [Write(view, b.turn, "loading") EXCEPT !.sending = TRUE]
        /\ turns' = Append(
              [t \in DOMAIN turns |-> [turns[t] EXCEPT !.clean = FALSE]],
              [Turn(b.turn, "retry") EXCEPT !.clean = FALSE])
  BY DEF RetryReport
<1> DEFINE s == [t \in DOMAIN turns |-> [turns[t] EXCEPT !.clean = FALSE]]
           n == Turn(b.turn, "retry")
           u == [n EXCEPT !.clean = FALSE]
           x == Write(view, b.turn, "loading")
<1>2. /\ ViewOK(view) /\ view \in Views /\ view.session \in Sessions
      /\ b.turn \in 1 .. MaxTurns /\ turns \in Seq(TurnSet) /\ Len(turns) \in Nat
      /\ DOMAIN turns = 1 .. Len(turns) /\ Len(turns) + 1 <= MaxTurns
  <2>1. /\ ViewOK(view) /\ view \in Views /\ view.session \in Sessions
        /\ b.turn \in 1 .. MaxTurns
    BY DEF TypeInv, ViewOK, Views, Bubbles
  <2>2. turns \in Seq(TurnSet) /\ Len(turns) < MaxTurns
    BY DEF TypeInv, RetryReport
  <2>3. Len(turns) \in Nat /\ DOMAIN turns = 1 .. Len(turns)
    BY <2>2, LenProperties
  <2>4. Len(turns) + 1 <= MaxTurns
    BY <2>2, <2>3, BoundAssumption
  <2> QED
    BY <2>1, <2>2, <2>3, <2>4
<1>3. /\ "loading" \in States /\ "retry" \in Places /\ "retry" \in Awaits
  BY DEF States, Places, Awaits
<1>4. /\ s \in Seq(TurnSet) /\ Len(s) = Len(turns)
      /\ \A t \in DOMAIN turns : Kept(s[t], turns[t]) /\ ~s[t].clean
  BY LooksAwayOK
<1>5. turns' = Append(s, u) /\ view' = [x EXCEPT !.sending = TRUE]
  BY <1>1
<1>6. /\ n \in TurnSet /\ n.at = "retry" /\ n.saves = <<>> /\ n.heard = {}
      /\ n.bubble = b.turn
  BY <1>2, <1>3, NewTurnOK
<1> HIDE DEF n, s
<1>7. Kept(u, n) /\ ~u.clean
  BY <1>6, KeptOK
<1> HIDE DEF u
<1>8. /\ u \in TurnSet /\ u.at = "retry" /\ u.saves = <<>> /\ u.heard = {}
      /\ u.bubble = b.turn
  BY <1>6, <1>7 DEF Kept
<1>9. /\ turns' \in Seq(TurnSet) /\ Len(turns') = Len(turns) + 1
      /\ turns'[Len(turns) + 1] = u
      /\ \A t \in DOMAIN turns : turns'[t] = s[t]
  <2>1. /\ Append(s, u) \in Seq(TurnSet) /\ Len(Append(s, u)) = Len(s) + 1
        /\ \A i \in 1 .. Len(s) : Append(s, u)[i] = s[i]
        /\ Append(s, u)[Len(s) + 1] = u
    BY <1>4, <1>8, AppendProperties
  <2> QED
    BY <1>2, <1>4, <1>5, <2>1
<1>10. KeepsTurns /\ \A t \in DOMAIN turns : ~turns'[t].clean
  BY <1>4, <1>9 DEF KeepsTurns
<1>11. TurnOK(Len(turns) + 1, u)
  BY <1>8 DEF TurnOK
<1>12. Rewritten(x, view, b.turn, "loading")
  BY <1>2, <1>3, WriteOK
<1> HIDE DEF x
<1>13. /\ ViewOK(view') /\ view'.session = view.session /\ view'.sending
       /\ view'.messages = x.messages
  <2>1. ViewOK(x) /\ x.session = view.session
    BY <1>12 DEF Rewritten
  <2>2. LET w == [x EXCEPT !.sending = TRUE]
        IN  Relabelled(w, x) /\ w.session = x.session
    BY <1>2, <2>1, LabelsOK DEF Views
  <2>3. view'.sending
    BY <1>5, <2>1 DEF ViewOK, Views
  <2> QED
    BY <1>5, <2>1, <2>2, <2>3 DEF Relabelled
<1>14. \A c \in view'.messages : c.state \in Waiting =>
         c \in view.messages \/ (c.turn = u.bubble /\ u.at \in Awaits)
  BY <1>3, <1>8, <1>12, <1>13 DEF Rewritten
<1>15. UNCHANGED <<lookups, handlers, store>>
  BY DEF RetryReport, Quietly
<1> QED
  BY <1>2, <1>7, <1>8, <1>9, <1>10, <1>11, <1>13, <1>14, <1>15 DEF Begins

(* Clicks, and what they asked for.                                        *)
LEMMA LooksDoes ==
    ASSUME TypeInv,
           \/ \E s \in store.sessions : LoadHistory(s) \/ RemoveSession(s)
           \/ NewSession
           \/ \E task \in Tasks : ChooseTask(task)
           \/ \E q \in lookups : Lookup(q) \/ LookupFails(q)
    PROVE  Looks
<1>1. /\ ViewOK(view) /\ view \in Views /\ view.session \in Sessions
      /\ StoreOK(store) /\ turns \in Seq(TurnSet) /\ view.sending \in BOOLEAN
      /\ store.sessions \subseteq Nat
  BY DEF TypeInv, ViewOK, Views, StoreOK, Stores
<1>2. LooksAway => /\ turns' \in Seq(TurnSet) /\ Len(turns') = Len(turns)
                   /\ KeepsTurns /\ \A t \in DOMAIN turns : ~turns'[t].clean
  BY LooksAwayOK DEF LooksAway, KeepsTurns
<1>3. turns' = turns => /\ turns' \in Seq(TurnSet) /\ Len(turns') = Len(turns)
                        /\ KeepsTurns
  <2>1. \A t \in DOMAIN turns : turns[t] \in TurnSet
    BY DEF TypeInv, TurnOK
  <2> QED
    BY <1>1, <2>1, KeptOK DEF KeepsTurns
<1>4. store' = store => StoreOK(store') /\ store'.rows \subseteq store.rows
  BY <1>1
(* The screen: another conversation, none, or the messages of a history.   *)
<1>5. ASSUME NEW s \in Sessions,
             NEW k \in Tasks \cup {None, "strategy_design"}
      PROVE  LET w == [view EXCEPT !.session = s, !.task = k]
             IN  ViewOK(w) /\ w.sending = view.sending /\ w.messages = view.messages
  <2> DEFINE w == [view EXCEPT !.session = s, !.task = k]
  <2>1. w \in Views /\ w.sending = view.sending /\ w.messages = view.messages
    BY <1>1, <1>5 DEF Views
  <2> HIDE DEF w
  <2>2. ViewOK(w)
    BY <1>1, <1>5, <2>1 DEF ViewOK
  <2> QED
    BY <2>1, <2>2 DEF w
<1>6. ASSUME NEW m \in SUBSET Bubbles, \A b \in m : b.state \notin Waiting
      PROVE  LET w == [view EXCEPT !.messages = m]
             IN  ViewOK(w) /\ w.sending = view.sending /\ w.messages = m
  <2> DEFINE w == [view EXCEPT !.messages = m]
  <2>1. w \in Views /\ w.sending = view.sending /\ w.messages = m
    BY <1>1, <1>6 DEF Views
  <2> HIDE DEF w
  <2>2. ViewOK(w)
    BY <1>1, <1>6, <2>1 DEF ViewOK
  <2> QED
    BY <2>1, <2>2 DEF w
<1>7. ASSUME NEW task \in Tasks
      PROVE  LET w == [view EXCEPT !.task = task]
             IN  ViewOK(w) /\ w.sending = view.sending /\ w.messages = view.messages
                 /\ w.session = view.session
  <2> DEFINE w == [view EXCEPT !.task = task]
  <2>1. w \in Views /\ w.sending = view.sending /\ w.messages = view.messages
        /\ w.session = view.session
    BY <1>1, <1>7 DEF Views
  <2> HIDE DEF w
  <2>2. ViewOK(w)
    BY <1>1, <1>7, <2>1 DEF ViewOK
  <2> QED
    BY <2>1, <2>2 DEF w
<1>8. LET w == [view EXCEPT !.session = None, !.task = None, !.messages = {}]
       IN  ViewOK(w) /\ w.sending = view.sending /\ w.messages = {}
  <2> DEFINE w == [view EXCEPT !.session = None, !.task = None, !.messages = {}]
  <2>1. w \in Views /\ w.sending = view.sending /\ w.messages = {}
    BY <1>1 DEF Views, Sessions
  <2> HIDE DEF w
  <2>2. ViewOK(w)
    BY <2>1 DEF ViewOK
  <2> QED
    BY <2>1, <2>2 DEF w
<1>9. LET w == [view EXCEPT !.session = None, !.messages = {}]
       IN  ViewOK(w) /\ w.sending = view.sending /\ w.messages = {}
  <2> DEFINE w == [view EXCEPT !.session = None, !.messages = {}]
  <2>1. w \in Views /\ w.sending = view.sending /\ w.messages = {}
    BY <1>1 DEF Views, Sessions
  <2> HIDE DEF w
  <2>2. ViewOK(w)
    BY <2>1 DEF ViewOK
  <2> QED
    BY <2>1, <2>2 DEF w
<1>10. None \in Sessions /\ None \in Tasks \cup {None, "strategy_design"}
      /\ {} \in SUBSET Bubbles
  BY DEF Sessions
<1>11. ASSUME NEW s \in store.sessions, LoadHistory(s)
      PROVE  Looks
  <2>1. /\ LooksAway /\ view' = [view EXCEPT !.session = s, !.task = None]
        /\ UNCHANGED <<handlers, store>>
    BY <1>11 DEF LoadHistory
  <2>2. s \in Sessions
    BY <1>1 DEF Sessions
  <2>3. ViewOK(view') /\ view'.sending = view.sending
        /\ view'.messages = view.messages
    BY <1>10, <1>5, <2>1, <2>2
  <2> QED
    BY <1>2, <1>4, <2>1, <2>3 DEF Looks
<1>12. ASSUME NEW s \in store.sessions, RemoveSession(s)
      PROVE  Looks
  BY <1>1, <1>2, <1>4, <1>12 DEF Looks, RemoveSession
<1>13. CASE NewSession
  <2>1. /\ LooksAway
        /\ view' = [view EXCEPT !.session = None, !.task = None, !.messages = {}]
        /\ UNCHANGED <<handlers, store>>
    BY <1>13 DEF NewSession
  <2>2. ViewOK(view') /\ view'.sending = view.sending /\ view'.messages = {}
    BY <1>8, <2>1
  <2> QED
    BY <1>2, <1>4, <2>1, <2>2 DEF Looks
<1>14. ASSUME NEW task \in Tasks, ChooseTask(task)
       PROVE  Looks
  <2>1. view' = [view EXCEPT !.task = task]
        /\ UNCHANGED <<turns, lookups, handlers, store>>
    BY <1>14 DEF ChooseTask
  <2>2. /\ ViewOK(view') /\ view'.sending = view.sending
        /\ view'.messages = view.messages /\ view'.session = view.session
    BY <1>7, <2>1
  <2> QED
    BY <1>3, <1>4, <2>1, <2>2 DEF Looks
<1>15. ASSUME NEW q \in lookups, LookupFails(q)
       PROVE  Looks
  BY <1>1, <1>3, <1>4, <1>15 DEF Looks, LookupFails
<1>16. ASSUME NEW q \in lookups, Lookup(q)
       PROVE  Looks
  <2>1. UNCHANGED <<turns, handlers>>
    BY <1>16 DEF Lookup
  <2>2. CASE NotFound(q)
    BY <1>1, <1>3, <1>4, <2>1, <2>2 DEF Looks, NotFound
  <2>3. CASE HistoryLoaded(q)
    <3> DEFINE m == {Bubble(r.turn, r.role, "stored") :
                       r \in {x \in store.rows : x.session = q.session}}
    <3>1. view' = [view EXCEPT !.messages = m] /\ store' = store
      BY <2>3 DEF HistoryLoaded
    <3>2. m \in SUBSET Bubbles
      <4> SUFFICES ASSUME NEW r \in store.rows
                   PROVE  Bubble(r.turn, r.role, "stored") \in Bubbles
        OBVIOUS
      <4>1. r.turn \in DOMAIN turns /\ r.role \in Roles
        BY DEF TypeInv, StoreOK, Stores, RowSet
      <4>2. r.turn \in 1 .. MaxTurns
        BY <4>1, TurnTyped
      <4> QED
        BY <4>1, <4>2 DEF Bubble, Bubbles, States
    <3>3. \A b \in m : b.state \notin Waiting
      BY DEF Bubble, Waiting
    <3> HIDE DEF m
    <3>4. ViewOK(view') /\ view'.sending = view.sending /\ view'.messages = m
      BY <1>6, <3>1, <3>2, <3>3
    <3> QED
      BY <1>3, <1>4, <2>1, <3>1, <3>3, <3>4 DEF Looks
  <2>4. CASE SessionRemoved(q)
    <3>1. StoreOK(store') /\ store'.rows \subseteq store.rows
      <4> DEFINE s == store.sessions \ {q.session}
                 r == {x \in store.rows : x.session # q.session}
      <4>1. store' = [store EXCEPT !.sessions = s, !.rows = r]
        BY <2>4 DEF SessionRemoved
      <4>2. /\ s \in SUBSET (Nat \ {0}) /\ r \in SUBSET RowSet
            /\ \A x \in s : x < store.next
            /\ \A x \in r : x.session \in s
            /\ r \subseteq store.rows
        BY <1>1 DEF StoreOK, Stores
      <4> HIDE DEF s, r
      <4>3. store' \in Stores /\ store'.sessions = s /\ store'.rows = r
            /\ store'.next = store.next
        BY <1>1, <4>1, <4>2 DEF StoreOK, Stores
      <4> QED
        BY <4>2, <4>3 DEF StoreOK
    <3>2. ViewOK(view') /\ view'.sending = view.sending
          /\ view'.messages \subseteq view.messages
      <4>1. CASE view' = view
        BY <1>1, <4>1
      <4>2. CASE view' = [view EXCEPT !.session = None, !.messages = {}]
        <5>1. ViewOK(view') /\ view'.sending = view.sending /\ view'.messages = {}
          BY <1>9, <4>2
        <5> QED
          BY <5>1
      <4> QED
        BY <2>4, <4>1, <4>2 DEF SessionRemoved
    <3> QED
      BY <1>3, <2>1, <3>1, <3>2 DEF Looks
  <2> QED
    BY <1>16, <2>2, <2>3, <2>4 DEF Lookup
<1> QED
  BY <1>11, <1>12, <1>13, <1>14, <1>15, <1>16

(* The steps there are.                                                    *)
LEMMA NextDoes ==
    ASSUME TypeInv, Next
    PROVE  \/ \E u : Begins(u)
           \/ Looks
           \/ \E h \in handlers : Works(h)
           \/ \E t \in DOMAIN turns : \E u : TurnStep(t, u)
<1>1. CASE Send \/ RetryReport
  BY <1>1, SendDoes, RetryDoes
<1>2. CASE \/ \E s \in store.sessions : LoadHistory(s) \/ RemoveSession(s)
           \/ NewSession
           \/ \E task \in Tasks : ChooseTask(task)
           \/ \E q \in lookups : Lookup(q) \/ LookupFails(q)
  BY <1>2, LooksDoes
<1>3. CASE Gateway \/ GatewayFails
  BY <1>3 DEF Gateway, GatewayFails, Works
<1>4. CASE \E t \in DOMAIN turns : Continue(t) \/ Fails(t)
  BY <1>4, TurnDoes
<1> QED
  BY <1>1, <1>2, <1>3, <1>4 DEF Next

-----------------------------------------------------------------------------
(* Type correctness.                                                       *)

(* h is the request before the gateway's step, g the request after.        *)
Moves(h, g) ==
    /\ g \in HandlerSet /\ g.turn = h.turn /\ g.via = h.via
    /\ handlers' = (handlers \ {h}) \cup {g}
    /\ UNCHANGED <<view, turns, lookups>>
    /\ \/ /\ store' = store /\ g.session = h.session
          /\ g.phase \in {"refused", "broken"}
          /\ g.phase = "refused" <=> h.phase = "posted"
          /\ h.phase \in {"posted", "accepted"}
       \/ /\ h.phase = "posted" /\ g.phase = "accepted"
          /\ g.session = SessionFor(store, h.session)
          /\ store' = Inserted(store, h.session, h.turn, "user", h.via)
       \/ /\ h.phase = "accepted" /\ g.phase = "replied"
          /\ g.session = h.session /\ h.session \in store.sessions
          /\ store' = Inserted(store, h.session, h.turn, "assistant", h.via)

(* The four steps of the gateway are such moves.                           *)
LEMMA WorksDoes ==
    ASSUME TypeInv, NEW h \in handlers, Works(h)
    PROVE  \E g : Moves(h, g)
<1>1. /\ h \in HandlerSet /\ StoreOK(store)
  BY DEF TypeInv
<1>2. ASSUME NEW phase \in Phases
      PROVE  LET g == [h EXCEPT !.phase = phase]
             IN  /\ g \in HandlerSet /\ g.turn = h.turn /\ g.via = h.via
                 /\ g.session = h.session /\ g.phase = phase
  BY <1>1 DEF HandlerSet
<1>3. /\ "refused" \in Phases /\ "broken" \in Phases /\ "replied" \in Phases
      /\ "accepted" \in Phases
  BY DEF Phases, Heard
<1>4. CASE Refuse(h)
  <2> DEFINE g == [h EXCEPT !.phase = "refused"]
  <2>1. /\ h.phase = "posted" /\ handlers' = (handlers \ {h}) \cup {g}
        /\ UNCHANGED <<view, turns, lookups, store>>
    BY <1>4 DEF Refuse, Moved
  <2>2. /\ g \in HandlerSet /\ g.turn = h.turn /\ g.via = h.via
        /\ g.session = h.session /\ g.phase = "refused"
    BY <1>2, <1>3
  <2> HIDE DEF g
  <2> QED
    BY <2>1, <2>2 DEF Moves
<1>5. CASE Break(h)
  <2> DEFINE g == [h EXCEPT !.phase = "broken"]
  <2>1. /\ h.phase = "accepted" /\ handlers' = (handlers \ {h}) \cup {g}
        /\ UNCHANGED <<view, turns, lookups, store>>
    BY <1>5 DEF Break, Moved
  <2>2. /\ g \in HandlerSet /\ g.turn = h.turn /\ g.via = h.via
        /\ g.session = h.session /\ g.phase = "broken"
    BY <1>2, <1>3
  <2> HIDE DEF g
  <2> QED
    BY <2>1, <2>2 DEF Moves
<1>6. CASE Reply(h) /\ h.session \in store.sessions
  <2> DEFINE g == [h EXCEPT !.phase = "replied"]
  <2>1. /\ h.phase = "accepted" /\ handlers' = (handlers \ {h}) \cup {g}
        /\ UNCHANGED <<view, turns, lookups>>
        /\ store' = Inserted(store, h.session, h.turn, "assistant", h.via)
    BY <1>6 DEF Reply, Moved
  <2>2. /\ g \in HandlerSet /\ g.turn = h.turn /\ g.via = h.via
        /\ g.session = h.session /\ g.phase = "replied"
    BY <1>2, <1>3
  <2> HIDE DEF g
  <2> QED
    BY <1>6, <2>1, <2>2 DEF Moves
<1>7. CASE Reply(h) /\ h.session \notin store.sessions
  <2> DEFINE g == [h EXCEPT !.phase = "broken"]
  <2>1. /\ h.phase = "accepted" /\ handlers' = (handlers \ {h}) \cup {g}
        /\ UNCHANGED <<view, turns, lookups, store>>
    BY <1>7 DEF Reply, Moved
  <2>2. /\ g \in HandlerSet /\ g.turn = h.turn /\ g.via = h.via
        /\ g.session = h.session /\ g.phase = "broken"
    BY <1>2, <1>3
  <2> HIDE DEF g
  <2> QED
    BY <2>1, <2>2 DEF Moves
<1>8. CASE Accept(h)
  <2> DEFINE s == SessionFor(store, h.session)
             g == [h EXCEPT !.phase = "accepted", !.session = s]
  <2>1. /\ h.phase = "posted" /\ handlers' = (handlers \ {h}) \cup {g}
        /\ UNCHANGED <<view, turns, lookups>>
        /\ store' = Inserted(store, h.session, h.turn, "user", h.via)
    BY <1>8 DEF Accept
  <2>2. s \in Sessions
    BY <1>1 DEF SessionFor, StoreOK, Stores, Sessions
  <2> HIDE DEF s
  <2>3. /\ g \in HandlerSet /\ g.turn = h.turn /\ g.via = h.via
        /\ g.session = s /\ g.phase = "accepted"
    BY <1>1, <1>3, <2>2 DEF HandlerSet
  <2> HIDE DEF g
  <2> QED
    BY <2>1, <2>3 DEF Moves, s
<1> QED
  BY <1>4, <1>5, <1>6, <1>7, <1>8 DEF Works

(* The turns after a turn's step, and after the others.                    *)
LEMMA StepsTurns ==
    ASSUME TypeInv, NEW t \in DOMAIN turns, NEW u, TurnStep(t, u)
    PROVE  /\ turns' \in Seq(TurnSet) /\ Len(turns') = Len(turns)
           /\ DOMAIN turns' = DOMAIN turns /\ DOMAIN turns = 1 .. Len(turns)
           /\ turns'[t] = u
           /\ \A n \in DOMAIN turns \ {t} : turns'[n] = turns[n]
<1>1. /\ turns \in Seq(TurnSet) /\ DOMAIN turns = 1 .. Len(turns)
      /\ Len(turns) \in Nat
  BY LenProperties DEF TypeInv
<1>2. u \in TurnSet /\ turns' = [turns EXCEPT ![t] = u]
  BY DEF TurnStep, TurnOK
<1>3. /\ turns' \in Seq(TurnSet) /\ Len(turns') = Len(turns)
      /\ \A n \in DOMAIN turns : turns'[n] = IF n = t THEN u ELSE turns[n]
  BY <1>1, <1>2, ExceptSeq
<1>4. DOMAIN turns' = 1 .. Len(turns')
  BY <1>3, LenProperties
<1> QED
  BY <1>1, <1>3, <1>4

(* The turns after one began.                                              *)
LEMMA BeginsTurns ==
    ASSUME TypeInv, NEW u, Begins(u)
    PROVE  /\ DOMAIN turns = 1 .. Len(turns) /\ Len(turns) \in Nat
           /\ DOMAIN turns' = DOMAIN turns \cup {Len(turns) + 1}
           /\ Len(turns) + 1 \notin DOMAIN turns
           /\ Len(turns') = Len(turns) + 1 /\ turns'[Len(turns) + 1] = u
<1>1. DOMAIN turns = 1 .. Len(turns) /\ Len(turns) \in Nat
  BY LenProperties DEF TypeInv
<1>2. DOMAIN turns' = 1 .. Len(turns') /\ Len(turns') = Len(turns) + 1
      /\ turns'[Len(turns) + 1] = u
  BY LenProperties DEF Begins
<1> QED
  BY <1>1, <1>2

(* The turns after a click or its answer.                                  *)
LEMMA LooksTurns ==
    ASSUME TypeInv, Looks
    PROVE  DOMAIN turns' = DOMAIN turns
<1>1. DOMAIN turns = 1 .. Len(turns)
  BY LenProperties DEF TypeInv
<1>2. DOMAIN turns' = 1 .. Len(turns') /\ Len(turns') = Len(turns)
  BY LenProperties DEF Looks
<1> QED
  BY <1>1, <1>2

(* The store after a step of a turn.                                       *)
LEMMA StepsStore ==
    ASSUME TypeInv, NEW t \in DOMAIN turns, NEW u, TurnStep(t, u)
    PROVE  /\ StoreOK(store')
           /\ \A r \in store'.rows :
                r \in store.rows \/ (r.turn = t /\ r.via = "local")
<1>1. StoreOK(store) /\ t \in Nat
  BY TurnTyped DEF TypeInv
<1>2. CASE store' = store
  BY <1>1, <1>2
<1>3. CASE Saves(t, turns[t])
  <2>1. PICK role \in Roles :
          store' = Inserted(store, turns[t].session, t, role, "local")
    BY <1>3 DEF Saves
  <2> DEFINE s == turns[t].session
  <2> HIDE DEF s
  <2>2. LET new == Inserted(store, s, t, role, "local")
            row == [turn |-> t, role |-> role, via |-> "local",
                    session |-> SessionFor(store, s)]
        IN  StoreOK(new) /\ new.rows = store.rows \cup {row}
    BY <1>1, InsertedOK
  <2> QED
    BY <2>1, <2>2 DEF s
<1> QED
  BY <1>2, <1>3 DEF TurnStep

(* The store after a step of the gateway.                                  *)
LEMMA MovesStore ==
    ASSUME TypeInv, NEW h \in handlers, NEW g, Moves(h, g)
    PROVE  /\ StoreOK(store')
           /\ \A r \in store'.rows :
                \/ r \in store.rows
                \/ /\ r.turn = h.turn /\ r.via = h.via
                   /\ r.session = g.session
                   /\ r.role = "user" => h.phase = "posted"
                   /\ g.phase \in Heard
           /\ store.rows \subseteq store'.rows
<1>1. StoreOK(store) /\ h.turn \in Nat /\ h.via \in {"stream", "json"}
  BY DEF TypeInv, HandlerSet
<1>2. "user" \in Roles /\ "assistant" \in Roles
  BY DEF Roles
<1>3. ASSUME NEW role \in Roles, NEW session
      PROVE  LET new == Inserted(store, session, h.turn, role, h.via)
                 row == [turn |-> h.turn, role |-> role, via |-> h.via,
                         session |-> SessionFor(store, session)]
             IN  StoreOK(new) /\ new.rows = store.rows \cup {row}
  <2> DEFINE t == h.turn
             via == h.via
  <2>1. t \in Nat /\ via \in {"local", "stream", "json"} /\ StoreOK(store)
        /\ role \in Roles
    BY <1>1
  <2> HIDE DEF t, via
  <2>2. LET new == Inserted(store, session, t, role, via)
            row == [turn |-> t, role |-> role, via |-> via,
                    session |-> SessionFor(store, session)]
        IN  StoreOK(new) /\ new.rows = store.rows \cup {row}
    BY ONLY <2>1, InsertedOK
  <2> QED
    BY <2>2 DEF t, via
<1>4. CASE store' = store
  BY <1>1, <1>4
<1>5. CASE /\ h.phase = "posted" /\ g.phase = "accepted"
           /\ g.session = SessionFor(store, h.session)
           /\ store' = Inserted(store, h.session, h.turn, "user", h.via)
  <2>1. /\ StoreOK(store')
        /\ store'.rows = store.rows \cup
             {[turn |-> h.turn, role |-> "user", via |-> h.via,
               session |-> SessionFor(store, h.session)]}
    BY <1>2, <1>3, <1>5
  <2> QED
    BY <1>5, <2>1 DEF Heard
<1>6. CASE /\ h.phase = "accepted" /\ g.phase = "replied"
           /\ g.session = h.session /\ h.session \in store.sessions
           /\ store' = Inserted(store, h.session, h.turn, "assistant", h.via)
  <2>1. /\ StoreOK(store')
        /\ store'.rows = store.rows \cup
             {[turn |-> h.turn, role |-> "assistant", via |-> h.via,
               session |-> SessionFor(store, h.session)]}
    BY <1>2, <1>3, <1>6
  <2>2. SessionFor(store, h.session) = g.session
    BY <1>6 DEF SessionFor
  <2> QED
    BY <1>6, <2>1, <2>2 DEF Heard
<1> QED
  BY <1>4, <1>5, <1>6 DEF Moves

(* Every step preserves the types.                                         *)
LEMMA TypeStep == TypeInv /\ [Next]_vars => TypeInv'
<1> SUFFICES ASSUME TypeInv, [Next]_vars PROVE TypeInv'
  OBVIOUS
<1>1. CASE UNCHANGED vars
  BY <1>1 DEF vars, TypeInv, ViewOK, StoreOK, TurnOK
<1>2. ASSUME NEW t \in DOMAIN turns, TurnOK(t, turns[t]), Kept(turns'[t], turns[t])
      PROVE  TurnOK(t, turns'[t])
  BY <1>2 DEF Kept, TurnOK
<1>3. /\ turns \in Seq(TurnSet) /\ Len(turns) <= MaxTurns
      /\ \A t \in DOMAIN turns : TurnOK(t, turns[t])
      /\ handlers \subseteq HandlerSet
      /\ \A h \in handlers : h.turn \in DOMAIN turns
      /\ \A r \in store.rows : r.turn \in DOMAIN turns
      /\ ViewOK(view) /\ StoreOK(store)
  BY DEF TypeInv
<1>4. ASSUME NEW u, Begins(u) PROVE TypeInv'
  <2>1. /\ turns' \in Seq(TurnSet) /\ Len(turns') <= MaxTurns
        /\ ViewOK(view') /\ handlers' = handlers /\ store' = store
        /\ TurnOK(Len(turns) + 1, u) /\ KeepsTurns
    BY <1>4 DEF Begins
  <2>2. /\ DOMAIN turns' = DOMAIN turns \cup {Len(turns) + 1}
        /\ turns'[Len(turns) + 1] = u
    BY <1>4, BeginsTurns
  <2>3. \A t \in DOMAIN turns' : TurnOK(t, turns'[t])
    BY <1>2, <1>3, <2>1, <2>2 DEF KeepsTurns
  <2> QED
    BY <1>3, <2>1, <2>2, <2>3 DEF TypeInv
<1>5. CASE Looks
  <2>1. /\ turns' \in Seq(TurnSet) /\ Len(turns') <= MaxTurns
        /\ ViewOK(view') /\ StoreOK(store') /\ handlers' = handlers
        /\ store'.rows \subseteq store.rows /\ KeepsTurns
    BY <1>3, <1>5 DEF Looks
  <2>2. DOMAIN turns' = DOMAIN turns
    BY <1>5, LooksTurns
  <2>3. \A t \in DOMAIN turns' : TurnOK(t, turns'[t])
    BY <1>2, <1>3, <2>1, <2>2 DEF KeepsTurns
  <2> QED
    BY <1>3, <2>1, <2>2, <2>3 DEF TypeInv
<1>6. ASSUME NEW h \in handlers, Works(h) PROVE TypeInv'
  <2>1. PICK g : Moves(h, g)
    BY <1>6, WorksDoes
  <2>2. /\ UNCHANGED <<view, turns>> /\ handlers' = (handlers \ {h}) \cup {g}
        /\ g \in HandlerSet /\ g.turn = h.turn
    BY <2>1 DEF Moves
  <2>3. /\ StoreOK(store')
        /\ \A r \in store'.rows : r \in store.rows \/ r.turn = h.turn
    BY <1>6, <2>1, MovesStore
  <2> QED
    BY <1>3, <2>2, <2>3 DEF TypeInv
<1>7. ASSUME NEW t \in DOMAIN turns, NEW u, TurnStep(t, u) PROVE TypeInv'
  <2>1. /\ turns' \in Seq(TurnSet) /\ Len(turns') = Len(turns)
        /\ DOMAIN turns' = DOMAIN turns /\ turns'[t] = u
        /\ \A n \in DOMAIN turns \ {t} : turns'[n] = turns[n]
    BY <1>7, StepsTurns
  <2>2. TurnOK(t, u) /\ ViewOK(view') /\ Posts(t, turns[t], u)
    BY <1>7 DEF TurnStep
  <2>3. /\ StoreOK(store')
        /\ \A r \in store'.rows : r \in store.rows \/ r.turn = t
    BY <1>7, StepsStore
  <2>4. \A via \in {"stream", "json"} :
          Posted(t, via, view) \in HandlerSet /\ Posted(t, via, view).turn = t
    <3>1. t \in Nat /\ view.session \in Sessions
      BY TurnTyped
    <3> QED
      BY <3>1 DEF Posted, HandlerSet, Phases
  <2>5. /\ handlers' \subseteq HandlerSet
        /\ \A h \in handlers' : h.turn \in DOMAIN turns
    BY <1>3, <2>2, <2>4 DEF Posts
  <2> QED
    BY <1>3, <2>1, <2>2, <2>3, <2>5 DEF TypeInv
<1> QED
  BY <1>1, <1>4, <1>5, <1>6, <1>7, NextDoes

(* The types hold at first.                                                *)
LEMMA TypeInit == Init => TypeInv
<1> SUFFICES ASSUME Init PROVE TypeInv
  OBVIOUS
<1>1. /\ view.session = None /\ view.messages = {} /\ view.sending = FALSE
      /\ view.task = None /\ view \in Views
  BY DEF Init, Views, Sessions
<1>2. ViewOK(view)
  BY <1>1 DEF ViewOK
<1>3. StoreOK(store) /\ store.rows = {}
  BY DEF Init, StoreOK, Stores
<1>4. turns = <<>> /\ turns \in Seq(TurnSet) /\ Len(turns) = 0 /\ DOMAIN turns = {}
  BY DEF Init
<1> QED
  BY <1>2, <1>3, <1>4, BoundAssumption DEF Init, TypeInv

-----------------------------------------------------------------------------
(* The chat requests of a turn.  Of each kind there is one; a turn still   *)
(* asking has none; the one that is not streamed is sent when the stream   *)
(* is given up, of which then nothing was heard; and each message the      *)
(* gateway filed came with the request that is past its acceptance.        *)
IsSubmission(r) == r.role = "user" /\ r.via # "local"

OneRequest ==
    \A h, g \in handlers : h.turn = g.turn /\ h.via = g.via => h = g
Placed ==
    \A h \in handlers :
        /\ turns[h.turn].at \notin Asked
        /\ h.via = "json" =>
             turns[h.turn].at # "stream" /\ turns[h.turn].heard = {}
Filed ==
    \A r \in store.rows : IsSubmission(r) =>
        \E h \in handlers : h.turn = r.turn /\ h.via = r.via /\ h.phase \in Heard
FiledOnce ==
    \A r, s \in store.rows :
        IsSubmission(r) /\ IsSubmission(s) /\ r.turn = s.turn /\ r.via = s.via =>
            r = s

HandInv == OneRequest /\ Placed /\ Filed /\ FiledOnce

(* Of a turn that heard of its stream all submissions are streamed: one.   *)
LEMMA HandInvImpliesAcceptedOnce == TypeInv /\ HandInv => AcceptedOnce
<1> SUFFICES ASSUME TypeInv, HandInv, NEW t \in DOMAIN turns, turns[t].heard # {}
             PROVE  Cardinality(Submissions(t)) <= 1
  BY DEF AcceptedOnce
<1>1. \A r \in Submissions(t) :
        r \in store.rows /\ IsSubmission(r) /\ r.turn = t /\ r.via = "stream"
  <2> SUFFICES ASSUME NEW r \in Submissions(t)
               PROVE  /\ r \in store.rows /\ IsSubmission(r) /\ r.turn = t
                      /\ r.via = "stream"
    OBVIOUS
  <2>1. r \in store.rows /\ IsSubmission(r) /\ r.turn = t
    BY DEF Submissions, IsSubmission
  <2>2. r.via \in {"stream", "json"}
    BY <2>1 DEF TypeInv, StoreOK, Stores, RowSet, IsSubmission
  <2>3. PICK h \in handlers : h.turn = t /\ h.via = r.via
    BY <2>1 DEF HandInv, Filed
  <2>4. h.via # "json"
    BY <2>3 DEF HandInv, Placed
  <2> QED
    BY <2>1, <2>2, <2>3, <2>4
<1>2. \A r, s \in Submissions(t) : r = s
  BY <1>1 DEF HandInv, FiledOnce
<1>3. CASE Submissions(t) = {}
  <2>1. Cardinality(Submissions(t)) = 0
    BY <1>3, FS_EmptySet, Zenon
  <2> QED
    BY <2>1
<1>4. CASE Submissions(t) # {}
  <2>1. PICK r : r \in Submissions(t)
    BY <1>4
  <2>2. Submissions(t) = {r}
    BY <1>2, <2>1
  <2>3. Cardinality({r}) = 1
    BY FS_Singleton, Zenon
  <2> QED
    BY <2>2, <2>3
<1> QED
  BY <1>3, <1>4

(* Every step preserves it.                                                *)
LEMMA HandStep == TypeInv /\ HandInv /\ [Next]_vars => HandInv'
<1> SUFFICES ASSUME TypeInv, HandInv, [Next]_vars PROVE HandInv'
  OBVIOUS
<1> USE DEF HandInv
<1>1. CASE UNCHANGED vars
  BY <1>1 DEF vars, OneRequest, Placed, Filed, FiledOnce
<1>2. \A h \in handlers : h.turn \in DOMAIN turns
  BY DEF TypeInv
<1>3. ASSUME handlers' = handlers, store'.rows \subseteq store.rows, KeepsTurns
      PROVE  HandInv'
  <2>1. \A h \in handlers : turns'[h.turn].at = turns[h.turn].at
                            /\ turns'[h.turn].heard = turns[h.turn].heard
    BY <1>2, <1>3 DEF KeepsTurns, Kept
  <2>2. Placed'
    BY <1>3, <2>1 DEF Placed
  <2>3. OneRequest' /\ Filed' /\ FiledOnce'
    BY <1>3 DEF OneRequest, Filed, FiledOnce
  <2> QED
    BY <2>2, <2>3
<1>4. ASSUME NEW u, Begins(u) PROVE HandInv'
  <2>1. handlers' = handlers /\ store' = store /\ KeepsTurns
    BY <1>4 DEF Begins
  <2> QED
    BY <1>3, <2>1
<1>5. CASE Looks
  BY <1>3, <1>5 DEF Looks
<1>6. ASSUME NEW h \in handlers, Works(h) PROVE HandInv'
  <2>1. PICK g : Moves(h, g)
    BY <1>6, WorksDoes
  <2>2. /\ turns' = turns /\ handlers' = (handlers \ {h}) \cup {g}
        /\ g.turn = h.turn /\ g.via = h.via
        /\ h.phase \in Heard => g.phase \in Heard
    BY <2>1 DEF Moves, Heard
  <2>3. \A r \in store'.rows :
          \/ r \in store.rows
          \/ /\ r.turn = h.turn /\ r.via = h.via
             /\ r.role = "user" => h.phase = "posted"
             /\ g.phase \in Heard
    BY <1>6, <2>1, MovesStore
  <2>4. OneRequest'
    BY <1>6, <2>2 DEF OneRequest
  <2>5. Placed'
    BY <2>2 DEF Placed
  <2>6. Filed'
    <3> SUFFICES ASSUME NEW r \in store'.rows, IsSubmission(r)
                 PROVE  \E x \in handlers' :
                          x.turn = r.turn /\ x.via = r.via /\ x.phase \in Heard
      BY DEF Filed, IsSubmission
    <3>1. CASE r \in store.rows
      <4>1. PICK x \in handlers : x.turn = r.turn /\ x.via = r.via /\ x.phase \in Heard
        BY <3>1 DEF Filed
      <4> QED
        BY <2>2, <4>1
    <3>2. CASE r \notin store.rows
      BY <2>2, <2>3, <3>2
    <3> QED
      BY <3>1, <3>2
  <2>7. FiledOnce'
    <3>1. \A r \in store'.rows : r \notin store.rows /\ IsSubmission(r) =>
            /\ r.turn = h.turn /\ r.via = h.via
            /\ ~\E s \in store.rows :
                  IsSubmission(s) /\ s.turn = r.turn /\ s.via = r.via
      <4> SUFFICES ASSUME NEW r \in store'.rows, r \notin store.rows,
                          IsSubmission(r), NEW s \in store.rows, IsSubmission(s),
                          s.turn = r.turn, s.via = r.via
                   PROVE  FALSE
        BY <2>3
      <4>1. r.turn = h.turn /\ r.via = h.via /\ h.phase = "posted"
        BY <2>3 DEF IsSubmission
      <4>2. PICK x \in handlers : x.turn = s.turn /\ x.via = s.via /\ x.phase \in Heard
        BY DEF Filed
      <4>3. x = h
        BY <4>1, <4>2 DEF OneRequest
      <4> QED
        BY <4>1, <4>2, <4>3 DEF Heard
    <3>2. \A r, s \in store'.rows \ store.rows :
            IsSubmission(r) /\ IsSubmission(s) => r = s
      <4>1. ASSUME NEW role
            PROVE  \A r, s \in Inserted(store, h.session, h.turn, role, h.via).rows
                               \ store.rows : r = s
        BY DEF Inserted
      <4> QED
        BY <2>1, <4>1 DEF Moves
    <3> QED
      BY <3>1, <3>2 DEF FiledOnce, IsSubmission
  <2> QED
    BY <2>4, <2>5, <2>6, <2>7
<1>7. ASSUME NEW t \in DOMAIN turns, NEW u, TurnStep(t, u) PROVE HandInv'
  <2> DEFINE a == turns[t]
  <2>1. /\ turns'[t] = u /\ \A n \in DOMAIN turns \ {t} : turns'[n] = turns[n]
    BY <1>7, StepsTurns
  <2>2. Posts(t, a, u) /\ Paths(a, u)
    BY <1>7 DEF TurnStep
  <2>3. \A r \in store'.rows : r \in store.rows \/ ~IsSubmission(r)
    BY <1>7, StepsStore DEF IsSubmission
  <2>4. \A h \in handlers : h.turn = t =>
          /\ a.at \notin Asked
          /\ h.via = "json" => a.at # "stream" /\ a.heard = {}
    BY DEF Placed
  <2>5. FiledOnce'
    BY <2>3 DEF FiledOnce, IsSubmission
  <2>6. handlers \subseteq handlers'
    BY <2>2 DEF Posts
  <2>7. Filed'
    BY <2>3, <2>6 DEF Filed, IsSubmission
  <2> HIDE DEF a
  <2>8. \A via \in {"stream", "json"} :
          Posted(t, via, view).turn = t /\ Posted(t, via, view).via = via
    BY DEF Posted
  <2>9. CASE /\ handlers' = handlers
             /\ u.at = "stream" => a.at = "stream"
    <3>1. OneRequest'
      BY <2>9 DEF OneRequest
    <3>2. Placed'
      <4> SUFFICES ASSUME NEW h \in handlers
                   PROVE  /\ turns'[h.turn].at \notin Asked
                          /\ h.via = "json" => /\ turns'[h.turn].at # "stream"
                                               /\ turns'[h.turn].heard = {}
        BY <2>9 DEF Placed
      <4>1. CASE h.turn # t
        BY <1>2, <2>1, <4>1 DEF Placed
      <4>2. CASE h.turn = t
        BY <2>1, <2>2, <2>4, <2>9, <4>2 DEF Paths
      <4> QED
        BY <4>1, <4>2
    <3> QED
      BY <2>5, <2>7, <3>1, <3>2
  <2>10. ASSUME NEW via \in {"stream", "json"},
                handlers' = handlers \cup {Posted(t, via, view)},
                u.at = via, u.heard = {},
                a.at = "resolve" \/ (a.at = "stream" /\ via = "json")
         PROVE  HandInv'
    <3>1. \A h \in handlers : h.turn = t => h.via # via
      <4> SUFFICES ASSUME NEW h \in handlers, h.turn = t, h.via = via PROVE FALSE
        OBVIOUS
      <4>1. a.at # "resolve"
        BY <2>4 DEF Asked
      <4>2. a.at = "stream" /\ via = "json"
        BY <2>10, <4>1
      <4> QED
        BY <2>4, <4>2
    <3>2. OneRequest'
      BY <2>8, <2>10, <3>1 DEF OneRequest
    <3>3. \A h \in handlers : h.turn = t /\ h.via = "json" => FALSE
      BY <2>4, <2>10 DEF Asked
    <3>4. Placed'
      <4> SUFFICES ASSUME NEW h \in handlers'
                   PROVE  /\ turns'[h.turn].at \notin Asked
                          /\ h.via = "json" => /\ turns'[h.turn].at # "stream"
                                               /\ turns'[h.turn].heard = {}
        BY DEF Placed
      <4>1. CASE h \in handlers /\ h.turn # t
        BY <1>2, <2>1, <4>1 DEF Placed
      <4>2. CASE h \in handlers /\ h.turn = t
        BY <2>1, <2>10, <3>3, <4>2 DEF Asked
      <4>3. CASE h = Posted(t, via, view)
        BY <2>1, <2>8, <2>10, <4>3 DEF Asked
      <4> QED
        BY <2>10, <4>1, <4>2, <4>3
    <3> QED
      BY <2>5, <2>7, <3>2, <3>4
  <2> QED
    BY <2>2, <2>9, <2>10 DEF Posts
<1> QED
  BY <1>1, <1>4, <1>5, <1>6, <1>7, NextDoes

-----------------------------------------------------------------------------
(* A bubble that waits has a turn that awaits its text.                    *)
SpinInv ==
    \A b \in view.messages : b.state \in Waiting =>
        \E t \in DOMAIN turns : turns[t].at \in Awaits /\ turns[t].bubble = b.turn

(* A turn that awaits is active.                                           *)
LEMMA SpinInvImpliesSpinnerHasTurn == SpinInv => SpinnerHasTurn
BY DEF SpinInv, SpinnerHasTurn, Waiting, Awaits, Active

(* Every step preserves it.                                                *)
LEMMA SpinStep == TypeInv /\ SpinInv /\ [Next]_vars => SpinInv'
<1> SUFFICES ASSUME TypeInv, SpinInv, [Next]_vars,
                    NEW b \in view'.messages, b.state \in Waiting
             PROVE  \E t \in DOMAIN turns' :
                      turns'[t].at \in Awaits /\ turns'[t].bubble = b.turn
  BY DEF SpinInv
<1>1. CASE UNCHANGED vars
  BY <1>1 DEF vars, SpinInv
<1>2. ASSUME NEW u, Begins(u)
      PROVE  \E t \in DOMAIN turns' :
               turns'[t].at \in Awaits /\ turns'[t].bubble = b.turn
  <2>1. /\ KeepsTurns
        /\ b \in view.messages \/ (b.turn = u.bubble /\ u.at \in Awaits)
    BY <1>2 DEF Begins
  <2>2. /\ DOMAIN turns' = DOMAIN turns \cup {Len(turns) + 1}
        /\ turns'[Len(turns) + 1] = u
    BY <1>2, BeginsTurns
  <2>3. CASE b \in view.messages
    <3>1. PICK t \in DOMAIN turns : turns[t].at \in Awaits /\ turns[t].bubble = b.turn
      BY <2>3 DEF SpinInv
    <3> QED
      BY <2>1, <2>2, <3>1 DEF KeepsTurns, Kept
  <2> QED
    BY <2>1, <2>2, <2>3
<1>3. ASSUME Looks
      PROVE  \E t \in DOMAIN turns' :
               turns'[t].at \in Awaits /\ turns'[t].bubble = b.turn
  <2>1. b \in view.messages /\ KeepsTurns
    BY <1>3 DEF Looks
  <2>2. PICK t \in DOMAIN turns : turns[t].at \in Awaits /\ turns[t].bubble = b.turn
    BY <2>1 DEF SpinInv
  <2> QED
    BY <1>3, <2>1, <2>2, LooksTurns DEF KeepsTurns, Kept
<1>4. ASSUME NEW h \in handlers, Works(h)
      PROVE  \E t \in DOMAIN turns' :
               turns'[t].at \in Awaits /\ turns'[t].bubble = b.turn
  BY <1>4, WorksDoes DEF Moves, SpinInv
<1>5. ASSUME NEW t \in DOMAIN turns, NEW u, TurnStep(t, u)
      PROVE  \E n \in DOMAIN turns' :
               turns'[n].at \in Awaits /\ turns'[n].bubble = b.turn
  <2> DEFINE a == turns[t]
  <2>1. /\ DOMAIN turns' = DOMAIN turns /\ turns'[t] = u
        /\ \A n \in DOMAIN turns \ {t} : turns'[n] = turns[n]
    BY <1>5, StepsTurns
  <2>2. Paints(a, u) /\ u.bubble = a.bubble
    BY <1>5 DEF TurnStep, Paths
  <2>3. CASE b.turn = u.bubble /\ u.at \in Awaits
    BY <2>1, <2>3
  <2>4. CASE b \in view.messages /\ (b.turn # a.bubble \/ a.at \notin Awaits)
    <3>1. PICK n \in DOMAIN turns : turns[n].at \in Awaits /\ turns[n].bubble = b.turn
      BY <2>4 DEF SpinInv
    <3> QED
      BY <2>1, <2>4, <3>1
  <2>5. CASE b \in view.messages /\ u.at \in Awaits
    <3>1. PICK n \in DOMAIN turns : turns[n].at \in Awaits /\ turns[n].bubble = b.turn
      BY <2>5 DEF SpinInv
    <3> QED
      BY <2>1, <2>2, <2>5, <3>1
  <2> QED
    BY <2>2, <2>3, <2>4, <2>5 DEF Paints
<1> QED
  BY <1>1, <1>2, <1>3, <1>4, <1>5, NextDoes

-----------------------------------------------------------------------------
(* A turn no click disturbed: no answer of a click is awaited, the turns   *)
(* before it have ended, and until it ends it is the last and holds the    *)
(* composer.                                                               *)
Alone(t) ==
    turns[t].clean =>
        /\ lookups = {}
        /\ \A n \in DOMAIN turns : n < t => turns[n].at = "ended"
        /\ turns[t].at # "ended" => t = Len(turns) /\ view.sending
CleanInv == \A t \in DOMAIN turns : Alone(t)

(* Every step preserves it.                                                *)
LEMMA CleanStep == TypeInv /\ CleanInv /\ [Next]_vars => CleanInv'
<1> SUFFICES ASSUME TypeInv, CleanInv, [Next]_vars,
                    NEW t \in DOMAIN turns', turns'[t].clean
             PROVE  /\ lookups' = {}
                    /\ \A n \in DOMAIN turns' : n < t => turns'[n].at = "ended"
                    /\ turns'[t].at # "ended" => t = Len(turns') /\ view'.sending
  BY DEF CleanInv, Alone
<1> DEFINE Goal == /\ lookups' = {}
                   /\ \A n \in DOMAIN turns' : n < t => turns'[n].at = "ended"
                   /\ turns'[t].at # "ended" => t = Len(turns') /\ view'.sending
<1>1. CASE UNCHANGED vars
  BY <1>1 DEF vars, CleanInv, Alone
<1>2. ASSUME NEW u, Begins(u) PROVE Goal
  <2>1. /\ KeepsTurns /\ view'.sending /\ lookups' = lookups
        /\ u.clean => Active = {} /\ lookups = {}
        /\ ~view.sending \/ \A n \in DOMAIN turns : ~turns'[n].clean
    BY <1>2 DEF Begins
  <2>2. /\ DOMAIN turns' = DOMAIN turns \cup {Len(turns) + 1}
        /\ Len(turns') = Len(turns) + 1 /\ Len(turns) \in Nat
        /\ turns'[Len(turns) + 1] = u /\ DOMAIN turns = 1 .. Len(turns)
    BY <1>2, BeginsTurns
  <2>3. \A n \in DOMAIN turns : turns'[n].at = turns[n].at
    BY <2>1 DEF KeepsTurns, Kept
  <2>4. CASE t = Len(turns) + 1
    <3>1. Active = {} /\ lookups = {}
      BY <2>1, <2>2, <2>4
    <3>2. \A n \in DOMAIN turns : turns[n].at = "ended"
      BY <3>1 DEF Active
    <3> QED
      BY <2>1, <2>2, <2>3, <2>4, <3>1, <3>2
  <2>5. CASE t \in DOMAIN turns
    <3>1. turns[t].clean /\ ~view.sending
      BY <2>1, <2>5 DEF KeepsTurns, Kept
    <3>2. /\ lookups = {} /\ turns[t].at = "ended"
          /\ \A n \in DOMAIN turns : n < t => turns[n].at = "ended"
      BY <2>5, <3>1 DEF CleanInv, Alone
    <3>3. \A n \in DOMAIN turns' : n < t => n \in DOMAIN turns
      BY <2>2, <2>5
    <3> QED
      BY <2>1, <2>3, <2>5, <3>2, <3>3
  <2> QED
    BY <2>2, <2>4, <2>5
<1>3. ASSUME Looks PROVE Goal
  <2>1. /\ KeepsTurns /\ view'.sending = view.sending /\ Len(turns') = Len(turns)
        /\ DOMAIN turns' = DOMAIN turns
    BY <1>3, LooksTurns DEF Looks
  <2>2. \A n \in DOMAIN turns :
          turns'[n].at = turns[n].at /\ (turns'[n].clean => turns[n].clean)
    BY <2>1 DEF KeepsTurns, Kept
  <2>3. Alone(t) /\ turns[t].clean
    BY <2>1, <2>2 DEF CleanInv
  <2>4. lookups' = {}
    BY <1>3, <2>1, <2>3 DEF Looks, Alone
  <2> QED
    BY <2>1, <2>2, <2>3, <2>4 DEF Alone
<1>4. ASSUME NEW h \in handlers, Works(h) PROVE Goal
  <2>1. UNCHANGED <<view, turns, lookups>>
    BY <1>4, WorksDoes DEF Moves
  <2> QED
    BY <2>1 DEF CleanInv, Alone
<1>5. ASSUME NEW s \in DOMAIN turns, NEW u, TurnStep(s, u) PROVE Goal
  <2>1. /\ DOMAIN turns' = DOMAIN turns /\ turns'[s] = u /\ Len(turns') = Len(turns)
        /\ \A n \in DOMAIN turns \ {s} : turns'[n] = turns[n]
        /\ DOMAIN turns = 1 .. Len(turns)
    BY <1>5, StepsTurns
  <2>2. /\ lookups' = lookups /\ turns[s].at # "ended" /\ u.clean = turns[s].clean
        /\ u.at # "ended" => view'.sending = view.sending
    BY <1>5 DEF TurnStep, Paths
  <2>3. turns[t].clean /\ Alone(t)
    BY <2>1, <2>2 DEF CleanInv
  <2>4. Len(turns) \in Nat
    BY LenProperties DEF TypeInv
  <2>5. CASE t = s
    BY <2>1, <2>2, <2>3, <2>4, <2>5 DEF Alone
  <2>6. CASE t # s
    <3>1. ~(s < t)
      BY <2>2, <2>3 DEF Alone
    <3>2. t # Len(turns)
      BY <2>1, <2>4, <2>6, <3>1
    <3>3. turns[t].at = "ended" /\ turns'[t] = turns[t]
      BY <2>1, <2>3, <2>6, <3>2 DEF Alone
    <3>4. \A n \in DOMAIN turns : n < t => turns'[n] = turns[n]
      BY <2>1, <3>1
    <3> QED
      BY <2>1, <2>2, <2>3, <3>3, <3>4 DEF Alone
  <2> QED
    BY <2>5, <2>6
<1> QED
  BY <1>1, <1>2, <1>3, <1>4, <1>5, NextDoes

-----------------------------------------------------------------------------
(* The rows of an undisturbed turn of which nothing failed.  Those it has  *)
(* are of one conversation: of the one on the screen, until it sends its   *)
(* chat request, and then of the one the request is filed in, which is on  *)
(* the screen when the turn ends.                                          *)
Of(t) == {h \in handlers : h.turn = t}
Joined(t) ==
    /\ turns[t].at = "save" => turns[t].session = view.session
    /\ turns[t].at \in {"report"} \cup Asked => Rows(t) = {}
    /\ \A r, s \in Rows(t) : r.session = s.session
    /\ (turns[t].at # "ended" \/ t = Len(turns)) /\ Of(t) = {} =>
         \A r \in Rows(t) : r.session = view.session
    /\ \A h, g \in Of(t) : h = g
    /\ \A h \in Of(t) :
         /\ turns[t].at \in {"stream", "json", "ended"}
         /\ h.phase \in {"posted", "refused"} => Rows(t) = {}
         /\ \A r \in Rows(t) : r.session = h.session
         /\ turns[t].at = "ended" => h.phase = "replied"
         /\ turns[t].at = "ended" /\ t = Len(turns) => h.session = view.session

TogetherInv ==
    \A t \in DOMAIN turns : turns[t].clean /\ ~turns[t].failed => Joined(t)

(* The chat request, if there is one, ended in the conversation shown.     *)
LEMMA TogetherInvImpliesTurnsStayTogether == TogetherInv => TurnsStayTogether
<1> SUFFICES ASSUME TogetherInv, NEW t \in DOMAIN turns,
                    turns[t].clean, ~turns[t].failed
             PROVE  /\ \A r, s \in Rows(t) : r.session = s.session
                    /\ t = Len(turns) /\ turns[t].at = "ended" =>
                         \A r \in Rows(t) : r.session = view.session
  BY DEF TurnsStayTogether
<1>1. Joined(t)
  BY DEF TogetherInv
<1>2. CASE Of(t) = {}
  BY <1>1, <1>2 DEF Joined
<1>3. CASE Of(t) # {}
  BY <1>1, <1>3 DEF Joined
<1> QED
  BY <1>2, <1>3

(* What a turn that is not stepped keeps.                                  *)
LEMMA JoinedKept ==
    ASSUME NEW t, Joined(t), turns'[t].at = turns[t].at,
           turns'[t].session = turns[t].session,
           Rows(t)' = Rows(t), Of(t)' = Of(t),
           \/ view'.session = view.session /\ (t = Len(turns') => t = Len(turns))
           \/ turns[t].at = "ended" /\ t # Len(turns')
    PROVE  Joined(t)'
<1> DEFINE R == Rows(t)
           O == Of(t)
<1>1. R' = R /\ O' = O
  OBVIOUS
<1>2. /\ turns'[t].at = "save" => turns'[t].session = view'.session
      /\ turns'[t].at \in {"report"} \cup Asked => R' = {}
      /\ \A r, s \in R' : r.session = s.session
      /\ \A h, g \in O' : h = g
  BY <1>1 DEF Joined
<1>3. (turns'[t].at # "ended" \/ t = Len(turns')) /\ O' = {} =>
        \A r \in R' : r.session = view'.session
  BY <1>1 DEF Joined
<1>4. \A h \in O' :
        /\ turns'[t].at \in {"stream", "json", "ended"}
        /\ h.phase \in {"posted", "refused"} => R' = {}
        /\ \A r \in R' : r.session = h.session
        /\ turns'[t].at = "ended" => h.phase = "replied"
        /\ turns'[t].at = "ended" /\ t = Len(turns') => h.session = view'.session
  BY <1>1 DEF Joined
<1> QED
  BY <1>2, <1>3, <1>4 DEF Joined

(* A step of the turn itself.                                              *)
LEMMA JoinedStep ==
    ASSUME TypeInv, NEW t \in DOMAIN turns, NEW u, TurnStep(t, u), Joined(t), ~u.failed
    PROVE  Joined(t)'
<1> DEFINE a == turns[t]
           R == Rows(t)
           O == Of(t)
<1>1. turns'[t] = u /\ Len(turns') = Len(turns)
  BY StepsTurns
<1>2. /\ Posts(t, a, u) /\ Paths(a, u) /\ Joins(t, a, u)
      /\ u.at = "save" => u.session = view'.session
  BY DEF TurnStep
<1>3. /\ a.at = "save" => a.session = view.session
      /\ a.at \in {"report"} \cup Asked => R = {}
      /\ \A r, s \in R : r.session = s.session
      /\ O = {} => \A r \in R : r.session = view.session
      /\ \A h, g \in O : h = g
      /\ \A h \in O :
           /\ a.at \in {"stream", "json"}
           /\ h.phase \in {"posted", "refused"} => R = {}
           /\ \A r \in R : r.session = h.session
  BY <1>2 DEF Joined, Paths
<1>4. /\ a.at # "ended" /\ u.at # "report"
      /\ u.at \in Asked => a.at \in Asked
      /\ u.at \in {"stream", "json"} => a.at \in {u.at, "resolve"}
  BY <1>2 DEF Paths
<1>5. handlers' = handlers => O' = O
  BY DEF Of
<1>6. store' = store => R' = R
  BY DEF Rows
<1> HIDE DEF a
<1>7. ASSUME handlers' = handlers, view'.session = view.session, store' = store,
             a.at \in {"stream", "json"} => u.at = a.at
      PROVE  Joined(t)'
  <2>1. O' = O /\ R' = R
    BY <1>5, <1>6, <1>7
  <2> HIDE DEF O, R
  <2>2. /\ u.at \in {"report"} \cup Asked => R' = {}
        /\ \A r, s \in R' : r.session = s.session
        /\ O' = {} => \A r \in R' : r.session = view'.session
        /\ \A h, g \in O' : h = g
    BY <1>3, <1>4, <1>7, <2>1
  <2>3. \A h \in O' :
          /\ u.at \in {"stream", "json"}
          /\ h.phase \in {"posted", "refused"} => R' = {}
          /\ \A r \in R' : r.session = h.session
    BY <1>3, <1>7, <2>1
  <2> QED
    BY <1>1, <1>2, <2>2, <2>3 DEF Joined, O, R
<1>8. ASSUME NEW via \in {"stream", "json"},
             handlers' = handlers \cup {Posted(t, via, view)}, u.at = via,
             a.at = "resolve", store' = store
      PROVE  Joined(t)'
  <2>1. R = {} /\ O = {}
    BY <1>3, <1>8 DEF Asked
  <2>2. R' = {} /\ O' = {Posted(t, via, view)}
    <3>1. Posted(t, via, view).turn = t
      BY DEF Posted
    <3> QED
      BY <1>6, <1>8, <2>1, <3>1 DEF Of
  <2>3. Posted(t, via, view).phase = "posted"
    BY DEF Posted
  <2> HIDE DEF O, R
  <2>4. /\ u.at \in {"stream", "json"} /\ u.at \notin {"save", "ended"}
    BY <1>8
  <2> QED
    BY <1>1, <2>2, <2>3, <2>4 DEF Joined, O, R
<1>9. ASSUME handlers' = handlers, Saves(t, a),
             view'.session = SessionFor(store, a.session)
      PROVE  Joined(t)'
  <2>1. a.at = "save" /\ O = {} /\ O' = {}
    BY <1>3, <1>5, <1>9 DEF Saves
  <2>2. PICK role \in Roles :
          store' = Inserted(store, a.session, t, role, "local")
    BY <1>9 DEF Saves
  <2> DEFINE s == SessionFor(store, a.session)
             row == [turn |-> t, role |-> role, via |-> "local", session |-> s]
  <2>3. store'.rows = store.rows \cup {row}
    BY <2>2 DEF Inserted, SessionFor
  <2>4. row.session = s
    OBVIOUS
  <2>5. \A r \in R : r.session = s
    <3>1. \A r \in R : r.session = a.session /\ r.session \in store.sessions
      BY <1>3, <2>1 DEF Rows, TypeInv, StoreOK
    <3> QED
      BY <3>1 DEF SessionFor
  <2> HIDE DEF s, row
  <2>6. \A r \in R' : r.session = s
    BY <2>3, <2>4, <2>5 DEF Rows
  <2>7. view'.session = s
    BY <1>9 DEF s
  <2>8. u.at \notin {"report"} \cup Asked
    BY <1>4, <2>1 DEF Asked
  <2> HIDE DEF O, R
  <2> QED
    BY <1>1, <1>2, <2>1, <2>6, <2>7, <2>8 DEF Joined, O, R
<1>10. ASSUME NEW h \in handlers, handlers' = handlers, store' = store,
              h.turn = t, a.at \in {"stream", "json"}, u.at \in {a.at, "ended"},
              u.at = "ended" => h.phase = "replied", view'.session = h.session
       PROVE  Joined(t)'
  <2>1. O' = O /\ R' = R /\ h \in O
    BY <1>5, <1>6, <1>10 DEF Of
  <2>2. \A g \in O : g = h
    BY <1>3, <2>1
  <2> HIDE DEF O, R
  <2>3. u.at \notin {"save", "report"} \cup Asked
    BY <1>10 DEF Asked
  <2>4. \A g \in O' :
          /\ u.at \in {"stream", "json", "ended"}
          /\ g.phase \in {"posted", "refused"} => R' = {}
          /\ \A r \in R' : r.session = g.session
          /\ u.at = "ended" => g.phase = "replied"
          /\ g.session = view'.session
    BY <1>3, <1>10, <2>1, <2>2
  <2>5. O' # {} /\ \A x, y \in O' : x = y
    BY <2>1, <2>2
  <2>6. \A r, s \in R' : r.session = s.session
    BY <1>3, <2>1
  <2> QED
    BY <1>1, <2>3, <2>4, <2>5, <2>6 DEF Joined, O, R
<1>11. handlers' # handlers => a.at \notin {"stream", "json", "save"}
  BY <1>2 DEF Posts
<1>12. CASE handlers' = handlers
  BY <1>2, <1>7, <1>9, <1>10, <1>12 DEF Joins
<1>13. CASE handlers' # handlers
  <2>1. store' = store
    BY <1>2, <1>11, <1>13 DEF Joins, Saves
  <2> QED
    BY <1>2, <1>8, <1>13, <2>1 DEF Posts
<1> QED
  BY <1>12, <1>13

(* A step of the gateway on the request of the turn.                       *)
LEMMA JoinedMoves ==
    ASSUME TypeInv, NEW h \in handlers, NEW g, Moves(h, g),
           Joined(h.turn)
    PROVE  Joined(h.turn)'
<1> DEFINE t == h.turn
           R == Rows(t)
           O == Of(t)
<1>1. /\ g.turn = t /\ handlers' = (handlers \ {h}) \cup {g}
      /\ turns' = turns /\ view' = view
      /\ h.phase \in {"posted", "accepted"} /\ g.phase \notin {"posted"}
      /\ g.phase = "refused" => h.phase = "posted"
      /\ h.phase = "accepted" => g.session = h.session
  BY DEF Moves
<1>2. h \in O
  BY DEF Of
<1>3. /\ \A x \in O : x = h
      /\ turns[t].at \in {"stream", "json", "ended"}
      /\ h.phase = "posted" => R = {}
      /\ \A r \in R : r.session = h.session
      /\ turns[t].at # "ended"
  BY <1>1, <1>2 DEF Joined
<1>4. O' = {g}
  <2>1. \A x \in handlers : x.turn = t => x = h
    BY <1>3 DEF Of
  <2> HIDE DEF t
  <2>2. O' = {x \in handlers' : x.turn = t}
    BY DEF Of, t, Moves
  <2> QED
    BY <1>1, <2>1, <2>2
<1>5. /\ \A r \in R' : r.session = g.session
      /\ g.phase = "refused" => R' = {}
  <2>1. \A r \in store'.rows :
          \/ r \in store.rows
          \/ r.turn = t /\ r.session = g.session /\ g.phase \in Heard
    BY MovesStore
  <2>2. \A r \in R' : r \in R \/ (r.session = g.session /\ g.phase \in Heard)
    BY <2>1 DEF Rows, Moves
  <2>3. R # {} => h.phase = "accepted"
    BY <1>1, <1>3
  <2> HIDE DEF R
  <2> QED
    BY <1>1, <1>3, <2>2, <2>3 DEF Heard
<1> HIDE DEF O, R
<1>6. turns'[t].at \in {"stream", "json"}
  BY <1>1, <1>3
<1> QED
  BY <1>1, <1>4, <1>5, <1>6 DEF Joined, O, R, Asked

(* Every step preserves it.                                                *)
LEMMA TogetherStep ==
    TypeInv /\ CleanInv /\ TogetherInv /\ [Next]_vars => TogetherInv'
<1> SUFFICES ASSUME TypeInv, CleanInv, TogetherInv, [Next]_vars,
                    NEW t \in DOMAIN turns', turns'[t].clean, ~turns'[t].failed
             PROVE  Joined(t)'
  BY DEF TogetherInv
<1>1. CASE UNCHANGED vars
  <2>1. Joined(t)
    BY <1>1 DEF vars, TogetherInv
  <2>2. Rows(t)' = Rows(t) /\ Of(t)' = Of(t)
    BY <1>1 DEF vars, Rows, Of
  <2> QED
    BY <1>1, <2>1, <2>2, JoinedKept DEF vars
<1>2. ASSUME NEW u, Begins(u) PROVE Joined(t)'
  <2>1. /\ KeepsTurns /\ view'.session = view.session
        /\ handlers' = handlers /\ store' = store
        /\ u.at = "save" => u.session = view.session
    BY <1>2 DEF Begins
  <2>2. /\ DOMAIN turns' = DOMAIN turns \cup {Len(turns) + 1}
        /\ Len(turns') = Len(turns) + 1 /\ Len(turns) \in Nat
        /\ Len(turns) + 1 \notin DOMAIN turns
        /\ turns'[Len(turns) + 1] = u /\ DOMAIN turns = 1 .. Len(turns)
    BY <1>2, BeginsTurns
  <2>3. Rows(t)' = Rows(t) /\ Of(t)' = Of(t)
    BY <2>1 DEF Rows, Of
  <2>4. CASE t = Len(turns) + 1
    <3>1. Rows(t) = {} /\ Of(t) = {}
      BY <2>2, <2>4 DEF Rows, Of, TypeInv
    <3> QED
      BY <2>1, <2>2, <2>3, <2>4, <3>1 DEF Joined
  <2>5. CASE t \in DOMAIN turns
    <3>1. /\ turns[t].clean /\ ~turns[t].failed /\ turns'[t].at = turns[t].at
          /\ turns'[t].session = turns[t].session
      BY <2>1, <2>5 DEF KeepsTurns, Kept
    <3>2. Joined(t)
      BY <2>5, <3>1 DEF TogetherInv
    <3>3. t # Len(turns')
      BY <2>2, <2>5
    <3> QED
      BY <2>1, <2>3, <3>1, <3>2, <3>3, JoinedKept
  <2> QED
    BY <2>2, <2>4, <2>5
<1>3. ASSUME Looks PROVE Joined(t)'
  <2>1. /\ KeepsTurns /\ Len(turns') = Len(turns) /\ handlers' = handlers
        /\ DOMAIN turns' = DOMAIN turns
    BY <1>3, LooksTurns DEF Looks
  <2>2. /\ turns[t].clean /\ ~turns[t].failed /\ turns'[t].at = turns[t].at
        /\ turns'[t].session = turns[t].session
    BY <2>1 DEF KeepsTurns, Kept
  <2>3. lookups = {} /\ Joined(t)
    BY <2>1, <2>2 DEF CleanInv, Alone, TogetherInv
  <2>4. store' = store /\ view'.session = view.session
    BY <1>3, <2>1, <2>3 DEF Looks
  <2>5. Rows(t)' = Rows(t) /\ Of(t)' = Of(t)
    BY <2>1, <2>4 DEF Rows, Of
  <2> QED
    BY <2>1, <2>2, <2>3, <2>4, <2>5, JoinedKept
<1>4. ASSUME NEW h \in handlers, Works(h) PROVE Joined(t)'
  <2>1. PICK g : Moves(h, g)
    BY <1>4, WorksDoes
  <2>2. /\ turns' = turns /\ view' = view /\ g.turn = h.turn
        /\ handlers' = (handlers \ {h}) \cup {g}
    BY <2>1 DEF Moves
  <2>3. Joined(t)
    BY <2>2 DEF TogetherInv
  <2>4. CASE h.turn = t
    BY <1>4, <2>1, <2>3, <2>4, JoinedMoves
  <2>5. CASE h.turn # t
    <3>1. Of(t)' = Of(t)
      BY <2>2, <2>5 DEF Of
    <3>2. Rows(t)' = Rows(t)
      <4>1. /\ store.rows \subseteq store'.rows
            /\ \A r \in store'.rows : r \in store.rows \/ r.turn = h.turn
        BY <1>4, <2>1, MovesStore
      <4> QED
        BY <2>5, <4>1 DEF Rows
    <3> QED
      BY <2>2, <2>3, <3>1, <3>2, JoinedKept
  <2> QED
    BY <2>4, <2>5
<1>5. ASSUME NEW s \in DOMAIN turns, NEW u, TurnStep(s, u) PROVE Joined(t)'
  <2>1. /\ DOMAIN turns' = DOMAIN turns /\ turns'[s] = u /\ Len(turns') = Len(turns)
        /\ \A n \in DOMAIN turns \ {s} : turns'[n] = turns[n]
        /\ DOMAIN turns = 1 .. Len(turns)
    BY <1>5, StepsTurns
  <2>2. /\ turns[s].at # "ended" /\ u.clean = turns[s].clean
        /\ (turns[s].failed => u.failed) /\ Posts(s, turns[s], u)
        /\ store' = store \/ Saves(s, turns[s])
    BY <1>5 DEF TurnStep, Paths
  <2>3. CASE t = s
    <3>1. Joined(s) /\ ~u.failed
      BY <2>1, <2>2, <2>3 DEF TogetherInv
    <3> QED
      BY <1>5, <2>3, <3>1, JoinedStep
  <2>4. CASE t # s
    <3>1. turns'[t] = turns[t] /\ Alone(t) /\ Joined(t) /\ turns[t].clean
      BY <2>1, <2>4 DEF CleanInv, TogetherInv
    <3>2. ~(s < t)
      BY <2>2, <3>1 DEF Alone
    <3>3. t # Len(turns)
      <4>1. Len(turns) \in Nat
        BY LenProperties DEF TypeInv
      <4> QED
        BY <2>1, <2>4, <3>2, <4>1
    <3>4. turns[t].at = "ended"
      BY <3>1, <3>3 DEF Alone
    <3>5. Of(t)' = Of(t)
      <4>1. \A via : Posted(s, via, view).turn = s
        BY DEF Posted
      <4> QED
        BY <2>2, <2>4, <4>1 DEF Of, Posts
    <3>6. Rows(t)' = Rows(t)
      <4>1. CASE store' = store
        BY <4>1 DEF Rows
      <4>2. CASE Saves(s, turns[s])
        <5>1. PICK role \in Roles :
                store' = Inserted(store, turns[s].session, s, role, "local")
          BY <4>2 DEF Saves
        <5>2. store.rows \subseteq store'.rows
          BY <5>1 DEF Inserted
        <5>3. \A r \in store'.rows : r \in store.rows \/ r.turn = s
          BY <1>5, StepsStore
        <5> QED
          BY <2>4, <5>2, <5>3 DEF Rows
      <4> QED
        BY <2>2, <4>1, <4>2
    <3> QED
      BY <2>1, <3>1, <3>3, <3>4, <3>5, <3>6, JoinedKept
  <2> QED
    BY <2>3, <2>4
<1> QED
  BY <1>1, <1>2, <1>3, <1>4, <1>5, NextDoes

-----------------------------------------------------------------------------
ChatInv == TypeInv /\ HandInv /\ SpinInv /\ CleanInv /\ TogetherInv

(* The chat keeps its invariant.                                           *)
THEOREM ChatKeepsInv == Spec => []ChatInv
<1>1. Init => ChatInv
  <2> SUFFICES ASSUME Init PROVE ChatInv
    OBVIOUS
  <2>1. DOMAIN turns = {} /\ handlers = {} /\ store.rows = {} /\ view.messages = {}
    BY DEF Init
  <2>2. HandInv /\ SpinInv /\ CleanInv /\ TogetherInv
    BY <2>1 DEF HandInv, OneRequest, Placed, Filed, FiledOnce, SpinInv, CleanInv,
                TogetherInv
  <2> QED
    BY <2>2, TypeInit DEF ChatInv
<1>2. ChatInv /\ [Next]_vars => ChatInv'
  BY TypeStep, HandStep, SpinStep, CleanStep, TogetherStep DEF ChatInv
<1> QED
  BY <1>1, <1>2, PTL DEF Spec

(* sendMessage and what it calls: the view, the turns and the two tables   *)
(* of the copilot have their types, a turn is at a save exactly while it   *)
(* has messages to save, and every row is of a session there is.           *)
THEOREM ChatTypeOK == Spec => []TypeOK
<1>1. ChatInv => TypeOK
  BY TypeInvImpliesTypeOK DEF ChatInv
<1> QED
  BY <1>1, ChatKeepsInv, PTL

(* The catch of sendMessage: a message of which the gateway said it has it *)
(* is filed once, whatever becomes of its stream, of any number of turns,  *)
(* clicks and faults.                                                      *)
THEOREM AcceptedMessageFiledOnce == Spec => []AcceptedOnce
<1>1. ChatInv => AcceptedOnce
  BY HandInvImpliesAcceptedOnce DEF ChatInv
<1> QED
  BY <1>1, ChatKeepsInv, PTL

(* replacePendingAssistant and the report's bubble: one that still waits   *)
(* has a turn that is to write to it.                                      *)
THEOREM SpinnerIsOfATurn == Spec => []SpinnerHasTurn
<1>1. ChatInv => SpinnerHasTurn
  BY SpinInvImpliesSpinnerHasTurn DEF ChatInv
<1> QED
  BY <1>1, ChatKeepsInv, PTL

(* persistCopilotMessage and the stream: while the user stays and nothing  *)
(* of the turn fails, its rows are of one conversation, and of the one on  *)
(* the screen when the last turn ends.                                     *)
THEOREM TurnFiledTogether == Spec => []TurnsStayTogether
<1>1. ChatInv => TurnsStayTogether
  BY TogetherInvImpliesTurnsStayTogether DEF ChatInv
<1> QED
  BY <1>1, ChatKeepsInv, PTL
=============================================================================
