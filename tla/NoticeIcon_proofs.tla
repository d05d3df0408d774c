-------------------------- MODULE NoticeIcon_proofs --------------------------
(***************************************************************************)
(* VisibilityPolling keeps its timer in step with the page, by itself and  *)
(* as the bell of the header uses it, which makes a new poller with every  *)
(* mount.  That a started poller listens is what a turn of the page needs. *)
(***************************************************************************)
EXTENDS NoticeIcon, TLAPS

Listens == poller.listening <=> ~poller.stopped

PollInv == PollTypeOK /\ PollsWhileSeen /\ Listens

(* Creating a poller makes the invariant true.                             *)
LEMMA PollInitial == PollInit => PollInv
BY OptionsAssumption DEF PollInit, Created, PollInv, PollTypeOK, PollsWhileSeen,
   Listens, Suspended

(* A poller is in step with the page once it has been started on it.       *)
LEMMA StartedKeeps ==
    ASSUME NEW p \in [stopped : BOOLEAN, listening : BOOLEAN, running : BOOLEAN,
                      timer : BOOLEAN],
           hidden \in BOOLEAN,
           poller' = Started(p, hidden), hidden' = hidden
    PROVE  PollInv'
BY OptionsAssumption DEF Started, Schedule, Tick, Ticks, Suspended, PollInv,
   PollTypeOK, PollsWhileSeen, Listens

(* Every step of the poller keeps it.                                      *)
LEMMA PollStep == PollInv /\ [PollNext]_pollVars => PollInv'
<1> SUFFICES ASSUME PollInv, [PollNext]_pollVars
             PROVE  PollInv'
  OBVIOUS
<1>1. CASE Start
  BY <1>1, StartedKeeps DEF Start, PollInv, PollTypeOK
<1>2. CASE Stop
  BY <1>2, OptionsAssumption DEF Stop, Suspended, PollInv, PollTypeOK, PollsWhileSeen, Listens
<1>3. CASE VisibilityChange
  BY <1>3, OptionsAssumption DEF VisibilityChange, HandleVisibility, Schedule, Tick,
     Ticks, Suspended, PollInv, PollTypeOK, PollsWhileSeen, Listens
<1>4. CASE TimerFires
  BY <1>4, OptionsAssumption DEF TimerFires, Tick, Ticks, Suspended, PollInv,
     PollTypeOK, PollsWhileSeen, Listens
<1>5. CASE TaskSettles
  BY <1>5, OptionsAssumption DEF TaskSettles, Suspended, PollInv, PollTypeOK,
     PollsWhileSeen, Listens
<1>6. CASE UNCHANGED pollVars
  BY <1>6 DEF pollVars, Suspended, PollInv, PollTypeOK, PollsWhileSeen, Listens
<1> QED
  BY <1>1, <1>2, <1>3, <1>4, <1>5, <1>6 DEF PollNext

(* However a poller is started and stopped while the page is turned over,  *)
(* its timer runs exactly while it may.                                    *)
THEOREM PollerFollowsPage == PollSpec => []PollsWhileSeen
<1>1. PollInv => PollsWhileSeen
  BY DEF PollInv
<1> QED
  BY PollInitial, PollStep, <1>1, PTL DEF PollSpec

(* Every step of the page is a step of the poller, or makes a new one.     *)
LEMMA PageStep == PollInv /\ [Next]_vars => PollInv'
<1> SUFFICES ASSUME PollInv, [Next]_vars
             PROVE  PollInv'
  OBVIOUS
<1>1. CASE Mounted
  BY <1>1, StartedKeeps DEF Mounted, Created, PollInv, PollTypeOK
<1>2. CASE [PollNext]_pollVars
  BY <1>2, PollStep
<1>3. Next /\ ~Mounted => [PollNext]_pollVars
  BY DEF Next, PollNext, pollVars, BeforeDestroy, Polled, HandleVisibleChange,
     FetchNotice, MarkRead, MarkOver, MarkAnswered, MarkCommits, MarkFails, Notified,
     OldValuesExpire, ListAnswered, ReadList, CountAnswered, CountServed
<1>4. UNCHANGED vars => UNCHANGED pollVars
  BY DEF vars, pollVars
<1> QED
  BY <1>1, <1>2, <1>3, <1>4

(* The bell of the header is polled for exactly while it is mounted on a   *)
(* page that can be seen: no mount leaves a timer behind.                  *)
THEOREM BellFollowsPage == Spec => []PollsWhileSeen
<1>1. Init => PollInv
  BY PollInitial DEF Init
<1>2. PollInv => PollsWhileSeen
  BY DEF PollInv
<1> QED
  BY <1>1, PageStep, <1>2, PTL DEF Spec
=============================================================================
