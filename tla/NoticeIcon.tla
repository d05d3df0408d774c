------------------------------ MODULE NoticeIcon -----------------------------
(***************************************************************************)
(* components/NoticeIcon/NoticeIcon.vue, the bell of the page header: a    *)
(* badge with the number of unread notifications, which the gateway        *)
(* answers through guarded_cached (CachedRead, which RequestGuard is shown *)
(* to implement), and the list of a popover, which it reads directly.      *)
(* VisibilityPolling renews both; opening the popover and marking a        *)
(* notification renew them too.                                            *)
(*                                                                         *)
(* A count or a list is the version of the user's notifications it was     *)
(* read from; 0 is none.                                                   *)
(***************************************************************************)
EXTENDS VisibilityPolling, CachedRead

CONSTANTS
    Lists,      \* list requests of the page; its count requests are the Readers
    MaxVersion, \* bound: changes of the notifications
    MaxPosts,   \* bound: times the user marks or clears notifications
    MaxFaults   \* bound: requests that fail

VARIABLES
    icon,       \* mounted, visible, loading, and the versions of badge and list
    lists,      \* list requests
    post,       \* the read, read-all or clear request; one at a time
    faults

iconVars == <<icon, lists, post, faults>>
vars == <<iconVars, pollVars, readVars>>

NoList == [at |-> "none", got |-> 0]
NoPost == [at |-> "none", kind |-> "read", sent |-> 0]
Fault == faults < MaxFaults /\ faults' = faults + 1

NewIcon == [mounted |-> FALSE, visible |-> FALSE, loading |-> FALSE,
            unread |-> 0, list |-> 0]

Init ==
    /\ PollInit /\ ReadInit
    /\ icon = NewIcon
    /\ lists = [l \in Lists |-> NoList]
    /\ post = NoPost /\ faults = 0
-----------------------------------------------------------------------------
fetchUnreadCount ==
    \E r \in Readers :
        /\ reader[r].at = "idle"
        /\ reader' = [reader EXCEPT ![r] = [at |-> "asked", from |-> oldest, got |-> 0]]
        /\ UNCHANGED <<version, oldest>>

(* The request; the caller turns the spinner on unless it is silent.       *)
fetchNotifications ==
    \E l \in Lists : /\ lists[l].at = "none"
                     /\ lists' = [lists EXCEPT ![l].at = "sent"]

(* Every mount creates a poller; what the page asked for before it left    *)
(* the header is answered to nobody.                                       *)
Mounted ==
    /\ ~icon.mounted
    /\ icon' = [NewIcon EXCEPT !.mounted = TRUE]
    /\ fetchUnreadCount
    /\ poller' = Started(Created, hidden)
    /\ UNCHANGED <<hidden, lists, post, faults>>

BeforeDestroy ==
    /\ icon.mounted
    /\ icon' = NewIcon
    /\ Stop
    /\ reader' = [r \in Readers |-> Free] /\ UNCHANGED <<version, oldest>>
    /\ lists' = [l \in Lists |-> NoList]
    /\ post' = [NoPost EXCEPT !.at = IF post.at = "sent" THEN "orphan" ELSE "none",
                              !.sent = post.sent]
    /\ UNCHANGED faults

(* Mutant: the poll renews the badge and leaves the open list as it was.    *)
PolledBadge ==
    /\ icon.mounted /\ TaskSettles
    /\ fetchUnreadCount
    /\ UNCHANGED <<icon, lists, post, faults>>

(* The poller's task: it returns nothing, so the requests it leaves behind *)
(* keep no later turn of the timer away.                                   *)
Polled ==
    /\ icon.mounted /\ TaskSettles
    /\ fetchUnreadCount
    /\ IF icon.visible THEN fetchNotifications ELSE UNCHANGED lists
    /\ UNCHANGED <<icon, post, faults>>

(* A click on the bell calls fetchNotice, then turns the popover.          *)
FetchNotice ==
    /\ icon.mounted
    /\ fetchUnreadCount
    /\ IF icon.visible THEN UNCHANGED <<icon, lists>>
       ELSE icon' = [icon EXCEPT !.loading = TRUE] /\ fetchNotifications
    /\ UNCHANGED <<pollVars, post, faults>>

HandleVisibleChange ==
    /\ icon.mounted
    /\ icon' = [icon EXCEPT !.visible = ~@, !.loading = @ \/ ~icon.visible]
    /\ IF icon.visible THEN UNCHANGED <<readVars, lists>>
       ELSE fetchNotifications /\ fetchUnreadCount
    /\ UNCHANGED <<pollVars, post, faults>>

ListAnswered(l) ==
    /\ lists[l].at = "read"
    /\ lists' = [lists EXCEPT ![l] = NoList]
    /\ icon' = [icon EXCEPT !.loading = FALSE,
                            !.list = IF lists[l].got = 0 THEN @ ELSE lists[l].got]
    /\ UNCHANGED <<readVars, pollVars, post, faults>>

CountAnswered(r) ==
    /\ reader[r].at = "answered"
    /\ reader' = [reader EXCEPT ![r] = Free]
    /\ icon' = [icon EXCEPT !.unread = IF reader[r].got = 0 THEN @ ELSE reader[r].got]
    /\ UNCHANGED <<version, oldest, pollVars, lists, post, faults>>

(* markAsRead (from handleNoticeClick, which closes the popover),          *)
(* markAllRead and clearNotifications (which closes it when it is over).   *)
MarkRead(kind) ==
    /\ icon.mounted /\ icon.visible
    /\ post.at = "none" /\ post.sent < MaxPosts
    /\ post' = [at |-> "sent", kind |-> kind, sent |-> post.sent + 1]
    /\ icon' = [icon EXCEPT !.visible = kind # "read"]
    /\ UNCHANGED <<readVars, pollVars, lists, faults>>

MarkOver ==
    /\ post' = [NoPost EXCEPT !.sent = post.sent]
    /\ icon' = [icon EXCEPT !.visible = @ /\ post.kind # "clear"]
    /\ UNCHANGED <<pollVars, lists>>

MarkAnswered == post.at = "committed" /\ fetchUnreadCount /\ MarkOver /\ UNCHANGED faults
MarkFails == post.at = "sent" /\ Fault /\ MarkOver /\ UNCHANGED readVars
-----------------------------------------------------------------------------
(* The gateway and the rest of the world.                                  *)
CountServed(r) ==
    /\ reader[r].at = "asked"
    /\ \E a \in Answers(reader[r].from, version) :
         /\ reader' = [reader EXCEPT ![r] = a]
         /\ IF a.got = 0 THEN Fault ELSE UNCHANGED faults
    /\ UNCHANGED <<version, oldest, pollVars, icon, lists, post>>

OldValuesExpire ==
    /\ oldest' = version
    /\ UNCHANGED <<reader, version, iconVars, pollVars>>

ReadList(l) ==
    /\ lists[l].at = "sent"
    /\ \/ lists' = [lists EXCEPT ![l] = [at |-> "read", got |-> version]]
          /\ UNCHANGED faults
       \/ lists' = [lists EXCEPT ![l] = [at |-> "read", got |-> 0]]
          /\ Fault
    /\ UNCHANGED <<readVars, pollVars, icon, post>>

Write ==
    /\ version < MaxVersion
    /\ version' = version + 1
    /\ UNCHANGED <<reader, oldest>>

MarkCommits ==
    /\ post.at \in {"sent", "orphan"}
    /\ Write
    /\ post' = [post EXCEPT !.at = IF @ = "sent" THEN "committed" ELSE "none"]
    /\ UNCHANGED <<pollVars, icon, lists, faults>>

Notified == Write /\ UNCHANGED <<iconVars, pollVars>>

Next ==
    \/ Mounted \/ BeforeDestroy \/ Polled \/ HandleVisibleChange \/ FetchNotice
    \/ \E kind \in {"read", "read-all", "clear"} : MarkRead(kind)
    \/ MarkAnswered \/ MarkCommits \/ MarkFails
    \/ Notified \/ OldValuesExpire
    \/ \E l \in Lists : ListAnswered(l) \/ ReadList(l)
    \/ \E r \in Readers : CountAnswered(r) \/ CountServed(r)
    \/ (VisibilityChange \/ TimerFires) /\ UNCHANGED <<readVars, iconVars>>

(* The interval goes on, its task is run once a request of the page is     *)
(* free, what is asked is answered, answers arrive, and cached values      *)
(* expire.  Nothing makes the user or the notifications act.               *)
Fairness ==
    /\ WF_vars(TimerFires /\ UNCHANGED <<readVars, iconVars>>)
    /\ SF_vars(Polled)
    /\ WF_vars(OldValuesExpire)
    /\ \A l \in Lists : WF_vars(ListAnswered(l)) /\ WF_vars(ReadList(l))
    /\ \A r \in Readers : WF_vars(CountAnswered(r)) /\ WF_vars(CountServed(r))

Spec == Init /\ [][Next]_vars /\ Fairness
-----------------------------------------------------------------------------
Polling == icon.mounted /\ ~hidden

(* While the header stays on a page one looks at, the badge comes to show  *)
(* the notifications as they are, through cached, late, refused and failed *)
(* counts and whatever order the answers take.                             *)
BadgeCatchesUp == []<>(~Polling \/ icon.unread = version)

(* So does the list of a popover that is left open.                        *)
ListCatchesUp == []<>(~Polling \/ ~icon.visible \/ icon.list = version)
=============================================================================
