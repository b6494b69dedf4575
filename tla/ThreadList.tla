----------------------------- MODULE ThreadList -----------------------------
(***************************************************************************)
(* The list of threads on the inbox page (InboxPage.tsx): answers replace    *)
(* the list whole and in whatever order they come; a click on the star shows *)
(* at once and is taken back if it fails, a choice of status shows at once   *)
(* and stays, and archiving shows when it is done. What others do, and what  *)
(* a snooze or an assignment does to the status, shows with the next list:   *)
(* the socket event of a thread names the thread and not what it has become. *)
(***************************************************************************)
EXTENDS Naturals, FiniteSets

CONSTANTS
  Threads,    \* the threads of the page
  Clicks,     \* requests of the user under way at the same time
  Does,       \* what the user does: star, status, aside (assign or snooze), archive
  Lists,      \* requests for the list under way at the same time
  MaxChanges, \* bound: changes by others
  MaxFaults,  \* bound: answers that do not come
  None

ListAssumption ==
  /\ Does \subseteq {"star", "status", "aside", "archive"}
  /\ MaxChanges \in Nat /\ MaxFaults \in Nat /\ None \notin Clicks

VARIABLES
  stored,    \* the threads as the server has them
  list,      \* the threads as the list has them
  override,  \* the status chosen here, which the page shows instead
  lists,     \* requests for the list
  clicks,    \* requests of the user
  lastClick, \* the click on each thread's star that may be taken back
  changes, faults,
  \* history
  behind,    \* threads the server has changed in a way the page was not told of since
             \* the last list
  raced,     \* threads whose requests overlapped, or got no answer, since the last list
  crossed    \* threads whose row is from an answer that something crossed

vars == <<stored, list, override, lists, clicks, lastClick, changes, faults, behind,
          raced, crossed>>

Statuses == {"open", "done", "snoozed", "archived"}
Stars == {"on", "off"}
Row == [star : Stars, status : Statuses]
Fresh == [star |-> "off", status |-> "open"]

NoList == [at |-> "idle", rows |-> [t \in Threads |-> Fresh], crossed |-> {},
           after |-> {}]
NoClick == [at |-> "idle", do |-> "star", thread |-> None, want |-> None, prev |-> None]

TypeOK ==
  /\ stored \in [Threads -> Row] /\ list \in [Threads -> Row]
  /\ override \in [Threads -> Statuses \cup {None}]
  /\ lists \in [Lists -> [at : {"idle", "asked", "served"}, rows : [Threads -> Row],
                          crossed : SUBSET Threads, after : SUBSET Lists]]
  /\ clicks \in [Clicks -> [at : {"idle", "sent", "done", "failed"},
                            do : {"star", "status", "aside", "archive"},
                            thread : Threads \cup {None},
                            want : Stars \cup Statuses \cup {"restored", None},
                            prev : Stars \cup {None}]]
  /\ lastClick \in [Threads -> Clicks \cup {None}]
  /\ changes \in 0..MaxChanges /\ faults \in 0..MaxFaults
  /\ behind \subseteq Threads /\ raced \subseteq Threads /\ crossed \subseteq Threads

Init ==
  /\ stored = [t \in Threads |-> Fresh] /\ list = [t \in Threads |-> Fresh]
  /\ override = [t \in Threads |-> None]
  /\ lists = [l \in Lists |-> NoList] /\ clicks = [c \in Clicks |-> NoClick]
  /\ lastClick = [t \in Threads |-> None]
  /\ changes = 0 /\ faults = 0
  /\ behind = {} /\ raced = {} /\ crossed = {}

Asked == {l \in Lists : lists[l].at # "idle"}
Busy(t) == {c \in Clicks : clicks[c].at # "idle" /\ clicks[c].thread = t}
UnderWay == {t \in Threads : Busy(t) # {}}
Shown(t) == IF override[t] # None THEN override[t] ELSE list[t].status

\* Every list on its way is crossed by what happens to a thread.
Cross(t) == lists' = [l \in Lists |-> IF l \in Asked
                                      THEN [lists[l] EXCEPT !.crossed = @ \cup {t}]
                                      ELSE lists[l]]

----------------------------------------------------------------------------
(* The list. *)

\* Another view, a timer, a refresh of the mailbox, or an event: that of a thread only
\* on a later page or for a thread the page has not. At any time.
AskList(l) ==
  /\ l \notin Asked
  /\ lists' = [lists EXCEPT ![l] =
       [NoList EXCEPT !.at = "asked", !.after = Asked, !.crossed = UnderWay]]
  /\ UNCHANGED <<stored, list, override, clicks, lastClick, changes, faults,
                 behind, raced, crossed>>

ServeList(l) ==
  /\ lists[l].at = "asked"
  /\ lists' = [lists EXCEPT ![l].at = "served", ![l].rows = stored]
  /\ UNCHANGED <<stored, list, override, clicks, lastClick, changes, faults,
                 behind, raced, crossed>>

\* The lists under way, once l is gone; with an answer in the list, those asked for
\* before it are behind it.
Without(l, answered) ==
  [k \in Lists |->
     IF k = l THEN NoList
     ELSE [lists[k] EXCEPT !.after = @ \ {l},
                           !.crossed = IF answered /\ k \in lists[l].after
                                       THEN Threads ELSE @]]

\* The answer replaces the list, whichever request it belongs to.
AnswerList(l) ==
  /\ lists[l].at = "served"
  /\ list' = lists[l].rows
  /\ crossed' = lists[l].crossed \cup UnderWay
  /\ behind' = {} /\ raced' = {}
  /\ lists' = Without(l, TRUE)
  /\ UNCHANGED <<stored, override, clicks, lastClick, changes, faults>>

\* The list stays as it was.
LoseList(l) ==
  /\ l \in Asked /\ faults < MaxFaults
  /\ faults' = faults + 1
  /\ lists' = Without(l, FALSE)
  /\ UNCHANGED <<stored, list, override, clicks, lastClick, changes, behind, raced,
                 crossed>>

----------------------------------------------------------------------------
(* What the user does. *)

Send(c, do, t, want, prev) ==
  /\ do \in Does /\ clicks[c] = NoClick
  /\ clicks' = [clicks EXCEPT ![c] =
       [at |-> "sent", do |-> do, thread |-> t, want |-> want, prev |-> prev]]
  /\ raced' = IF t \in UnderWay THEN raced \cup {t} ELSE raced
  /\ Cross(t)
  /\ UNCHANGED <<stored, changes, faults, behind>>

ToggleStar(c, t) ==
  \E want \in Stars \ {list[t].star} :
    /\ Send(c, "star", t, want, list[t].star)
    /\ list' = [list EXCEPT ![t].star = want]
    /\ lastClick' = [lastClick EXCEPT ![t] = c]
    /\ UNCHANGED <<override, crossed>>

\* A choice of status.
SetStatus(c, t, status) ==
  /\ Send(c, "status", t, status, None)
  /\ override' = [override EXCEPT ![t] = status]
  /\ UNCHANGED <<list, lastClick, crossed>>

\* To assign a thread opens it, and a snooze puts it off: the page shows the assignee or
\* the date, and the status it had.
SetAside(c, t, status) ==
  /\ Send(c, "aside", t, status, None)
  /\ UNCHANGED <<list, override, lastClick, crossed>>

ToggleArchive(c, t) ==
  /\ Send(c, "archive", t, IF Shown(t) = "archived" THEN "restored" ELSE "archived", None)
  /\ UNCHANGED <<list, override, lastClick, crossed>>

\* What the server makes of a thread; from the archive it comes back with the status it
\* had before, whichever that was.
Outcomes(k) ==
  IF k.do = "star" THEN {[stored[k.thread] EXCEPT !.star = k.want]}
  ELSE {[stored[k.thread] EXCEPT !.status = status] :
          status \in IF k.want = "restored" THEN Statuses ELSE {k.want}}

\* The server does what it is asked, in any order. An answer may fail to come, or be
\* a refusal; that to an archive or its undoing has the status.
ServeClick(c) ==
  LET k == clicks[c]
  IN /\ k.at = "sent"
     /\ \E comes \in BOOLEAN :
          /\ comes \/ faults < MaxFaults
          /\ faults' = IF comes THEN faults ELSE faults + 1
          /\ \E does \in {comes, TRUE} :
               /\ \E row \in IF does THEN Outcomes(k) ELSE {stored[k.thread]} :
                    /\ stored' = [stored EXCEPT ![k.thread] = row]
                    /\ clicks' = [clicks EXCEPT
                         ![c].at = IF comes THEN "done" ELSE "failed",
                         ![c].want = IF k.want = "restored" THEN row.status ELSE @]
               /\ behind' = IF does /\ k.do = "aside" THEN behind \cup {k.thread}
                            ELSE behind
               /\ raced' = IF does /\ ~comes THEN raced \cup {k.thread} ELSE raced
     /\ UNCHANGED <<list, override, lists, lastClick, changes, crossed>>

\* A later click leaves the earlier one's failure alone.
AlwaysTakesBack(c) == TRUE
TakesBack(c) == lastClick[clicks[c].thread] = c

AnswerClick(c) ==
  LET k == clicks[c]
      back == k.at = "failed" /\ k.do = "star" /\ TakesBack(c)
      archived == k.at = "done" /\ k.do = "archive"
  IN /\ k.at \in {"done", "failed"}
     /\ list' = IF back THEN [list EXCEPT ![k.thread].star = k.prev]
                ELSE IF archived THEN [list EXCEPT ![k.thread].status = k.want]
                ELSE list
     /\ lastClick' = IF lastClick[k.thread] = c
                     THEN [lastClick EXCEPT ![k.thread] = None] ELSE lastClick
     /\ clicks' = [clicks EXCEPT ![c] = NoClick]
     /\ Cross(k.thread)
     /\ UNCHANGED <<stored, override, changes, faults, behind, raced, crossed>>

----------------------------------------------------------------------------
(* What others do: the event that tells of it carries neither status nor star. *)

OthersSet(t) ==
  /\ changes < MaxChanges
  /\ changes' = changes + 1
  /\ \E row \in Row \ {stored[t]} : stored' = [stored EXCEPT ![t] = row]
  /\ behind' = behind \cup {t}
  /\ raced' = IF Busy(t) # {} THEN raced \cup {t} ELSE raced
  /\ Cross(t)
  /\ UNCHANGED <<list, override, clicks, lastClick, faults, crossed>>

Next ==
  \/ \E l \in Lists : AskList(l) \/ ServeList(l) \/ AnswerList(l) \/ LoseList(l)
  \/ \E c \in Clicks : ServeClick(c) \/ AnswerClick(c)
  \/ \E c \in Clicks, t \in Threads :
       \/ ToggleStar(c, t) \/ ToggleArchive(c, t)
       \/ \E status \in {"open", "done"} : SetStatus(c, t, status)
       \/ \E status \in {"open", "snoozed"} : SetAside(c, t, status)
  \/ \E t \in Threads : OthersSet(t)

Spec == Init /\ [][Next]_vars

----------------------------------------------------------------------------
(* Properties. *)

\* When nothing is under way for a thread its row is as the server has it, unless
\* requests overlapped, something crossed the list on its way, an answer was lost, or
\* since the last list others changed it or it was assigned or put off, of which the page
\* is not told (InboxPage.tsx:1775, 2245-2311, 2906; threads.service.ts:1783).
RowsAgree ==
  \A t \in Threads \ (raced \cup crossed \cup behind \cup UnderWay) :
    /\ list[t].star = stored[t].star
    /\ override[t] = None => list[t].status = stored[t].status

\* The star shows what the user chose last until that click fails, however many
\* clicks are under way, unless a list came across them (InboxPage.tsx:2263, 2284).
LastChoiceShown ==
  \A t \in Threads \ crossed :
    lastClick[t] # None => list[t].star = clicks[lastClick[t]].want
=============================================================================
