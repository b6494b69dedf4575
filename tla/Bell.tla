-------------------------------- MODULE Bell --------------------------------
(***************************************************************************)
(* The notifications a user sees: the rows of NotificationsService, the      *)
(* socket over which EventsGateway sends new ones to the user's room, and    *)
(* the list that NotificationContext keeps in each tab.  The list is fetched *)
(* when the tab is loaded, or when the user asks; afterwards it follows what *)
(* the socket and the service worker tell.                                  *)
(***************************************************************************)
EXTENDS Naturals

CONSTANTS
  Tabs, Notes,
  Silent,      \* notes stored for the e-mail or push channel only
  Pushed,      \* notes that also reach the browser by web push
  Fetches      \* the fetches of a tab that may be under way

BellAssumption == Silent \subseteq Notes /\ Pushed \subseteq Notes

VARIABLES
  row,       \* the stored notifications
  signed,    \* the browser has tokens
  list,      \* list[t][n]
  socket,    \* socket[t]: "none", "off" while it tries to connect, "on", or "dead"
  expired,   \* tabs whose socket, if it is on or will be, has a token that has expired
  wire,      \* wire[t][n]: events on their way
  pushes,    \* messages of the service worker on their way
  fetch, mark,
  excused    \* excused[t]: notes the tab was not told of, or told of too late

vars == <<row, signed, list, socket, expired, wire, pushes, fetch, mark, excused>>
store == <<row>>
line == <<signed, socket, expired>>

States == {"none", "unread", "read"}
NoFetch == [pc |-> "idle", sees |-> [n \in Notes |-> "none"]]
NoMark == [pc |-> "idle", notes |-> {}]
Empty == [n \in Notes |-> "none"]
Still == [n \in Notes |-> 0]

TypeOK ==
  /\ row \in [Notes -> States]
  /\ signed \in BOOLEAN
  /\ list \in [Tabs -> [Notes -> States]]
  /\ socket \in [Tabs -> {"none", "off", "on", "dead"}]
  /\ expired \subseteq Tabs
  /\ wire \in [Tabs -> [Notes -> 0..2]]
  /\ pushes \subseteq Tabs \X Notes
  /\ fetch \in [Tabs -> [Fetches -> [pc : {"idle", "sent", "answered"}, sees : [Notes -> States]]]]
  /\ mark \in [Tabs -> [pc : {"idle", "sent", "answered"}, notes : SUBSET Notes]]
  /\ excused \in [Tabs -> SUBSET Notes]

Init ==
  /\ row = [n \in Notes |-> "none"]
  /\ signed = FALSE
  /\ list = [t \in Tabs |-> Empty]
  /\ socket = [t \in Tabs |-> "none"]
  /\ expired = {}
  /\ wire = [t \in Tabs |-> Still]
  /\ pushes = {}
  /\ fetch = [t \in Tabs |-> [f \in Fetches |-> NoFetch]]
  /\ mark = [t \in Tabs |-> NoMark]
  /\ excused = [t \in Tabs |-> {}]

Excuse(t, notes) == excused' = [excused EXCEPT ![t] = @ \cup notes]

(***************************************************************************)
(* The connection                                                           *)
(***************************************************************************)
\* The tab is loaded: initAuth connects, and refresh fetches, when there is a token.
Load(t) ==
  /\ list' = [list EXCEPT ![t] = Empty]
  /\ socket' = [socket EXCEPT ![t] = IF signed THEN "off" ELSE "none"]
  /\ expired' = expired \ {t}
  /\ wire' = [wire EXCEPT ![t] = Still]
  /\ pushes' = {p \in pushes : p[1] # t}
  /\ \E f \in Fetches :
       fetch' = [fetch EXCEPT ![t] = [g \in Fetches |->
         IF signed /\ g = f THEN [NoFetch EXCEPT !.pc = "sent"] ELSE NoFetch]]
  /\ mark' = [mark EXCEPT ![t] = NoMark]
  /\ excused' = [excused EXCEPT ![t] =
       IF signed THEN {} ELSE {n \in Notes : row[n] # "none"}]
  /\ UNCHANGED <<row, signed>>

\* login: the socket is connected; the list stays as it was.
SignIn(t) ==
  /\ socket[t] = "none"
  /\ signed' = TRUE
  /\ socket' = [socket EXCEPT ![t] = "off"]
  /\ expired' = expired \ {t}
  /\ Excuse(t, {n \in Notes : row[n] # list[t][n]})
  /\ UNCHANGED <<row, list, wire, pushes, fetch, mark>>

\* clearSession disconnects; other tabs keep their sockets.
SignOut(t) ==
  /\ signed /\ socket[t] # "none"
  /\ signed' = FALSE
  /\ socket' = [socket EXCEPT ![t] = "none"]
  /\ expired' = expired \ {t}
  /\ wire' = [wire EXCEPT ![t] = Still]
  /\ Excuse(t, {n \in Notes : wire[t][n] > 0})
  /\ UNCHANGED <<row, list, pushes, fetch, mark>>

\* handleConnection: the token the socket was made with is verified and the user's room
\* joined; a socket that the server closes does not try again.
Connect(t) ==
  /\ socket[t] = "off"
  /\ socket' = [socket EXCEPT ![t] = IF t \in expired THEN "dead" ELSE "on"]
  /\ expired' = expired \ {t}
  /\ UNCHANGED <<store, signed, list, wire, pushes, fetch, mark, excused>>

\* The connection breaks, with what was on it; after some attempts it is given up.
Drop(t) ==
  /\ socket[t] = "on"
  /\ socket' = [socket EXCEPT ![t] = "off"]
  /\ wire' = [wire EXCEPT ![t] = Still]
  /\ Excuse(t, {n \in Notes : wire[t][n] > 0})
  /\ UNCHANGED <<store, signed, list, expired, pushes, fetch, mark>>

GiveUp(t) ==
  /\ socket[t] = "off"
  /\ socket' = [socket EXCEPT ![t] = "dead"]
  /\ expired' = expired \ {t}
  /\ UNCHANGED <<store, signed, list, wire, pushes, fetch, mark, excused>>

\* The token the socket was made with passes its time: it does for another connection no
\* longer.
Expire(t) ==
  /\ socket[t] \in {"off", "on"}
  /\ expired' = expired \cup {t}
  /\ UNCHANGED <<store, signed, list, socket, wire, pushes, fetch, mark, excused>>

\* refreshAuthTokens, when a request of the tab finds the token expired: connectSocket
\* closes the socket, with what was on it, and makes one with the new token.
Renew(t) ==
  /\ signed /\ socket[t] # "none"
  /\ socket' = [socket EXCEPT ![t] = "off"]
  /\ expired' = expired \ {t}
  /\ wire' = [wire EXCEPT ![t] = Still]
  /\ Excuse(t, {n \in Notes : wire[t][n] > 0})
  /\ UNCHANGED <<store, signed, list, pushes, fetch, mark>>

(***************************************************************************)
(* New notifications                                                        *)
(***************************************************************************)
\* dispatch stores the note and emits it twice, under two names, to the user's room.
Listening(t, n) == n \notin Silent /\ socket[t] = "on"
Dispatch(n) ==
  /\ row[n] = "none"
  /\ row' = [row EXCEPT ![n] = "unread"]
  /\ wire' = [t \in Tabs |-> IF Listening(t, n) THEN [wire[t] EXCEPT ![n] = 2] ELSE wire[t]]
  /\ pushes' = pushes \cup {<<t, n>> : t \in IF n \in Pushed THEN Tabs ELSE {}}
  /\ excused' = [t \in Tabs |-> IF Listening(t, n) \/ n \in Pushed THEN excused[t]
                                ELSE excused[t] \cup {n}]
  /\ UNCHANGED <<line, list, fetch, mark>>

\* The payload says unread, whatever has happened since: a note is put first in the
\* list, in place of the one it may have there.
ListFirst(t, n) ==
  /\ list' = [list EXCEPT ![t][n] = "unread"]
  /\ excused' = [excused EXCEPT ![t] = IF row[n] = "read" THEN @ \cup {n} ELSE @ \ {n}]
  /\ UNCHANGED <<store, line, fetch, mark>>

\* handleIncoming.
HandleIncoming(t, n) ==
  /\ wire[t][n] > 0
  /\ wire' = [wire EXCEPT ![t][n] = @ - 1]
  /\ ListFirst(t, n)
  /\ UNCHANGED pushes

\* handleServiceWorkerMessage.
HandleMessage(t, n) ==
  /\ <<t, n>> \in pushes
  /\ pushes' = pushes \ {<<t, n>>}
  /\ ListFirst(t, n)
  /\ UNCHANGED wire

\* The push service does not deliver.
LosePush(t, n) ==
  /\ <<t, n>> \in pushes
  /\ pushes' = pushes \ {<<t, n>>}
  /\ Excuse(t, {n})
  /\ UNCHANGED <<store, line, list, wire, fetch, mark>>

(***************************************************************************)
(* The list                                                                 *)
(***************************************************************************)
\* refresh, as often as the user asks.
Refresh(t, f) ==
  /\ socket[t] # "none" /\ fetch[t][f] = NoFetch
  /\ IF signed
       THEN fetch' = [fetch EXCEPT ![t][f].pc = "sent"] /\ UNCHANGED <<list, excused>>
       ELSE /\ list' = [list EXCEPT ![t] = Empty]
            /\ Excuse(t, {n \in Notes : row[n] # "none"})
            /\ UNCHANGED fetch
  /\ UNCHANGED <<store, line, wire, pushes, mark>>

\* findAll lists every note, of whatever channel.
FindAll(t, f) ==
  /\ fetch[t][f].pc = "sent"
  /\ fetch' = [fetch EXCEPT ![t][f] = [pc |-> "answered", sees |-> row]]
  /\ UNCHANGED <<store, line, list, wire, pushes, mark, excused>>

\* What came since the answer was made is lost from the list.
Refreshed(t, f) ==
  /\ fetch[t][f].pc = "answered"
  /\ list' = [list EXCEPT ![t] = fetch[t][f].sees]
  /\ fetch' = [fetch EXCEPT ![t][f] = NoFetch]
  /\ excused' = [excused EXCEPT ![t] = {n \in Notes : fetch[t][f].sees[n] # row[n]}]
  /\ UNCHANGED <<store, line, wire, pushes, mark>>

RefreshFails(t, f) ==
  /\ fetch[t][f] # NoFetch
  /\ fetch' = [fetch EXCEPT ![t][f] = NoFetch]
  /\ Excuse(t, {n \in Notes : row[n] # list[t][n]})
  /\ UNCHANGED <<store, line, list, wire, pushes, mark>>

\* markAsRead and markAllAsRead of the context.
Unread(t) == {n \in Notes : list[t][n] = "unread"}
MarkAsRead(t) ==
  /\ mark[t] = NoMark
  /\ \E notes \in {{n} : n \in {m \in Notes : list[t][m] # "none"}}
                  \cup (IF Unread(t) # {} THEN {Notes} ELSE {}) :
       mark' = [mark EXCEPT ![t] = [pc |-> "sent", notes |-> notes]]
  /\ UNCHANGED <<store, line, list, wire, pushes, fetch, excused>>

\* markRead and markAllRead of the service; other tabs are not told.
Stored(n) == row[n] # "none"
MarkRead(t) ==
  LET read == {n \in mark[t].notes : Stored(n)}
  IN  /\ mark[t].pc = "sent"
      /\ row' = [n \in Notes |-> IF n \in read THEN "read" ELSE row[n]]
      /\ mark' = [mark EXCEPT ![t].pc = "answered"]
      /\ excused' = [u \in Tabs |-> IF u = t THEN excused[u]
                                    ELSE excused[u] \cup {n \in read : row[n] = "unread"}]
      /\ UNCHANGED <<line, list, wire, pushes, fetch>>

\* Marked here are the notes that are listed now, also those that came meanwhile.
Marked(t) ==
  LET now == [n \in Notes |-> IF n \in mark[t].notes /\ list[t][n] # "none" THEN "read"
                              ELSE list[t][n]]
  IN  /\ mark[t].pc = "answered"
      /\ list' = [list EXCEPT ![t] = now]
      /\ mark' = [mark EXCEPT ![t] = NoMark]
      /\ excused' = [excused EXCEPT ![t] =
           (@ \ {n \in mark[t].notes : now[n] = row[n]})
           \cup {n \in mark[t].notes : list[t][n] = "unread" /\ row[n] = "unread"}]
      /\ UNCHANGED <<store, line, wire, pushes, fetch>>

\* The request or its answer is lost.
MarkFails(t) ==
  /\ mark[t] # NoMark
  /\ mark' = [mark EXCEPT ![t] = NoMark]
  /\ Excuse(t, IF mark[t].pc = "answered" THEN mark[t].notes ELSE {})
  /\ UNCHANGED <<store, line, list, wire, pushes, fetch>>

Next ==
  \/ \E n \in Notes : Dispatch(n)
  \/ \E t \in Tabs :
       \/ Load(t) \/ SignIn(t) \/ SignOut(t) \/ Connect(t) \/ Drop(t) \/ GiveUp(t)
       \/ Expire(t) \/ Renew(t) \/ MarkAsRead(t) \/ MarkRead(t) \/ Marked(t) \/ MarkFails(t)
       \/ \E n \in Notes : HandleIncoming(t, n) \/ HandleMessage(t, n) \/ LosePush(t, n)
       \/ \E f \in Fetches :
            Refresh(t, f) \/ FindAll(t, f) \/ Refreshed(t, f) \/ RefreshFails(t, f)

Spec == Init /\ [][Next]_vars

\* A tab with nothing on its way lists what is stored, with what is read and what is not:
\* it can only be wrong about a note it could not be told of (not connected at the time, or
\* of a silent channel), told of after it was read, marked in another tab or by an answer that was
\* lost, or overtaken by an answer made before (NotificationContext, EventsGateway).
BellIsTrue ==
  \A t \in Tabs :
    /\ \A f \in Fetches : fetch[t][f] = NoFetch
    /\ mark[t] = NoMark /\ socket[t] # "none"
    => \A n \in Notes \ excused[t] :
         wire[t][n] = 0 /\ <<t, n>> \notin pushes => list[t][n] = row[n]
=============================================================================
