---------------------------- MODULE CalendarSync ----------------------------
(***************************************************************************)
(* One user's events and the calendar of a provider: runs that pull the      *)
(* provider's events into rows and cancel the rows of events that are gone   *)
(* (syncGoogle, syncMicrosoft, syncCalDav), and requests that create, edit   *)
(* and remove events here and pass the change on (calendar.service.ts).      *)
(***************************************************************************)
EXTENDS Naturals, FiniteSets

CONSTANTS
  Rows,      \* ids of event rows
  Objects,   \* ids of the provider's events; over CalDAV a pushed row is its own id
  Syncs,     \* runs under way at the same time
  Provider,  \* "google", "microsoft" or "caldav"
  Forms,     \* how its events may be written: "plain", "cancelled", or "garbled"
             \* so that a run can make nothing of them
  MaxStamp,  \* bound: times an object is written
  None

CalendarAssumption ==
  /\ MaxStamp \in Nat \ {0}
  /\ Provider \in {"google", "microsoft", "caldav"}
  /\ "plain" \in Forms /\ Forms \subseteq {"plain", "cancelled", "garbled"}
  /\ Provider = "caldav" => Rows \subseteq Objects
  /\ None \notin Rows \cup Objects /\ Syncs \cap Rows = {}

VARIABLES
  rows,      \* the event rows
  objects,   \* the provider's events: stamp 0 is one that never was
  shown,     \* objects in the window and on the page the provider answers with
  sync,      \* the runs
  push,      \* what a request still has to do after writing its row
  made,      \* history: made[o] is the row that object o was made for
  raced,     \* history: objects that a run took in before their row had noted the id,
             \* or whose id was lost
  late       \* history: objects that came into sight since a run's fetch

vars == <<rows, objects, shown, sync, push, made, raced, late>>

NoRow == [at |-> "absent", ext |-> None, seen |-> 0]
NoSync == [at |-> "idle", got |-> [o \in Objects |-> 0], off |-> {}, todo |-> {},
           item |-> None, found |-> None]
NoPush == [at |-> "idle", ext |-> None, stamp |-> 0]

TypeOK ==
  /\ rows \in [Rows -> [at : {"absent", "live", "cancelled"},
                        ext : Objects \cup {None}, seen : 0..MaxStamp]]
  /\ objects \in [Objects -> [there : BOOLEAN, stamp : 0..MaxStamp, form : Forms]]
  /\ shown \subseteq Objects /\ raced \subseteq Objects
  /\ made \in [Objects -> Rows \cup {None}]
  /\ late \in [Syncs -> SUBSET Objects]
  /\ sync \in [Syncs -> [at : {"idle", "items", "write", "push"},
                         got : [Objects -> 0..MaxStamp], off : SUBSET Objects,
                         todo : SUBSET (Objects \cup Rows),
                         item : Objects \cup {None}, found : Rows \cup {None}]]
  /\ push \in [Rows -> [at : {"idle", "call", "link", "remove"},
                        ext : Objects \cup {None}, stamp : 0..MaxStamp]]

Init ==
  /\ rows = [r \in Rows |-> NoRow]
  /\ objects = [o \in Objects |-> [there |-> FALSE, stamp |-> 0, form |-> "plain"]]
  /\ shown = Objects
  /\ sync = [s \in Syncs |-> NoSync]
  /\ push = [r \in Rows |-> NoPush]
  /\ made = [o \in Objects |-> None] /\ raced = {}
  /\ late = [s \in Syncs |-> {}]

\* The objects a run can make an event of, and those whose id it notes: over CalDAV it
\* gets the id from the event itself.
Visible == {o \in shown : objects[o].there}
Legible == {o \in Visible : objects[o].form # "garbled"}
Noted == IF Provider = "caldav" THEN Legible ELSE Visible

\* Objects that would be noted now and would not before.
Appear ==
  late' = [s \in Syncs |-> IF sync[s].at \in {"items", "write"}
                           THEN late[s] \cup (Noted' \ Noted) ELSE {}]

\* A row id nobody is about to use.
Free(r) ==
  /\ rows[r].at = "absent" /\ push[r].at = "idle"
  /\ \A s \in Syncs : sync[s].found # r /\ (sync[s].at = "push" => r \notin sync[s].todo)

RowsOf(o) == {r \in Rows : rows[r].at # "absent" /\ rows[r].ext = o}

\* The pushes that have made an object and have yet to note its id.
InHand(o) == {r \in Rows : push[r].at = "link" /\ push[r].ext = o}

----------------------------------------------------------------------------
(* A run. *)

\* The row an event is written to; a cancelled one is found as well.
Existing(o) == IF RowsOf(o) = {} THEN {None} ELSE RowsOf(o)

\* One request for the events of the window, and no further page.
Fetch(s) ==
  /\ sync[s].at = "idle"
  /\ sync' = [sync EXCEPT ![s] =
       [NoSync EXCEPT !.at = "items", !.todo = Legible,
                      !.got = [o \in Objects |-> IF o \in Noted
                                                 THEN objects[o].stamp ELSE 0],
                      !.off = {o \in Legible : objects[o].form = "cancelled"}]]
  /\ late' = [late EXCEPT ![s] = {}]
  /\ UNCHANGED <<rows, objects, shown, push, made, raced>>

\* The next event of the answer; its id is noted only if the row is written.
LookUnnoted(s) ==
  \E o \in sync[s].todo :
    /\ sync[s].at = "items"
    /\ \E r \in Existing(o) :
         IF r # None /\ rows[r].seen >= sync[s].got[o]
         THEN sync' = [sync EXCEPT ![s].todo = @ \ {o}, ![s].got[o] = 0]
         ELSE sync' = [sync EXCEPT ![s].at = "write", ![s].item = o, ![s].found = r]
    /\ UNCHANGED <<rows, objects, shown, push, made, raced, late>>

\* The next event of the answer: its row is up to date, or will be written.
Look(s) ==
  \E o \in sync[s].todo :
    /\ sync[s].at = "items"
    /\ \E r \in Existing(o) :
         IF r # None /\ rows[r].seen >= sync[s].got[o]
         THEN sync' = [sync EXCEPT ![s] = [sync[s] EXCEPT !.todo = @ \ {o}]]
         ELSE sync' = [sync EXCEPT ![s] =
                [@ EXCEPT !.at = "write", !.item = o, !.found = r]]
    /\ UNCHANGED <<rows, objects, shown, push, made, raced, late>>

\* The row takes over what the provider says, its status too. A second row for an event
\* is refused by the database, and a row that is gone is not found: the run ends.
Status(s) == IF sync[s].item \in sync[s].off THEN "cancelled" ELSE "live"

Store(s) ==
  LET o == sync[s].item
      row == [at |-> Status(s), ext |-> o, seen |-> sync[s].got[o]]
      next == [sync[s] EXCEPT !.at = "items", !.todo = sync[s].todo \ {o},
                              !.item = None, !.found = None]
  IN /\ sync[s].at = "write"
     /\ IF sync[s].found = None
        THEN IF RowsOf(o) = {}
             THEN \E r \in Rows :
                    /\ Free(r)
                    /\ rows' = [rows EXCEPT ![r] = row]
                    /\ raced' = IF InHand(o) # {} THEN raced \cup {o} ELSE raced
                    /\ sync' = [sync EXCEPT ![s] = next]
             ELSE sync' = [sync EXCEPT ![s] = NoSync] /\ UNCHANGED <<rows, raced>>
        ELSE /\ UNCHANGED raced
             /\ IF rows[sync[s].found].at = "absent"
                THEN rows' = rows /\ sync' = [sync EXCEPT ![s] = NoSync]
                ELSE /\ rows' = [rows EXCEPT ![sync[s].found] =
                          [@ EXCEPT !.at = Status(s), !.seen = sync[s].got[o]]]
                     /\ sync' = [sync EXCEPT ![s] = next]
     /\ UNCHANGED <<objects, shown, push, made, late>>

\* softDeleteAbsent: an empty answer cancels nothing, except over CalDAV.
Absent(s) ==
  {r \in Rows : rows[r].at = "live" /\ rows[r].ext # None
                  /\ sync[s].got[rows[r].ext] = 0}

Cancelling(s) ==
  \/ Provider = "caldav"
  \/ \E o \in Objects : sync[s].got[o] # 0

Unsynced == {r \in Rows : rows[r].at = "live" /\ rows[r].ext = None}

CancelAbsent(s) ==
  /\ sync[s].at = "items" /\ sync[s].todo = {}
  /\ rows' = [r \in Rows |-> IF r \in Absent(s) /\ Cancelling(s)
                             THEN [rows[r] EXCEPT !.at = "cancelled"] ELSE rows[r]]
  /\ sync' = [sync EXCEPT ![s] =
       IF Provider = "caldav" /\ Unsynced # {}
       THEN [NoSync EXCEPT !.at = "push", !.todo = Unsynced] ELSE NoSync]
  /\ UNCHANGED <<objects, shown, push, made, raced, late>>

\* Over CalDAV a run ends by passing on the events no push has reached. It fails if the
\* answer is lost, if another row has taken the event in, or if the row was removed
\* meanwhile: after its event was created.
PushUnsynced(s) ==
  \E r \in sync[s].todo :
    LET todo == sync[s].todo \ {r}
        gone == rows[r].at = "absent"
        new == IF objects[r].there THEN objects[r]
               ELSE [there |-> TRUE, stamp |-> objects[r].stamp + 1, form |-> "plain"]
    IN /\ sync[s].at = "push" /\ new.stamp <= MaxStamp
       /\ objects' = [objects EXCEPT ![r] = new]
       /\ made' = IF gone THEN made ELSE [made EXCEPT ![r] = r]
       /\ \/ /\ ~gone /\ RowsOf(r) \subseteq {r}
             /\ rows' = [rows EXCEPT ![r] = [@ EXCEPT !.ext = r, !.seen = new.stamp]]
             /\ sync' = [sync EXCEPT ![s] = IF todo = {} THEN NoSync
                                            ELSE [sync[s] EXCEPT !.todo = todo]]
             /\ UNCHANGED raced
          \/ /\ sync' = [sync EXCEPT ![s] = NoSync]
             /\ raced' = IF gone THEN raced ELSE raced \cup {r}
             /\ UNCHANGED rows
       /\ UNCHANGED <<shown, push>>
       /\ Appear

SyncFails(s) ==
  /\ sync[s].at # "idle"
  /\ sync' = [sync EXCEPT ![s] = NoSync]
  /\ UNCHANGED <<rows, objects, shown, push, made, raced, late>>

----------------------------------------------------------------------------
(* Requests. Bound: one request per event at a time. *)

Pushed == IF Provider = "microsoft" THEN NoPush ELSE [NoPush EXCEPT !.at = "call"]

Create(r) ==
  /\ Free(r)
  /\ Provider = "caldav" => objects[r].stamp = 0
  /\ rows' = [rows EXCEPT ![r] = [NoRow EXCEPT !.at = "live"]]
  /\ push' = [push EXCEPT ![r] = Pushed]
  /\ UNCHANGED <<objects, shown, sync, made, raced, late>>

\* An edit may also cancel the event or take it up again.
Edit(r) ==
  /\ rows[r].at # "absent" /\ push[r].at = "idle"
  /\ \E at \in {"live", "cancelled"} : rows' = [rows EXCEPT ![r] = [@ EXCEPT !.at = at]]
  /\ push' = [push EXCEPT ![r] = Pushed]
  /\ UNCHANGED <<objects, shown, sync, made, raced, late>>

\* syncEventTo...IfConnected reads the row; then the provider writes the event: the one
\* the row names, a new one, or over CalDAV the one with the row's id. Its answer may
\* be lost.
Target(r) ==
  IF rows[r].ext # None THEN {rows[r].ext}
  ELSE IF Provider = "caldav" THEN {r} ELSE {o \in Objects : objects[o].stamp = 0}

Call(r) ==
  /\ push[r].at = "call"
  /\ IF rows[r].at = "live"
     THEN \E o \in Target(r) :
            /\ objects[o].stamp < MaxStamp
            /\ IF Provider = "caldav" THEN objects[o].there => o \in Legible
               ELSE objects[o].there \/ rows[r].ext = None
            /\ objects' = [objects EXCEPT ![o] =
                 [there |-> TRUE, stamp |-> @.stamp + 1, form |-> "plain"]]
            /\ made' = IF rows[r].ext = None THEN [made EXCEPT ![o] = r] ELSE made
            /\ \/ /\ push' = [push EXCEPT ![r] =
                       [at |-> "link", ext |-> o, stamp |-> objects[o].stamp + 1]]
                  /\ UNCHANGED raced
               \/ /\ push' = [push EXCEPT ![r] = NoPush]
                  /\ raced' = IF rows[r].ext = None THEN raced \cup {o} ELSE raced
     ELSE push' = [push EXCEPT ![r] = NoPush] /\ UNCHANGED <<objects, made, raced>>
  /\ UNCHANGED <<rows, shown, sync>>
  /\ Appear

\* The provider refuses.
CallFails(r) ==
  /\ push[r].at = "call"
  /\ push' = [push EXCEPT ![r] = NoPush]
  /\ UNCHANGED <<rows, objects, shown, sync, made, raced, late>>

\* Mutant: the row is not told the id.
LinkRowNot(r) ==
  /\ push[r].at = "link"
  /\ push' = [push EXCEPT ![r] = NoPush]
  /\ UNCHANGED <<rows, objects, shown, sync, made, raced, late>>

\* The row is told what the provider answered, unless another row has the event: the
\* database refuses the second.
LinkRow(r) ==
  LET o == push[r].ext
  IN /\ push[r].at = "link"
     /\ rows' = IF RowsOf(o) \subseteq {r}
                THEN [rows EXCEPT ![r] = [@ EXCEPT !.ext = o, !.seen = push[r].stamp]]
                ELSE rows
     /\ push' = [push EXCEPT ![r] = NoPush]
     /\ UNCHANGED <<objects, shown, sync, made, raced, late>>

\* remove: the provider's event first, as the row names it, then the row.
RemoveObject(r) ==
  /\ rows[r].at # "absent" /\ push[r].at = "idle"
  /\ push' = [push EXCEPT ![r] = [NoPush EXCEPT !.at = "remove"]]
  /\ \/ rows[r].ext # None /\ Provider # "microsoft"
        /\ objects' = [objects EXCEPT ![rows[r].ext] = [@ EXCEPT !.there = FALSE]]
     \/ UNCHANGED objects
  /\ UNCHANGED <<rows, shown, sync, made, raced, late>>

RemoveRow(r) ==
  /\ push[r].at = "remove"
  /\ rows' = [rows EXCEPT ![r] = NoRow]
  /\ push' = [push EXCEPT ![r] = NoPush]
  /\ made' = [o \in Objects |-> IF made[o] = r THEN None ELSE made[o]]
  /\ UNCHANGED <<objects, shown, sync, raced, late>>

----------------------------------------------------------------------------
(* What happens at the provider. *)

Write(o) ==
  /\ objects[o].stamp < MaxStamp
  /\ objects[o].there \/ (objects[o].stamp = 0 /\ o \notin Rows)
  /\ \E form \in Forms :
       objects' = [objects EXCEPT ![o] =
         [there |-> TRUE, stamp |-> @.stamp + 1, form |-> form]]
  /\ UNCHANGED <<rows, shown, sync, push, made, raced>>
  /\ Appear

Delete(o) ==
  /\ objects[o].there
  /\ objects' = [objects EXCEPT ![o] = [@ EXCEPT !.there = FALSE]]
  /\ UNCHANGED <<rows, shown, sync, push, made, raced, late>>

\* An event leaves the window or the page as time passes and others come and go.
Turn(o) ==
  /\ shown' = IF o \in shown THEN shown \ {o} ELSE shown \cup {o}
  /\ UNCHANGED <<rows, objects, sync, push, made, raced>>
  /\ Appear

Next ==
  \/ \E s \in Syncs : \/ Fetch(s) \/ Look(s) \/ Store(s) \/ CancelAbsent(s)
                      \/ PushUnsynced(s) \/ SyncFails(s)
  \/ \E r \in Rows : \/ Create(r) \/ Edit(r) \/ Call(r) \/ CallFails(r)
                     \/ LinkRow(r) \/ RemoveObject(r) \/ RemoveRow(r)
  \/ \E o \in Objects : Write(o) \/ Delete(o) \/ Turn(o)

Spec == Init /\ [][Next]_vars

----------------------------------------------------------------------------
(* Properties. *)

\* An event is shown once: the rows that name it and the row it was made for are one,
\* unless a run took it in before the push that made it had noted its id, or the answer
\* to that push was lost (calendar-sync.service.ts:489, 597, 784). That two rows never
\* name it is the database's doing.
ShownBy(o) == RowsOf(o) \cup {r \in Rows : made[o] = r}
OneRowPerEvent ==
  \A o \in Objects \ raced : Cardinality(ShownBy(o)) <= 1

\* A run cancels no row whose event is there to be noted, unless the event came into
\* sight after the run had fetched: pushed by a request, or made or moved at the
\* provider. Over CalDAV one that cannot be parsed is not noted, and its row is
\* cancelled as if it were gone (calendar-sync.service.ts:380, 392, 1487).
CancelsAbsent ==
  \A r \in Rows : rows[r].at = "live" /\ rows'[r].at = "cancelled" =>
    \A s \in Syncs : sync[s].at = "items" /\ sync[s] # sync'[s]
      => rows[r].ext \notin Noted \ late[s]
CancelsOnlyAbsent == [][CancelsAbsent]_vars

----------------------------------------------------------------------------
(* What they rest on. *)

\* Nobody holds an event that was never written.
BornObject(o) == objects[o].there => objects[o].stamp > 0
BornRow(r) ==
  rows[r].at # "absent" /\ rows[r].ext # None => objects[rows[r].ext].stamp > 0
BornPush(r) ==
  push[r].at = "link" => push[r].ext \in Objects /\ objects[push[r].ext].stamp > 0
BornSync(s) ==
  /\ sync[s].at \in {"items", "write"} =>
       sync[s].todo \subseteq Objects /\ \A o \in sync[s].todo : objects[o].stamp > 0
  /\ sync[s].at = "write" => sync[s].item \in sync[s].todo

\* A row that an event was made for has noted its id, or is about to.
OneRow(o) == o \notin raced => \A q, r \in ShownBy(o) : q = r
Kept(o) ==
  /\ made[o] # None => rows[made[o]].at # "absent" /\ objects[o].stamp > 0
  /\ made[o] # None /\ o \notin raced =>
       rows[made[o]].ext = o \/ made[o] \in InHand(o)
Claimed(r) ==
  push[r].at = "link" =>
    push[r].ext \in raced \/ rows[r].ext = push[r].ext \/ made[push[r].ext] = r

\* A request works on a row that is there, and notes the id the row has or none.
LinkFits(r) ==
  /\ push[r].at # "idle" => rows[r].at # "absent"
  /\ push[r].at = "link" =>
       /\ rows[r].ext \in {None, push[r].ext}
       /\ Provider = "caldav" /\ rows[r].ext = None => push[r].ext = r

\* Over CalDAV an event with a row's id is that row's: what was pushed is noted, or will
\* be, or its answer was lost.
Reached(r) ==
  Provider = "caldav" /\ rows[r].at # "absent" /\ rows[r].ext = None
    /\ objects[r].stamp > 0 => r \in raced \/ push[r].at = "link"
Waits(s) ==
  sync[s].at = "push" =>
    /\ Provider = "caldav" /\ sync[s].todo \subseteq Rows
    /\ \A r \in sync[s].todo : rows[r].at = "absent" \/ rows[r].ext \in {None, r}

\* What a run did not get was not to be seen when it asked.
Sees(s) ==
  sync[s].at \in {"items", "write"} =>
    \A o \in Objects : sync[s].got[o] = 0 => o \notin Noted \/ o \in late[s]

CalendarInv ==
  /\ TypeOK
  /\ \A o \in Objects : BornObject(o) /\ OneRow(o) /\ Kept(o)
  /\ \A r \in Rows : BornRow(r) /\ BornPush(r) /\ Claimed(r) /\ LinkFits(r) /\ Reached(r)
  /\ \A s \in Syncs : BornSync(s) /\ Waits(s) /\ Sees(s)
=============================================================================
