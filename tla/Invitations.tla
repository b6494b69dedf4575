---------------------------- MODULE Invitations ----------------------------
(***************************************************************************)
(* Guests of a calendar event: the rows that list them, the invitations      *)
(* mailed to them and their answers, which come in by a request of theirs or  *)
(* by an iCal reply, beside requests that create, change, mail or remove the  *)
(* event, and runs that take its guests over from the connected calendar.    *)
(***************************************************************************)
EXTENDS Naturals

CONSTANTS
  Guests,      \* addresses
  Answers,     \* what a guest may answer
  Requests, Operations,
  Provider,    \* the connected calendar: "none", "google" or "caldav"
  Meet,        \* whether a Google Meet link is asked for
  MaxRows

InvitationsAssumption ==
  /\ Provider \in {"none", "google", "caldav"}
  /\ Meet \in BOOLEAN
  /\ MaxRows \in Nat
  /\ "pending" \notin Answers

VARIABLES
  event,    \* there, its meeting link, and its externalId: the id that replies carry
            \* ("own"), or another
  row,      \* EventAttendee, by id
  request,
  mailed,   \* guests an invitation was mailed to
  answer,   \* what a guest was last told is their answer
  wiped,    \* guests whose row was deleted since they answered
  unlisted, \* guests that a change of the event left out since they were mailed to
  raced     \* guests that two requests were about to list at once

vars == <<event, row, request, mailed, answer, wiped, unlisted, raced>>

Ids == 1..MaxRows
NoRow == [guest |-> "none", status |-> "none"]
Idle == [op |-> "none", pc |-> "idle", todo |-> {}, guest |-> "none", target |-> 0,
         sees |-> {}]

TypeOK ==
  /\ event \in [there : {"none", "here", "gone"}, link : BOOLEAN,
                external : {"none", "own", "other"}]
  /\ row \in [Ids -> {NoRow} \cup [guest : Guests, status : {"pending"} \cup Answers]]
  /\ request \in [Requests ->
       [op : Operations \cup {"none"},
        pc : {"idle", "list", "write", "push", "check", "invite", "extra", "mail",
              "change", "clear", "delete", "answer", "taken", "replace"},
        todo : SUBSET Guests, guest : Guests \cup {"none"} \cup Answers, target : 0..MaxRows,
        sees : SUBSET Guests]]
  /\ {mailed, wiped, unlisted, raced} \subseteq SUBSET Guests
  /\ answer \in [Guests -> {"none"} \cup Answers]

Init ==
  /\ event = [there |-> "none", link |-> FALSE, external |-> "none"]
  /\ row = [i \in Ids |-> NoRow]
  /\ request = [r \in Requests |-> Idle]
  /\ mailed = {} /\ wiped = {} /\ unlisted = {} /\ raced = {}
  /\ answer = [g \in Guests |-> "none"]

(***************************************************************************)
(* Rows and requests                                                        *)
(***************************************************************************)
Here == event.there = "here"
RowsOf(g) == {i \in Ids : row[i].guest = g}
Listed == {g \in Guests : RowsOf(g) # {}}

\* The id of a new row is that of no other, nor one a request has read.
Fresh(i) ==
  LET free == {j \in Ids : row[j] = NoRow /\ \A r \in Requests : request[r].target # j}
  IN  i \in free /\ \A j \in free : i <= j

\* Requests that have not seen g listed and are about to list it.
AboutToList(g) == {r \in Requests : \/ request[r].pc = "write" /\ request[r].guest = g
                                    \/ /\ request[r].pc \in {"extra", "replace"}
                                       /\ g \in request[r].todo
                                    \/ /\ request[r].pc = "answer" /\ request[r].target = 0
                                       /\ request[r].guest = g}

Insert(r, g, status) ==
  /\ \E i \in Ids : Fresh(i) /\ row' = [row EXCEPT ![i] = [guest |-> g, status |-> status]]
  /\ raced' = IF AboutToList(g) \ {r} # {} THEN raced \cup {g} ELSE raced
  /\ unlisted' = unlisted \ {g}

At(r, pc) == request[r].pc = pc
Become(r, fields) == request' = [request EXCEPT ![r] = fields]
Over(r) == Become(r, Idle)

Start(r, op) == At(r, "idle") /\ op \in Operations
Table == <<row, raced, unlisted>>
History == <<mailed, answer, wiped>>

\* A row that is not there, or whose event is not, fails the request.
Fails(r) == Over(r) /\ UNCHANGED <<event, Table, History>>

(***************************************************************************)
(* create and update                                                        *)
(***************************************************************************)
Create(r) ==
  /\ Start(r, "create") /\ event.there = "none"
  /\ event' = [event EXCEPT !.there = "here"]
  /\ \E guests \in SUBSET Guests :
       Become(r, [Idle EXCEPT !.op = "create", !.pc = "list", !.todo = guests])
  /\ UNCHANGED <<Table, History>>

\* update reads the event, and writes it; with guests given it lists them anew.
Update(r) ==
  /\ Start(r, "update") /\ Here
  /\ Become(r, [Idle EXCEPT !.op = "update", !.pc = "change"])
  /\ UNCHANGED <<event, Table, History>>

Change(r) ==
  /\ At(r, "change") /\ Here
  /\ \/ \E guests \in SUBSET Guests :
          Become(r, [request[r] EXCEPT !.pc = "clear", !.todo = guests])
     \/ Become(r, [request[r] EXCEPT !.pc = "push"])
  /\ UNCHANGED <<event, Table, History>>

Wipe == wiped' = wiped \cup Listed

Clear(r, pc) ==
  /\ row' = [i \in Ids |-> NoRow]
  /\ Wipe
  /\ unlisted' = unlisted \cup (Guests \ request[r].todo)
  /\ Become(r, [request[r] EXCEPT !.pc = pc])
  /\ UNCHANGED <<event, raced, mailed, answer>>

ClearGuests(r) == At(r, "clear") /\ Clear(r, "list")

\* upsertAttendees looks for each guest, and lists those it did not find.
UpsertLook(r, g) ==
  /\ At(r, "list") /\ g \in request[r].todo
  /\ Become(r, IF g \in Listed THEN [request[r] EXCEPT !.todo = @ \ {g}]
               ELSE [request[r] EXCEPT !.todo = @ \ {g}, !.pc = "write", !.guest = g])
  /\ UNCHANGED <<event, Table, History>>

UpsertWrite(r) ==
  /\ At(r, "write") /\ Here
  /\ Insert(r, request[r].guest, "pending")
  /\ Become(r, [request[r] EXCEPT !.pc = "list", !.guest = "none"])
  /\ UNCHANGED <<event, History>>

\* The connected calendar gets the event; its failure fails nothing.
Push(r) ==
  /\ At(r, "push") \/ (At(r, "list") /\ request[r].todo = {})
  /\ Become(r, [request[r] EXCEPT !.pc = "check"])
  /\ \/ UNCHANGED event
     \/ /\ Here /\ Provider # "none"
        /\ event' = [event EXCEPT !.external = IF Provider = "caldav" THEN "own" ELSE "other",
                                  !.link = @ \/ (Meet /\ Provider = "google")]
  /\ UNCHANGED <<Table, History>>

\* A link asked for and not given fails the request, and leaves the event; an event made
\* with guests is mailed to them.
Check(r) ==
  /\ At(r, "check")
  /\ IF request[r].op = "create" /\ Here /\ Listed # {} /\ (Meet => event.link)
       THEN Become(r, [request[r] EXCEPT !.pc = "invite"])
       ELSE Over(r)
  /\ UNCHANGED <<event, Table, History>>

(***************************************************************************)
(* sendInvite                                                               *)
(***************************************************************************)
Invite(r) ==
  /\ Start(r, "invite") /\ Here
  /\ \E extra \in SUBSET Guests :
       Become(r, [Idle EXCEPT !.op = "invite", !.pc = "invite", !.todo = extra])
  /\ UNCHANGED <<event, Table, History>>

\* Who is listed is read once; the others are listed without another look.
InviteRead(r) ==
  /\ At(r, "invite") /\ Here
  /\ Become(r, [request[r] EXCEPT !.pc = "extra", !.sees = Listed \cup request[r].todo,
                                  !.todo = @ \ Listed])
  /\ UNCHANGED <<event, Table, History>>

InviteExtra(r, g) ==
  /\ At(r, "extra") /\ g \in request[r].todo /\ Here
  /\ Insert(r, g, "pending")
  /\ Become(r, [request[r] EXCEPT !.todo = @ \ {g}])
  /\ UNCHANGED <<event, History>>

\* Without a guest, a mailbox or a recipient its provider takes, the request fails.
Mail(r) ==
  /\ At(r, "extra") /\ request[r].todo = {}
  /\ \E taken \in SUBSET request[r].sees : mailed' = mailed \cup taken
  /\ Over(r)
  /\ UNCHANGED <<event, Table, answer, wiped>>

(***************************************************************************)
(* remove                                                                   *)
(***************************************************************************)
Remove(r) ==
  /\ Start(r, "remove") /\ Here
  /\ Become(r, [Idle EXCEPT !.op = "remove", !.pc = "clear"])
  /\ UNCHANGED <<event, Table, History>>

RemoveRows(r) == request[r].op = "remove" /\ ClearGuests(r)

\* A guest listed since keeps the event.
RemoveEvent(r) ==
  /\ At(r, "list") /\ request[r].op = "remove"
  /\ event' = IF Here /\ Listed = {} THEN [event EXCEPT !.there = "gone"] ELSE event
  /\ Over(r)
  /\ UNCHANGED <<Table, History>>

(***************************************************************************)
(* upsertRemoteCalDavEvent and replaceRemoteAttendees, of a run over CalDAV  *)
(***************************************************************************)
\* The calendar has a newer event, with guests of its own: its row is written, or made.
\* Bound: it names a guest once.
Take(r) ==
  /\ Start(r, "sync") /\ Provider = "caldav"
  /\ \/ event.there = "none" /\ event' = [event EXCEPT !.there = "here", !.external = "own"]
     \/ Here /\ event.external = "own" /\ UNCHANGED event
  /\ \E guests \in SUBSET Guests :
       Become(r, [Idle EXCEPT !.op = "sync", !.pc = "taken", !.todo = guests])
  /\ UNCHANGED <<Table, History>>

ReplaceClear(r) == At(r, "taken") /\ Clear(r, "replace")

\* They are listed without another look, with the answer the calendar has.
ReplaceWrite(r, g) ==
  /\ At(r, "replace") /\ g \in request[r].todo /\ Here
  /\ \E status \in {"pending"} \cup Answers : Insert(r, g, status)
  /\ Become(r, [request[r] EXCEPT !.todo = @ \ {g}])
  /\ UNCHANGED <<event, History>>

Replaced(r) ==
  /\ At(r, "replace") /\ request[r].todo = {}
  /\ Over(r)
  /\ UNCHANGED <<event, Table, History>>

(***************************************************************************)
(* rsvp and ingestRsvp                                                      *)
(***************************************************************************)
\* A guest's answer goes to some row of theirs, or makes one.
Rsvp(r, g) ==
  /\ Start(r, "rsvp") /\ Here
  /\ \E i \in IF g \in Listed THEN RowsOf(g) ELSE {0} :
       Become(r, [Idle EXCEPT !.op = "rsvp", !.pc = "answer", !.guest = g, !.target = i])
  /\ UNCHANGED <<event, Table, History>>

\* A reply names the event by the id of the invitation, and is looked up by externalId.
IngestRsvp(r, g) ==
  /\ Start(r, "ingest") /\ Here /\ event.external = "own"
  /\ \E i \in RowsOf(g) :
       Become(r, [Idle EXCEPT !.op = "ingest", !.pc = "answer", !.guest = g, !.target = i])
  /\ UNCHANGED <<event, Table, History>>

Told(g, status) ==
  /\ answer' = [answer EXCEPT ![g] = status]
  /\ wiped' = wiped \ {g}

Answer(r, status) ==
  LET i == request[r].target g == request[r].guest
  IN  /\ At(r, "answer")
      /\ IF i = 0 THEN Here /\ Insert(r, g, status)
         ELSE /\ row[i] # NoRow
              /\ row' = [row EXCEPT ![i].status = status]
              /\ UNCHANGED <<raced, unlisted>>
      /\ Told(g, status)
      /\ Over(r)
      /\ UNCHANGED <<event, mailed>>

\* The row or the event was deleted since it was read.
Missed(r) ==
  /\ \/ ~Here /\ \/ At(r, "change") \/ At(r, "write") \/ At(r, "invite")
                 \/ (At(r, "extra") \/ At(r, "replace")) /\ request[r].todo # {}
     \/ At(r, "answer") /\ IF request[r].target = 0 THEN ~Here
                           ELSE row[request[r].target] = NoRow
  /\ Fails(r)

Next ==
  \E r \in Requests :
    \/ Create(r) \/ Update(r) \/ Change(r) \/ UpsertWrite(r) \/ Check(r)
    \/ request[r].op # "remove" /\ (ClearGuests(r) \/ Push(r))
    \/ Invite(r) \/ InviteRead(r) \/ Mail(r)
    \/ Remove(r) \/ RemoveRows(r) \/ RemoveEvent(r) \/ Missed(r)
    \/ Take(r) \/ ReplaceClear(r) \/ Replaced(r)
    \/ \E g \in Guests : \/ UpsertLook(r, g) \/ InviteExtra(r, g) \/ ReplaceWrite(r, g)
                         \/ Rsvp(r, g) \/ IngestRsvp(r, g)
    \/ \E status \in Answers : Answer(r, status)

Spec == Init /\ [][Next]_vars

\* What a guest was told is their answer is stored in a row of theirs, unless their row was
\* deleted since (rsvp, ingestRsvp; update, remove and a run over CalDAV that takes the
\* event over delete every row).
AnswerKept ==
  \A g \in Guests : answer[g] # "none" /\ g \notin wiped =>
    \E i \in RowsOf(g) : row[i].status = answer[g]

\* A guest that an invitation was mailed to is listed, unless a change of the event that
\* is under way, or was made since, here or in the calendar it is taken over from, does
\* not list it (sendInvite, update, replaceRemoteAttendees).
MailedAreListed ==
  Here => \A g \in mailed \ unlisted :
    \/ g \in Listed
    \/ \E r \in Requests : \/ request[r].op = "update" /\ ~At(r, "change")
                           \/ request[r].op = "sync" /\ ~At(r, "taken")

\* A guest is listed once, unless two requests were about to list it at the same time
\* (upsertAttendees, sendInvite, rsvp, replaceRemoteAttendees).
ListedOnce ==
  \A g \in Guests \ raced : \A i, j \in RowsOf(g) : i = j

\* An event that is gone has no guests.
GoneHasNoGuests == ~Here => Listed = {}
=============================================================================
