----------------------------- MODULE ThreadPane -----------------------------
(***************************************************************************)
(* The open thread on the inbox page (InboxPage.tsx): its messages and notes *)
(* come with one answer, which counts only if it is the last one asked for   *)
(* and of the thread still open; notes also come with the answers to saving  *)
(* them and with socket events.                                              *)
(***************************************************************************)
EXTENDS Naturals, FiniteSets

CONSTANTS
  Threads,
  Deletable,  \* threads the user may delete
  Notes,      \* notes, by any user
  Fetches,    \* requests for the detail of a thread under way at the same time
  MaxFaults,  \* bound: requests that fail and events that get lost
  None

PaneAssumption ==
  /\ None \notin Threads \cup Fetches /\ Deletable \subseteq Threads
  /\ MaxFaults \in Nat

VARIABLES
  route,    \* the thread open, from the address of the page
  pane,     \* the thread whose messages the pane has, and its notes
  latest,   \* the request of the last version, while it is under way
  fetches,
  home,     \* the thread of each note
  stored,   \* notes the server has
  saving,   \* the user's request to save each note
  removing, \* the thread the user is deleting each note from
  unheard,  \* notes whose socket event is on its way
  deletion, \* the user's request to delete a thread
  deleted,  \* threads the server has deleted
  faults,
  \* history
  off       \* the pane missed something since the last answer

vars == <<route, pane, latest, fetches, home, stored, saving, removing, unheard,
          deletion, deleted, faults, off>>

Empty == [thread |-> None, notes |-> {}]
NoFetch == [at |-> "idle", thread |-> None, notes |-> {}]
NoDeletion == [at |-> "idle", thread |-> None]

TypeOK ==
  /\ route \in Threads \cup {None}
  /\ pane \in [thread : Threads \cup {None}, notes : SUBSET Notes]
  /\ latest \in Fetches \cup {None}
  /\ fetches \in [Fetches -> [at : {"idle", "asked", "served", "failed", "gone"},
                              thread : Threads \cup {None}, notes : SUBSET Notes]]
  /\ home \in [Notes -> Threads \cup {None}]
  /\ stored \subseteq Notes /\ unheard \subseteq Notes
  /\ saving \in [Notes -> {"idle", "sent", "stored"}]
  /\ removing \in [Notes -> Threads \cup {"idle", "gone"}]
  /\ deletion \in [at : {"idle", "sent", "done"}, thread : Threads \cup {None}]
  /\ deleted \subseteq Threads
  /\ faults \in 0..MaxFaults /\ off \in BOOLEAN

Init ==
  /\ route = None /\ pane = Empty /\ latest = None
  /\ fetches = [d \in Fetches |-> NoFetch]
  /\ home = [n \in Notes |-> None] /\ stored = {} /\ unheard = {}
  /\ saving = [n \in Notes |-> "idle"] /\ removing = [n \in Notes |-> "idle"]
  /\ deletion = NoDeletion /\ deleted = {}
  /\ faults = 0 /\ off = FALSE

NotesOf(t) == {n \in stored : home[n] = t}

Fault == faults < MaxFaults /\ faults' = faults + 1

----------------------------------------------------------------------------
(* The detail. *)

\* A new version; whatever is under way no longer counts.
Ask(d, t) ==
  /\ fetches[d] = NoFetch
  /\ fetches' = [fetches EXCEPT ![d] = [NoFetch EXCEPT !.at = "asked", !.thread = t]]
  /\ latest' = d

Open(d, t) ==
  /\ route # t
  /\ Ask(d, t)
  /\ route' = t
  /\ UNCHANGED <<pane, home, stored, saving, removing, unheard, deletion, deleted,
                 faults, off>>

\* A timer, a socket event of the thread, the list or a tick of the live refresh.
Refresh(d) ==
  /\ route # None
  /\ Ask(d, route)
  /\ UNCHANGED <<route, pane, home, stored, saving, removing, unheard, deletion,
                 deleted, faults, off>>

\* Back to the list; a version without a request.
Close ==
  /\ route' = None /\ pane' = Empty /\ latest' = None /\ off' = FALSE

Leave ==
  /\ route # None
  /\ Close
  /\ UNCHANGED <<fetches, home, stored, saving, removing, unheard, deletion, deleted,
                 faults>>

ServeFetch(d) ==
  LET t == fetches[d].thread
  IN /\ fetches[d].at = "asked"
     /\ \/ /\ fetches' = IF t \in deleted THEN [fetches EXCEPT ![d].at = "gone"]
                         ELSE [fetches EXCEPT ![d].at = "served", ![d].notes = NotesOf(t)]
           /\ UNCHANGED faults
        \/ Fault /\ fetches' = [fetches EXCEPT ![d].at = "failed"]
     /\ UNCHANGED <<route, pane, latest, home, stored, saving, removing, unheard,
                    deletion, deleted, off>>

\* The version asked for last, and the thread is still open.
AnyVersion(d) == TRUE
CurrentVersion(d) == latest = d /\ route = fetches[d].thread

\* What is not current is dropped; a failure leaves the pane as it was.
AnswerFetch(d) ==
  LET f == fetches[d]
  IN /\ f.at \in {"served", "failed", "gone"}
     /\ fetches' = [fetches EXCEPT ![d] = NoFetch]
     /\ IF ~CurrentVersion(d)
        THEN /\ latest' = IF latest = d THEN None ELSE latest
             /\ UNCHANGED <<route, pane, off>>
        ELSE \/ /\ f.at = "served"
                /\ pane' = [thread |-> f.thread, notes |-> f.notes]
                /\ off' = (f.notes # NotesOf(f.thread))
                /\ latest' = None
                /\ UNCHANGED route
             \/ /\ f.at = "failed"
                /\ latest' = None /\ off' = TRUE
                /\ UNCHANGED <<route, pane>>
             \/ f.at = "gone" /\ Close
     /\ UNCHANGED <<home, stored, saving, removing, unheard, deletion, deleted, faults>>

----------------------------------------------------------------------------
(* Notes. *)

SaveNote(n) ==
  /\ route # None /\ home[n] = None
  /\ home' = [home EXCEPT ![n] = route]
  /\ saving' = [saving EXCEPT ![n] = "sent"]
  /\ UNCHANGED <<route, pane, latest, fetches, stored, removing, unheard, deletion,
                 deleted, faults, off>>

\* Everybody is told of a note, its author too.
ServeNote(n) ==
  /\ saving[n] = "sent"
  /\ \/ /\ home[n] \notin deleted
        /\ stored' = stored \cup {n} /\ unheard' = unheard \cup {n}
        /\ saving' = [saving EXCEPT ![n] = "stored"]
        /\ UNCHANGED <<home, faults>>
     \/ /\ IF home[n] \in deleted THEN UNCHANGED faults ELSE Fault
        /\ saving' = [saving EXCEPT ![n] = "idle"]
        /\ home' = [home EXCEPT ![n] = None]
        /\ UNCHANGED <<stored, unheard>>
  /\ UNCHANGED <<route, pane, latest, fetches, removing, deletion, deleted, off>>

\* A note that is there already is replaced or left.
Add(n) == [pane EXCEPT !.notes = @ \cup {n}]

\* The answer goes into whatever pane there is.
AnswerSave(n) ==
  /\ saving[n] = "stored"
  /\ saving' = [saving EXCEPT ![n] = "idle"]
  /\ pane' = Add(n)
  /\ off' = (off \/ route # home[n] \/ n \notin stored)
  /\ UNCHANGED <<route, latest, fetches, home, stored, removing, unheard, deletion,
                 deleted, faults>>

OthersNote(n, t) ==
  /\ home[n] = None /\ t \notin deleted
  /\ home' = [home EXCEPT ![n] = t]
  /\ stored' = stored \cup {n} /\ unheard' = unheard \cup {n}
  /\ UNCHANGED <<route, pane, latest, fetches, saving, removing, deletion, deleted,
                 faults, off>>

\* thread:note_added; lost while the socket is down.
Hear(n) ==
  /\ n \in unheard
  /\ unheard' = unheard \ {n}
  /\ \/ /\ pane' = IF route = home[n] THEN Add(n) ELSE pane
        /\ off' = (off \/ (route = home[n] /\ n \notin stored))
        /\ UNCHANGED faults
     \/ /\ Fault
        /\ off' = (off \/ route = home[n])
        /\ UNCHANGED pane
  /\ UNCHANGED <<route, latest, fetches, home, stored, saving, removing, deletion,
                 deleted>>

\* Nobody is told of a note that its author or a manager deletes.
OthersRemove(n) ==
  /\ n \in stored /\ home[n] \notin deleted
  /\ stored' = stored \ {n}
  /\ off' = (off \/ route = home[n] \/ n \in pane.notes)
  /\ UNCHANGED <<route, pane, latest, fetches, home, saving, removing, unheard,
                 deletion, deleted, faults>>

RemoveNote(n) ==
  /\ route # None /\ n \in pane.notes /\ removing[n] = "idle"
  /\ removing' = [removing EXCEPT ![n] = route]
  /\ UNCHANGED <<route, pane, latest, fetches, home, stored, saving, unheard,
                 deletion, deleted, faults, off>>

\* Refused for another thread's note, a deleted thread or a note that is gone.
Refuses(n) == removing[n] # home[n] \/ home[n] \in deleted \/ n \notin stored
ServeRemoval(n) ==
  /\ removing[n] \in Threads
  /\ \/ /\ ~Refuses(n)
        /\ stored' = stored \ {n}
        /\ removing' = [removing EXCEPT ![n] = "gone"]
        /\ UNCHANGED faults
     \/ /\ IF Refuses(n) THEN UNCHANGED faults ELSE Fault
        /\ removing' = [removing EXCEPT ![n] = "idle"]
        /\ UNCHANGED stored
  /\ UNCHANGED <<route, pane, latest, fetches, home, saving, unheard, deletion,
                 deleted, off>>

AnswerRemoval(n) ==
  /\ removing[n] = "gone"
  /\ removing' = [removing EXCEPT ![n] = "idle"]
  /\ pane' = [pane EXCEPT !.notes = @ \ {n}]
  /\ UNCHANGED <<route, latest, fetches, home, stored, saving, unheard, deletion,
                 deleted, faults, off>>

----------------------------------------------------------------------------
(* Deleting the thread. *)

DeleteThread ==
  /\ route \in Deletable /\ deletion = NoDeletion
  /\ deletion' = [at |-> "sent", thread |-> route]
  /\ UNCHANGED <<route, pane, latest, fetches, home, stored, saving, removing, unheard,
                 deleted, faults, off>>

ServeDeletion ==
  /\ deletion.at = "sent"
  /\ \/ /\ deletion' = [deletion EXCEPT !.at = "done"]
        /\ deleted' = deleted \cup {deletion.thread}
        /\ UNCHANGED faults
     \/ Fault /\ deletion' = NoDeletion /\ UNCHANGED deleted
  /\ UNCHANGED <<route, pane, latest, fetches, home, stored, saving, removing, unheard,
                 off>>

\* Back to the list, whichever thread is open by now. A mailbox deleted does the same.
AnswerDeletion ==
  /\ deletion.at = "done"
  /\ deletion' = NoDeletion
  /\ Close
  /\ UNCHANGED <<fetches, home, stored, saving, removing, unheard, deleted, faults>>

Next ==
  \/ Leave \/ DeleteThread \/ ServeDeletion \/ AnswerDeletion
  \/ \E d \in Fetches :
       \/ Refresh(d) \/ ServeFetch(d) \/ AnswerFetch(d)
       \/ \E t \in Threads : Open(d, t)
  \/ \E n \in Notes :
       \/ SaveNote(n) \/ ServeNote(n) \/ AnswerSave(n) \/ Hear(n)
       \/ RemoveNote(n) \/ ServeRemoval(n) \/ AnswerRemoval(n)
       \/ OthersRemove(n) \/ \E t \in Threads : OthersNote(n, t)

Spec == Init /\ [][Next]_vars

----------------------------------------------------------------------------
(* Properties. *)

\* Once its last request is answered the pane has the messages and exactly the notes of
\* the open thread, unless that request failed or crossed a note, an event was lost or
\* came late, another user deleted a note since, of which no event tells, or a note was
\* saved for a thread left in the meantime (InboxPage.tsx:2033, 2140, 2817, 2978;
\* threads.service.ts:2778).
PaneIsRight ==
  ~off /\ latest = None =>
    /\ pane.thread = route
    /\ \A n \in pane.notes \cup stored :
         \/ saving[n] # "idle" \/ removing[n] # "idle" \/ n \in unheard
         \/ n \in pane.notes <=> (n \in stored /\ home[n] = route)
=============================================================================
