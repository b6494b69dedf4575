------------------------------- MODULE MCMail -------------------------------
(***************************************************************************)
(* Instances of the mail components TLC checks for safety, side by side:    *)
(* the first state picks one of them, and only that one moves.              *)
(***************************************************************************)
EXTENDS MCDesk

CONSTANTS m1, m2, q1, l1, u1, u2, d1, d2, r1, r2

\* Two mails in one folder; one that wanders between two; one in an inbox that is a label;
\* a run that fails or leaves mails out.
Deep == INSTANCE FolderSync WITH
  server <- y1, uidNext <- y2, wandered <- y3, unthreaded <- y4, skipped <- y5,
  crossed <- y6, mark <- y7, row <- y8, purged <- y9, run <- y10, failures <- y11,
  Mails <- {m1, m2}, Folders <- {"inbox"}, QueueRuns <- {q1}, LiveRuns <- {l1},
  MaySwitch <- FALSE, Labels <- FALSE, MaxUid <- 2, MaxRows <- 3, MaxFailures <- 0
Wide == INSTANCE FolderSync WITH
  server <- y1, uidNext <- y2, wandered <- y3, unthreaded <- y4, skipped <- y5,
  crossed <- y6, mark <- y7, row <- y8, purged <- y9, run <- y10, failures <- y11,
  Mails <- {m1}, Folders <- {"inbox", "trash"}, QueueRuns <- {q1}, LiveRuns <- {l1},
  MaySwitch <- FALSE, Labels <- FALSE, MaxUid <- 1, MaxRows <- 3, MaxFailures <- 0
Labelled == INSTANCE FolderSync WITH
  server <- y1, uidNext <- y2, wandered <- y3, unthreaded <- y4, skipped <- y5,
  crossed <- y6, mark <- y7, row <- y8, purged <- y9, run <- y10, failures <- y11,
  Mails <- {m1}, Folders <- {"inbox", "archive"}, QueueRuns <- {q1}, LiveRuns <- {l1},
  MaySwitch <- FALSE, Labels <- TRUE, MaxUid <- 1, MaxRows <- 3, MaxFailures <- 0
Failing == INSTANCE FolderSync WITH
  server <- y1, uidNext <- y2, wandered <- y3, unthreaded <- y4, skipped <- y5,
  crossed <- y6, mark <- y7, row <- y8, purged <- y9, run <- y10, failures <- y11,
  Mails <- {m1, m2}, Folders <- {"inbox"}, QueueRuns <- {q1}, LiveRuns <- {},
  MaySwitch <- TRUE, Labels <- FALSE, MaxUid <- 2, MaxRows <- 3, MaxFailures <- 1

\* Two requests at once, of two kinds (the second with two removals whose jobs overlap);
\* requests beside mails that arrive; two removals in a row.
Crowd == INSTANCE ThreadLifecycle WITH
  thread <- y1, snooze <- y2, request <- y3, waker <- y4, job <- y5, deleter <- y6,
  provider <- y7, stored <- y8, arriving <- y9, zombies <- y10, crashes <- y11,
  before <- y12, mixed <- y13, late <- y14, filed <- y15,
  Users <- {u1, u2}, Operations <- {"snooze", "remove"}, Deleters <- {d1},
  WakeUps <- {}, Mails <- {m1}, Attached <- {}, Unlinked <- {},
  DeleteAttempts <- 2, MaxRemovals <- 1, MaxCrashes <- 0
Filed == INSTANCE ThreadLifecycle WITH
  thread <- y1, snooze <- y2, request <- y3, waker <- y4, job <- y5, deleter <- y6,
  provider <- y7, stored <- y8, arriving <- y9, zombies <- y10, crashes <- y11,
  before <- y12, mixed <- y13, late <- y14, filed <- y15,
  Users <- {u1, u2}, Operations <- {"file", "remove"}, Deleters <- {d1},
  WakeUps <- {}, Mails <- {m1}, Attached <- {}, Unlinked <- {},
  DeleteAttempts <- 1, MaxRemovals <- 2, MaxCrashes <- 0
Busy == INSTANCE ThreadLifecycle WITH
  thread <- y1, snooze <- y2, request <- y3, waker <- y4, job <- y5, deleter <- y6,
  provider <- y7, stored <- y8, arriving <- y9, zombies <- y10, crashes <- y11,
  before <- y12, mixed <- y13, late <- y14, filed <- y15,
  Users <- {u1}, Operations <- {"snooze", "assign", "file", "remove"},
  Deleters <- {d1}, WakeUps <- {}, Mails <- {m1, m2}, Attached <- {m2},
  Unlinked <- {m2}, DeleteAttempts <- 1, MaxRemovals <- 1, MaxCrashes <- 1
Again == INSTANCE ThreadLifecycle WITH
  thread <- y1, snooze <- y2, request <- y3, waker <- y4, job <- y5, deleter <- y6,
  provider <- y7, stored <- y8, arriving <- y9, zombies <- y10, crashes <- y11,
  before <- y12, mixed <- y13, late <- y14, filed <- y15,
  Users <- {u1},
  Operations <- {"snooze", "unsnooze", "archive", "unarchive", "remove"},
  Deleters <- {d1, d2}, WakeUps <- {}, Mails <- {m1}, Attached <- {m1}, Unlinked <- {},
  DeleteAttempts <- 2, MaxRemovals <- 2, MaxCrashes <- 2

\* A composed mail with a file, two runs; a composed one and a reply like it; a reply
\* and a forwarded one with the same text.
Composed == INSTANCE SentCopies WITH
  request <- y1, copy <- y2, row <- y3, run <- y4, calm <- y5,
  None <- NoOne, Mails <- {1}, Kind <- [m \in {1} |-> "compose"], Attached <- {1},
  Title <- [m \in {1} |-> 1], Text <- [m \in {1} |-> 1], Runs <- {r1, r2},
  MaxRows <- 5
Answered == INSTANCE SentCopies WITH
  request <- y1, copy <- y2, row <- y3, run <- y4, calm <- y5,
  None <- NoOne, Mails <- {1, 2},
  Kind <- [m \in {1, 2} |-> IF m = 1 THEN "compose" ELSE "reply"], Attached <- {1},
  Title <- [m \in {1, 2} |-> 1], Text <- [m \in {1, 2} |-> m], Runs <- {r1},
  MaxRows <- 5
Repeated == INSTANCE SentCopies WITH
  request <- y1, copy <- y2, row <- y3, run <- y4, calm <- y5,
  None <- NoOne, Mails <- {1, 2},
  Kind <- [m \in {1, 2} |-> IF m = 1 THEN "reply" ELSE "forward"], Attached <- {},
  Title <- [m \in {1, 2} |-> 1], Text <- [m \in {1, 2} |-> 1], Runs <- {r1},
  MaxRows <- 5

ASSUME InstancesAreFit ==
  /\ Composed!SentAssumption /\ Answered!SentAssumption /\ Repeated!SentAssumption
  /\ Deep!FolderAssumption /\ Wide!FolderAssumption
  /\ Labelled!FolderAssumption /\ Failing!FolderAssumption
  /\ Crowd!ThreadAssumption /\ Filed!ThreadAssumption
  /\ Busy!ThreadAssumption /\ Again!ThreadAssumption
  /\ DeskFits

Init ==
  \/ part = "deep" /\ Deep!Init /\ Rest11
  \/ part = "wide" /\ Wide!Init /\ Rest11
  \/ part = "labelled" /\ Labelled!Init /\ Rest11
  \/ part = "failing" /\ Failing!Init /\ Rest11
  \/ part = "crowd" /\ Crowd!Init
  \/ part = "filed" /\ Filed!Init
  \/ part = "busy" /\ Busy!Init
  \/ part = "again" /\ Again!Init
  \/ part = "composed" /\ Composed!Init /\ Rest5
  \/ part = "answered" /\ Answered!Init /\ Rest5
  \/ part = "repeated" /\ Repeated!Init /\ Rest5
  \/ DeskInit

Next ==
  \/ part = "deep" /\ Deep!Next /\ UNCHANGED <<part, After11>>
  \/ part = "wide" /\ Wide!Next /\ UNCHANGED <<part, After11>>
  \/ part = "labelled" /\ Labelled!Next /\ UNCHANGED <<part, After11>>
  \/ part = "failing" /\ Failing!Next /\ UNCHANGED <<part, After11>>
  \/ part = "crowd" /\ Crowd!Next /\ UNCHANGED part
  \/ part = "filed" /\ Filed!Next /\ UNCHANGED part
  \/ part = "busy" /\ Busy!Next /\ UNCHANGED part
  \/ part = "again" /\ Again!Next /\ UNCHANGED part
  \/ part = "composed" /\ Composed!Next /\ UNCHANGED <<part, After5>>
  \/ part = "answered" /\ Answered!Next /\ UNCHANGED <<part, After5>>
  \/ part = "repeated" /\ Repeated!Next /\ UNCHANGED <<part, After5>>
  \/ DeskNext

Spec == Init /\ [][Next]_vars

TypeOK ==
  /\ part = "deep" => Deep!TypeOK
  /\ part = "wide" => Wide!TypeOK
  /\ part = "labelled" => Labelled!TypeOK
  /\ part = "failing" => Failing!TypeOK
  /\ part = "crowd" => Crowd!TypeOK
  /\ part = "filed" => Filed!TypeOK
  /\ part = "busy" => Busy!TypeOK
  /\ part = "again" => Again!TypeOK
  /\ part = "composed" => Composed!TypeOK
  /\ part = "answered" => Answered!TypeOK
  /\ part = "repeated" => Repeated!TypeOK
  /\ DeskTypeOK

\* FolderSync!NoMailSkipped, of every instance: what lies below a folder's
\* watermark has its row.
NoMailSkipped ==
  /\ part = "deep" => Deep!NoMailSkipped
  /\ part = "wide" => Wide!NoMailSkipped
  /\ part = "labelled" => Labelled!NoMailSkipped
  /\ part = "failing" => Failing!NoMailSkipped

\* FolderSync!NoMailTwice: a mail that stays where it arrived has one row, unless it lies in
\* several folders and two runs set out to store it at once.
NoMailTwice ==
  /\ part = "deep" => Deep!NoMailTwice
  /\ part = "wide" => Wide!NoMailTwice
  /\ part = "labelled" => Labelled!NoMailTwice
  /\ part = "failing" => Failing!NoMailTwice

\* SentCopies!SentIsFiled: a run over Sent Items that nothing disturbs leaves every mail
\* with one row.
SentIsFiled ==
  /\ part = "composed" => Composed!SentIsFiled
  /\ part = "answered" => Answered!SentIsFiled
  /\ part = "repeated" => Repeated!SentIsFiled

\* FolderSync!StoredStays: what is stored stays while its mail stays.
StoredStays ==
  [][/\ part = "deep" => Deep!KeepsStored
     /\ part = "wide" => Wide!KeepsStored
     /\ part = "labelled" => Labelled!KeepsStored
     /\ part = "failing" => Failing!KeepsStored]_vars

\* ThreadLifecycle!DeletedAfterProvider: a mail leaves the database after it
\* was moved to the trash at the provider, unless the job passed it over.
DeletedAfterProvider ==
  [][/\ part = "crowd" => Crowd!LeavesAfterProvider
     /\ part = "filed" => Filed!LeavesAfterProvider
     /\ part = "busy" => Busy!LeavesAfterProvider
     /\ part = "again" => Again!LeavesAfterProvider]_vars

\* ThreadLifecycle!RestoreIsExact: a failed removal restores the status the
\* thread had before it.
RestoreIsExact ==
  [][/\ part = "crowd" => Crowd!RestoresBefore
     /\ part = "filed" => Filed!RestoresBefore
     /\ part = "busy" => Busy!RestoresBefore
     /\ part = "again" => Again!RestoresBefore]_vars
=============================================================================
