------------------------------- MODULE MCLive -------------------------------
(***************************************************************************)
(* Instances of the components TLC checks for liveness, side by side: the    *)
(* first state picks one of them, and only that one moves.                  *)
(***************************************************************************)
EXTENDS Naturals

CONSTANTS m1, q1, l1, u1, d1, d2, w1, w2, auto, t1, r1, n1, n2, a1, k1, NoOne

VARIABLES part,
  syncSwitch, status, retry, stale, token, linked, deleted, tick, asked,
  revoking, syncJob, syncRun, restarts, orphaned, revived,
  server, uidNext, wandered, unthreaded, skipped, crossed, mark, row, purged, run,
  failures,
  thread, snooze, request, waker, job, deleter, provider, stored, arriving,
  zombies, crashes, before, mixed, late, filed,
  live, fresh, local, header, page, call, trade, excused,
  quiet, dispatch, noteJob, pushJob, item, closed, digestRun, digestMails, owners,
  claim, errors, mailed, pushed, collected, overlapped

mailbox == <<syncSwitch, status, retry, stale, token, linked, deleted, tick,
             asked, revoking, syncJob, syncRun, restarts, orphaned, revived>>
folders == <<server, uidNext, wandered, unthreaded, skipped, crossed, mark, row, purged,
             run, failures>>
threads == <<thread, snooze, request, waker, job, deleter, provider, stored,
             arriving, zombies, crashes, before, mixed, late, filed>>
sessions == <<live, fresh, local, header, page, call, trade, excused>>
notes == <<quiet, dispatch, noteJob, pushJob, item, closed, digestRun, digestMails,
           owners, claim, errors, mailed, pushed, collected, overlapped>>
vars == <<part, mailbox, folders, threads, sessions, notes>>

\* The scheduler, with a restart.
Scheduler == INSTANCE MailboxSync WITH
  killSwitch <- syncSwitch, job <- syncJob, run <- syncRun, crashes <- restarts,
  Processors <- {w1}, Requests <- {}, Manual <- {}, AutoJob <- auto,
  MaxStalled <- 0, ManualAttempts <- 1, MaxCrashes <- 1, Provider <- "imap",
  NoJobId <- NoOne, NoWorker <- NoOne

\* The inbox, read by the queue and by a request.
Inbox == INSTANCE FolderSync WITH Mails <- {m1}, Folders <- {"inbox"},
           QueueRuns <- {q1}, LiveRuns <- {l1}, MaySwitch <- FALSE,
           Labels <- FALSE, MaxUid <- 2, MaxRows <- 3, MaxFailures <- 1

\* Two removals of a thread, two processors, a crash.
Removal == INSTANCE ThreadLifecycle WITH Users <- {u1},
             Operations <- {"unsnooze", "archive", "file", "remove"}, Deleters <- {d1, d2},
             WakeUps <- {}, Mails <- {m1}, Attached <- {m1}, Unlinked <- {},
             DeleteAttempts <- 2, MaxRemovals <- 2, MaxCrashes <- 1

Tab == INSTANCE Sessions WITH request <- call,
         Tabs <- {t1}, Requests <- {r1}, MaxPairs <- 5

Digest == INSTANCE Notifications WITH mailJob <- noteJob, faults <- errors,
            Notes <- {n1, n2}, Digested <- {n1, n2}, Devices <- {}, Accounts <- {a1},
            Me <- a1, DigestRuns <- {k1}, Attempts <- 1, MaxFaults <- 1, MaxMails <- 3

ASSUME InstancesAreFit ==
  Inbox!FolderAssumption /\ Removal!ThreadAssumption /\ Digest!NotificationsAssumption

Init ==
  /\ part \in {"scheduler", "inbox", "removal", "tab", "digest"}
  /\ Scheduler!Init /\ Inbox!Init /\ Removal!Init /\ Tab!Init
  /\ Digest!Init
  /\ part # "digest" => ~quiet

Next ==
  \/ part = "scheduler" /\ Scheduler!Next
     /\ UNCHANGED <<part, folders, threads, sessions, notes>>
  \/ part = "inbox" /\ Inbox!Next
     /\ UNCHANGED <<part, mailbox, threads, sessions, notes>>
  \/ part = "removal" /\ Removal!Next
     /\ UNCHANGED <<part, mailbox, folders, sessions, notes>>
  \/ part = "tab" /\ Tab!Next
     /\ UNCHANGED <<part, mailbox, folders, threads, notes>>
  \/ part = "digest" /\ Digest!Next
     /\ UNCHANGED <<part, mailbox, folders, threads, sessions>>

Spec == Init /\ [][Next]_vars

\* The fairness of each component, for the one that moves: where an action may be
\* enabled in a first state it is restated here with its part as a guard.
Fairness ==
  /\ Removal!Fairness /\ Tab!Fairness /\ Digest!Fairness
  /\ WF_mailbox(part = "scheduler" /\ Scheduler!RetryTime)
  /\ WF_mailbox(part = "scheduler" /\ Scheduler!TickSelect)
  /\ SF_mailbox(part = "scheduler" /\ Scheduler!TickAdd)
  /\ \A j \in {auto} :
       /\ SF_mailbox(part = "scheduler" /\ Scheduler!Take(w1, j))
       /\ WF_mailbox(part = "scheduler" /\ Scheduler!RecoverStalled(j))
  /\ \A r \in {w1} : /\ WF_mailbox(part = "scheduler" /\ Scheduler!RunStep(r))
                     /\ SF_mailbox(part = "scheduler" /\ Scheduler!FetchEnds(r))
  /\ \A r \in {q1, l1} : /\ WF_folders(part = "inbox" /\ Inbox!RunStep(r))
                         /\ SF_folders(part = "inbox" /\ Inbox!Open(r, "inbox"))

FairSpec == Spec /\ Fairness

\* MailboxSync!StaysCurrent: the scheduler synchronises a connected mailbox again
\* and again.
StaysCurrent == part = "scheduler" => Scheduler!StaysCurrent

\* FolderSync!MailArrives and MailComesBack: a mail in the inbox gets its row, also
\* after a late comparison deleted that.
MailArrives == part = "inbox" => Inbox!MailArrives /\ Inbox!MailComesBack

\* ThreadLifecycle!RemovalSettles: a removed thread is deleted or restored.
RemovalSettles == part = "removal" => Removal!RemovalSettles

\* Sessions!RequestsSettle: every request is answered or its tab signed out.
RequestsSettle == part = "tab" => Tab!RequestsSettle

\* Notifications!PendingIsFlushed: every item of a digest is collected.
PendingIsFlushed == part = "digest" => Digest!PendingIsFlushed
=============================================================================
