----------------------------- MODULE MailboxSync -----------------------------
(***************************************************************************)
(* The synchronisation of one mailbox: who starts a run, what a run does to  *)
(* the row of the mailbox, and how it ends.                                  *)
(*                                                                         *)
(* EmailSyncScheduler.tick enqueues a job per mailbox that is due, under a   *)
(* fixed job id.  Requests enqueue further jobs (triggerSync, refreshInbox,  *)
(* the OAuth callback) or run the synchronisation themselves                 *)
(* (refreshMailboxInteractive).  EmailSyncProcessor.runMailboxSync reads the *)
(* row, refreshes the OAuth token, writes SYNCING, connects, fetches and     *)
(* writes how it went.  Meanwhile the user may disconnect or delete the      *)
(* mailbox and an administrator may flip DISABLE_IMAP_SYNC.                  *)
(*                                                                         *)
(* One mailbox is enough: mailboxes share nothing here but the workers, and  *)
(* the set of failed jobs, whose overflow is the action ForgetFailed.        *)
(***************************************************************************)
EXTENDS Naturals, FiniteSets

CONSTANTS
  Processors,      \* the concurrent workers of the email-sync queue
  Requests,        \* the HTTP handlers that run the synchronisation themselves
  AutoJob,            \* the job the scheduler adds, `auto-sync-<id>'
  Manual,          \* jobs added on request: at most so many exist at a time
  NoJobId, NoWorker,
  MaxStalled,
  ManualAttempts,  \* `attempts' of a job added on request (2 or 3)
  MaxCrashes,      \* bound on the number of restarts
  Provider         \* how the mailbox is connected

ASSUME SyncAssumption ==
  /\ AutoJob \notin Manual
  /\ NoJobId \notin Manual \cup {AutoJob}
  /\ Processors \cap Requests = {}
  /\ NoWorker \notin Processors
  /\ MaxStalled \in Nat
  /\ ManualAttempts \in Nat \ {0}
  /\ MaxCrashes \in Nat
  /\ Provider \in {"imap", "google", "microsoft"}

VARIABLES
  killSwitch,   \* DISABLE_IMAP_SYNC, kept in process.env
  status,       \* Mailbox.syncStatus
  retry,        \* Mailbox.nextRetryAt: null, in the future, or past
  stale,        \* Mailbox.lastSyncAt is null or older than the interval
  token,        \* a credential is stored
  linked,       \* the user wants the mailbox connected (Mailbox.oauthProvider)
  deleted,      \* Mailbox.deletedAt is set
  tick,         \* the scheduler: idle, or about to add the job
  asked,        \* a request that has written the row and not yet added its job
  revoking,     \* the disconnect handler: its progress
  job,          \* the jobs of the email-sync queue
  run,          \* the runs, by the worker or the request that executes them
  crashes,      \* restarts so far
  orphaned,     \* history: a run that had written SYNCING ended without a result
  revived       \* history: a run stored a token after the user disconnected

world   == <<killSwitch, crashes>>
mailbox == <<status, retry, stale, token, linked, deleted>>
asking  == <<tick, asked, revoking>>
history == <<orphaned, revived>>
vars == <<world, mailbox, asking, job, run, history>>

Single  == INSTANCE JobQueue WITH Workers <- Processors, Attempts <- 1
Retried == INSTANCE JobQueue WITH Workers <- Processors, Attempts <- ManualAttempts

JobIds == Manual \cup {AutoJob}

Runs == Processors \cup Requests

\* Where a run can be between two awaits.  From `start' on, in order:
Steps == {"idle", "start", "skip", "lookup", "unusable", "refresh", "persist",
          "mark", "graph", "graphFetch", "graphFinish", "slot", "connect",
          "folders", "fetch", "finish", "failed"}

RunState == [pc : Steps, job : JobIds \cup {NoJobId}, marked : BOOLEAN]

Idle == [pc |-> "idle", job |-> NoJobId, marked |-> FALSE]

TypeOK ==
  /\ killSwitch \in BOOLEAN
  /\ status \in {"PENDING", "SYNCING", "SUCCESS", "FAILED"}
  /\ retry \in {"none", "waiting", "due"}
  /\ stale \in BOOLEAN
  /\ token \in BOOLEAN
  /\ linked \in BOOLEAN
  /\ deleted \in BOOLEAN
  /\ tick \in {"idle", "selected"}
  /\ asked \in {"none", "trigger", "link"}
  /\ revoking \in {"no", "jobs", "write"}
  /\ job \in [JobIds -> Retried!Jobs]
  /\ run \in [Runs -> RunState]
  /\ crashes \in 0..MaxCrashes
  /\ orphaned \in BOOLEAN
  /\ revived \in BOOLEAN

\* A mailbox that has just been connected.
Init ==
  /\ killSwitch = FALSE
  /\ status = "PENDING"
  /\ retry = "none"
  /\ stale = TRUE
  /\ token = TRUE
  /\ linked = TRUE
  /\ deleted = FALSE
  /\ tick = "idle"
  /\ asked = "none"
  /\ revoking = "no"
  /\ job = [j \in JobIds |-> Retried!NoJob]
  /\ run = [r \in Runs |-> Idle]
  /\ crashes = 0
  /\ orphaned = FALSE
  /\ revived = FALSE

(***************************************************************************)
(* Time, flags and crashes                                                   *)
(***************************************************************************)
BecomeStale ==
  /\ ~stale
  /\ stale' = TRUE
  /\ UNCHANGED <<world, status, retry, token, linked, deleted, asking, job, run,
                 history>>

RetryTime ==
  /\ retry = "waiting"
  /\ retry' = "due"
  /\ UNCHANGED <<world, status, stale, token, linked, deleted, asking, job, run,
                 history>>

ToggleKillSwitch ==
  /\ killSwitch' = ~killSwitch
  /\ UNCHANGED <<crashes, mailbox, asking, job, run, history>>

Crash ==
  /\ crashes < MaxCrashes
  /\ crashes' = crashes + 1
  /\ killSwitch' = FALSE
  /\ tick' = "idle"
  /\ asked' = "none"
  /\ revoking' = "no"
  /\ run' = [r \in Runs |-> Idle]
  /\ orphaned' = (orphaned \/ \E r \in Runs : run[r].marked)
  /\ UNCHANGED <<mailbox, job, revived>>

(***************************************************************************)
(* EmailSyncScheduler.tick                                                   *)
(***************************************************************************)
\* A scheduler that leaves failed mailboxes alone.
SelectedUnlessFailed ==
  /\ ~deleted
  /\ Provider # "microsoft"
  /\ status \in {"PENDING", "SUCCESS"}
  /\ stale
  /\ token

Selected ==
  /\ ~deleted
  /\ Provider # "microsoft"
  /\ status # "SYNCING"
  /\ stale
  /\ retry # "waiting"
  /\ token

TickSelect ==
  /\ tick = "idle"
  /\ ~killSwitch
  /\ Selected
  /\ tick' = "selected"
  /\ UNCHANGED <<world, mailbox, asked, revoking, job, run, history>>

\* queue.add under a job id that exists already, in whatever state, adds
\* nothing; it may also fail.
TickAdd ==
  /\ tick = "selected"
  /\ tick' = "idle"
  /\ job' = IF job[AutoJob] = Single!NoJob
              THEN [job EXCEPT ![AutoJob] = Single!Added(FALSE)] ELSE job
  /\ UNCHANGED <<world, mailbox, asked, revoking, run, history>>

TickFails ==
  /\ tick = "selected"
  /\ tick' = "idle"
  /\ UNCHANGED <<world, mailbox, asked, revoking, job, run, history>>

(***************************************************************************)
(* Requests                                                                  *)
(***************************************************************************)
\* MailboxesService.triggerSync (not for Microsoft): write the row ...
TriggerSync ==
  /\ Provider # "microsoft"
  /\ asked = "none"
  /\ ~killSwitch
  /\ ~deleted
  /\ status' = "PENDING"
  /\ retry' = "none"
  /\ asked' = "trigger"
  /\ UNCHANGED <<world, stale, token, linked, deleted, tick, revoking, job, run,
                 history>>

\* The OAuth callback connects the mailbox again.
Link ==
  /\ Provider # "imap"
  /\ asked = "none"
  /\ ~deleted
  /\ token' = TRUE
  /\ linked' = TRUE
  /\ status' = "PENDING"
  /\ asked' = "link"
  /\ UNCHANGED <<world, retry, stale, deleted, tick, revoking, job, run, history>>

Free(j) == job[j].state = "none" \/ Retried!Finished(job[j])

\* ... then add a job, unless that fails or (after the callback) the kill
\* switch is on.
AddRequested ==
  /\ asked # "none"
  /\ asked' = "none"
  /\ \/ /\ asked = "trigger" \/ ~killSwitch
        /\ \E j \in Manual : /\ Free(j)
                             /\ job' = [job EXCEPT ![j] = Retried!Added(FALSE)]
     \/ UNCHANGED job
  /\ UNCHANGED <<world, mailbox, tick, revoking, run, history>>

\* refreshInbox (and triggerSync for Microsoft): run it in the request.
StartRefresh(r) ==
  /\ r \in Requests
  /\ run[r].pc = "idle"
  /\ ~killSwitch
  /\ ~deleted
  /\ run' = [run EXCEPT ![r].pc = "start"]
  /\ UNCHANGED <<world, mailbox, asking, job, history>>

\* MailboxesService.revokeOauth: nothing to do without a connection, ...
RevokeStart ==
  /\ revoking = "no"
  /\ Provider # "imap"
  /\ ~deleted
  /\ linked \/ token
  /\ revoking' = "jobs"
  /\ UNCHANGED <<world, mailbox, tick, asked, job, run, history>>

\* ... remove the jobs that wait (a job that is taken meanwhile cannot be
\* removed, and ends the handler), ...
CancelQueuedSyncJobs ==
  /\ revoking = "jobs"
  /\ LET queued == {j \in JobIds : job[j].state \in {"waiting", "delayed"}}
     IN \E gone \in SUBSET queued :
          /\ job' = [j \in JobIds |-> IF j \in gone THEN Retried!NoJob ELSE job[j]]
          /\ revoking' \in IF gone = queued THEN {"write", "no"} ELSE {"no"}
  /\ UNCHANGED <<world, mailbox, tick, asked, run, history>>

\* Forget the provider, and leave a token behind.
RevokeKeepsToken ==
  /\ revoking = "write"
  /\ revoking' = "no"
  /\ linked' = FALSE
  /\ status' = "FAILED"
  /\ retry' = "none"
  /\ revived' = FALSE
  /\ UNCHANGED <<world, stale, token, deleted, tick, asked, job, run, orphaned>>

\* ... and forget the credentials.
RevokeWrite ==
  /\ revoking = "write"
  /\ revoking' = "no"
  /\ linked' = FALSE
  /\ token' = FALSE
  /\ status' = "FAILED"
  /\ retry' = "none"
  /\ revived' = FALSE
  /\ UNCHANGED <<world, stale, deleted, tick, asked, job, run, orphaned>>

RevokeFails ==
  /\ revoking = "write"
  /\ revoking' = "no"
  /\ UNCHANGED <<world, mailbox, tick, asked, job, run, history>>

\* The transaction of MailboxesService.remove.
Remove ==
  /\ ~deleted
  /\ deleted' = TRUE
  /\ UNCHANGED <<world, status, retry, stale, token, linked, asking, job, run,
                 history>>

(***************************************************************************)
(* The queue                                                                 *)
(***************************************************************************)
Take(w, j) ==
  /\ run[w].pc = "idle"
  /\ job[j].state = "waiting"
  /\ job' = [job EXCEPT ![j] = Retried!Taken(@, w)]
  /\ run' = [run EXCEPT ![w] = [pc |-> "start", job |-> j, marked |-> FALSE]]
  /\ UNCHANGED <<world, mailbox, asking, history>>

Holds(w, j) == run[w].job = j /\ job[j].owner = w

\* The lock of a job expires, because its worker died or did not renew it.
Stall(j) ==
  /\ job[j].state = "active"
  /\ job' = [job EXCEPT ![j] = Retried!Stalled(@)]
  /\ UNCHANGED <<world, mailbox, asking, run, history>>

RecoverStalled(j) == (\A w \in Processors : ~Holds(w, j)) /\ Stall(j)

LoseLock(j) == (\E w \in Processors : Holds(w, j)) /\ Stall(j)

\* removeOnFail: only the last 100 failed jobs of the queue are kept.
ForgetFailed ==
  /\ job[AutoJob].state = "failed"
  /\ job' = [job EXCEPT ![AutoJob] = Single!NoJob]
  /\ UNCHANGED <<world, mailbox, asking, run, history>>

\* The job ends with its run; removeOnComplete forgets the scheduler's.
Leave(r) == run' = [run EXCEPT ![r] = Idle]

Done(w, j) ==
  IF job[j].owner # w THEN job[j]
  ELSE IF j = AutoJob THEN Single!NoJob
  ELSE Retried!Completed(job[j], w)

Broken(w, j) ==
  IF j = AutoJob THEN Single!AttemptFailed(job[j], w)
              ELSE Retried!AttemptFailed(job[j], w)

\* A refreshInbox request that has not failed adds a job for the other folders
\* (without waiting for the queue), unless it was asked not to.
Return(r) ==
  /\ Leave(r)
  /\ IF run[r].job \in JobIds
       THEN job' = [job EXCEPT ![run[r].job] = Done(r, run[r].job)]
       ELSE \/ \E j \in Manual : /\ Free(j)
                                 /\ job' = [job EXCEPT ![j] = Retried!Added(FALSE)]
            \/ UNCHANGED job

Throw(r) ==
  /\ Leave(r)
  /\ IF run[r].job \in JobIds
       THEN job' = [job EXCEPT ![run[r].job] = Broken(r, run[r].job)]
       ELSE UNCHANGED job

(***************************************************************************)
(* runMailboxSync                                                            *)
(***************************************************************************)
At(r, step) == run[r].pc = step

Go(r, step) == run' = [run EXCEPT ![r].pc = step]

Start(r) ==
  /\ At(r, "start")
  /\ Go(r, IF killSwitch THEN "skip" ELSE "lookup")
  /\ UNCHANGED <<world, mailbox, asking, job, history>>

\* markMailboxSyncSkippedByKillSwitch; an error of its write is swallowed.
Skip(r) ==
  /\ At(r, "skip")
  /\ Return(r)
  /\ \/ /\ status' = "FAILED"
        /\ retry' = "none"
        /\ UNCHANGED orphaned
     \/ /\ orphaned' = (orphaned \/ run[r].marked)
        /\ UNCHANGED <<status, retry>>
  /\ UNCHANGED <<world, stale, token, linked, deleted, asking, revived>>

\* Read the row without looking at deletedAt.
LookupDeleted(r) ==
  /\ At(r, "lookup")
  /\ Go(r, IF token THEN "mark" ELSE "unusable")
  /\ UNCHANGED <<world, mailbox, asking, job, history>>

\* Read the row; the run works with what it has read.  A stored credential may
\* turn out to be unreadable, a token (not a password) to have expired.
Lookup(r) ==
  /\ At(r, "lookup")
  /\ IF deleted THEN Return(r)
     ELSE /\ UNCHANGED job
          /\ \/ Go(r, "unusable")
             \/ token /\ Go(r, "mark")
             \/ token /\ Provider # "imap" /\ Go(r, "refresh")
  /\ UNCHANGED <<world, mailbox, asking, history>>

\* The database does not answer a run that has not written anything yet.
LookupFails(r) ==
  /\ At(r, "lookup")
  /\ Throw(r)
  /\ UNCHANGED <<world, mailbox, asking, history>>

\* markMailboxSyncFailed, and the run returns: no error for the queue.
Unusable(r) ==
  /\ At(r, "unusable")
  /\ \/ /\ Return(r)
        /\ status' = "FAILED"
        /\ retry' = "waiting"
     \/ Throw(r) /\ UNCHANGED <<status, retry>>
  /\ UNCHANGED <<world, stale, token, linked, deleted, asking, history>>

\* Where a run goes when it has dealt with its token: a Microsoft run asks for
\* a token once more after it has written SYNCING.
AfterToken(r) == IF run[r].marked THEN "graph" ELSE "mark"

\* refreshGoogleToken, refreshMicrosoftToken: the provider gives a new token, or
\* the run goes on with the old one.
RefreshToken(r) ==
  /\ At(r, "refresh")
  /\ \E next \in {"persist", AfterToken(r)} : Go(r, next)
  /\ UNCHANGED <<world, mailbox, asking, job, history>>

\* Store the new token, by id.
PersistToken(r) ==
  /\ At(r, "persist")
  /\ Go(r, AfterToken(r))
  /\ \/ /\ token' = TRUE
        /\ revived' = (revived \/ ~linked)
     \/ UNCHANGED <<token, revived>>
  /\ UNCHANGED <<world, status, retry, stale, linked, deleted, asking, job,
                 orphaned>>

MarkSyncing(r) ==
  /\ At(r, "mark")
  /\ \/ /\ status' = "SYNCING"
        /\ run' = [run EXCEPT ![r].marked = TRUE,
                              ![r].pc = IF Provider = "microsoft" THEN "refresh"
                                                                  ELSE "slot"]
        /\ UNCHANGED job
     \/ Throw(r) /\ UNCHANGED status
  /\ UNCHANGED <<world, retry, stale, token, linked, deleted, asking, history>>

\* acquireProviderRequestSlot throws under the kill switch.  Before the
\* connection stands, nothing catches that: the run ends, SYNCING stays.
EscapesUncaught(r) ==
  /\ Throw(r)
  /\ orphaned' = TRUE
  /\ UNCHANGED <<world, mailbox, asking, revived>>

\* A page that is fetched without asking for a slot.
GraphSlotFree(r) ==
  /\ At(r, "graph")
  /\ Go(r, "graphFetch")
  /\ UNCHANGED <<world, mailbox, asking, job, history>>

\* trySyncOutlookViaApi: one page after the other, each behind the kill switch.
GraphSlot(r) ==
  /\ At(r, "graph")
  /\ ~killSwitch
  /\ Go(r, "graphFetch")
  /\ UNCHANGED <<world, mailbox, asking, job, history>>

GraphStopped(r) ==
  /\ At(r, "graph")
  /\ killSwitch
  /\ EscapesUncaught(r)

GraphPage(r) ==
  /\ At(r, "graphFetch")
  /\ \E next \in {"graph", "graphFinish", "slot"} : Go(r, next)
  /\ UNCHANGED <<world, mailbox, asking, job, history>>

\* A database error while the folders are written, or while the result is.
GraphFails(r) ==
  /\ run[r].pc \in {"graphFetch", "graphFinish"}
  /\ EscapesUncaught(r)

\* A connection that is opened without asking for a slot.
ConnectSlotFree(r) ==
  /\ At(r, "slot")
  /\ Go(r, "connect")
  /\ UNCHANGED <<world, mailbox, asking, job, history>>

\* acquireImapClient: the slot, then (after its delays) the connection.
ConnectSlot(r) ==
  /\ At(r, "slot")
  /\ ~killSwitch
  /\ Go(r, "connect")
  /\ UNCHANGED <<world, mailbox, asking, job, history>>

ConnectStopped(r) ==
  /\ At(r, "slot")
  /\ killSwitch
  /\ EscapesUncaught(r)

Connect(r) ==
  /\ At(r, "connect")
  /\ Go(r, "folders")
  /\ UNCHANGED <<world, mailbox, asking, job, history>>

ConnectFails(r) ==
  /\ At(r, "connect")
  /\ EscapesUncaught(r)

\* syncAllFolders: from here on the catch block of the run sees every error.
FolderSlot(r) ==
  /\ At(r, "folders")
  /\ Go(r, IF killSwitch THEN "skip" ELSE "fetch")
  /\ UNCHANGED <<world, mailbox, asking, job, history>>

FetchMore(r) ==
  /\ At(r, "fetch")
  /\ Go(r, "folders")
  /\ UNCHANGED <<world, mailbox, asking, job, history>>

FetchEnds(r) ==
  /\ At(r, "fetch")
  /\ \E next \in {"finish", "failed"} : Go(r, next)
  /\ UNCHANGED <<world, mailbox, asking, job, history>>

\* A result that the enumeration of the column does not know.
SucceededUnknown ==
  /\ status' = "SYNCED"
  /\ retry' = "none"
  /\ stale' = FALSE

Succeeded ==
  /\ status' = "SUCCESS"
  /\ retry' = "none"
  /\ stale' = FALSE

\* The result of the run is written by id, whatever the row says now.
Finish(r) ==
  /\ run[r].pc \in {"finish", "graphFinish"}
  /\ Succeeded
  /\ Return(r)
  /\ UNCHANGED <<world, token, linked, deleted, asking, history>>

FinishFails(r) ==
  /\ At(r, "finish")
  /\ Go(r, "failed")
  /\ UNCHANGED <<world, mailbox, asking, job, history>>

\* A catch block that only rethrows.
FailRethrows(r) ==
  /\ At(r, "failed")
  /\ Throw(r)
  /\ UNCHANGED <<world, mailbox, asking, history>>

\* The catch block: markMailboxSyncFailed, then rethrow.  Its own write may
\* fail too.
Fail(r) ==
  /\ At(r, "failed")
  /\ Throw(r)
  /\ \/ /\ status' = "FAILED"
        /\ retry' = "waiting"
        /\ UNCHANGED orphaned
     \/ orphaned' = TRUE /\ UNCHANGED <<status, retry>>
  /\ UNCHANGED <<world, stale, token, linked, deleted, asking, revived>>

RunStep(r) ==
  \/ Start(r)
  \/ Skip(r)
  \/ Lookup(r)
  \/ LookupFails(r)
  \/ Unusable(r)
  \/ RefreshToken(r)
  \/ PersistToken(r)
  \/ MarkSyncing(r)
  \/ GraphSlot(r)
  \/ GraphStopped(r)
  \/ GraphPage(r)
  \/ GraphFails(r)
  \/ ConnectSlot(r)
  \/ ConnectStopped(r)
  \/ Connect(r)
  \/ ConnectFails(r)
  \/ FolderSlot(r)
  \/ FetchMore(r)
  \/ FetchEnds(r)
  \/ Finish(r)
  \/ FinishFails(r)
  \/ Fail(r)

RequestStep ==
  \/ TriggerSync
  \/ Link
  \/ AddRequested
  \/ RevokeStart
  \/ CancelQueuedSyncJobs
  \/ RevokeWrite
  \/ RevokeFails
  \/ Remove
  \/ \E r \in Requests : StartRefresh(r)

ClockStep == BecomeStale \/ RetryTime \/ ToggleKillSwitch \/ Crash

SchedulerStep == TickSelect \/ TickAdd \/ TickFails

QueueStep ==
  \/ \E w \in Processors, j \in JobIds : Take(w, j)
  \/ \E j \in JobIds : RecoverStalled(j) \/ LoseLock(j)
  \/ ForgetFailed

Next ==
  \/ ClockStep
  \/ SchedulerStep
  \/ RequestStep
  \/ QueueStep
  \/ \E r \in Runs : RunStep(r)

Spec == Init /\ [][Next]_vars

\* The clock runs and the timer of the scheduler fires; Redis does not refuse a
\* job for ever; a job is handed out before those added after it; a run that is
\* not killed goes on, and a mailbox has finitely many pages.
Fairness ==
  /\ WF_vars(RetryTime)
  /\ WF_vars(TickSelect)
  /\ SF_vars(TickAdd)
  /\ \A j \in JobIds : /\ SF_vars(\E w \in Processors : Take(w, j))
                        /\ WF_vars(RecoverStalled(j))
  /\ \A r \in Runs : WF_vars(RunStep(r)) /\ SF_vars(FetchEnds(r))

FairSpec == Spec /\ Fairness

(***************************************************************************)
(* Properties                                                                *)
(***************************************************************************)
\* SYNCING is what keeps the scheduler away from a mailbox, and nothing but a
\* run takes it back.  So whenever the row says SYNCING a run that will write
\* its result is under way, unless one ended without writing it: killed, or by
\* an error that the code does not catch (before the connection stands, or a
\* write of the result that failed).
NotLeftSyncing ==
  status = "SYNCING" => orphaned \/ \E r \in Runs : run[r].marked

\* The kill switch stops every request to a provider but those whose slot was
\* granted before.
AtProvider == {r \in Runs : run[r].pc \in {"connect", "fetch", "graphFetch"}}

KillSwitchGate ==
  INSTANCE AccessGate WITH Users <- Runs, open <- ~killSwitch,
                           inside <- AtProvider

KillSwitchStops == KillSwitchGate!Spec

\* Runs that use a credential they have read.
Connected ==
  {r \in Runs : run[r].pc \notin {"idle", "start", "skip", "lookup", "unusable"}}

\* Deleting the mailbox stops every run but those that have read the row before.
DeletionGate ==
  INSTANCE AccessGate WITH Users <- Runs, open <- ~deleted, inside <- Connected

DeletionStops == DeletionGate!Spec

\* So does disconnecting it, as long as no run that was refreshing the token
\* stored a new one afterwards.
DisconnectGate ==
  INSTANCE AccessGate WITH Users <- Runs, open <- linked \/ revived,
                           inside <- Connected

DisconnectStops == DisconnectGate!Spec

\* What revokeOauth reports ('Mailbox OAuth disconnected'), without that
\* exception.
StrictDisconnectGate ==
  INSTANCE AccessGate WITH Users <- Runs, open <- linked, inside <- Connected

StaysDisconnected == StrictDisconnectGate!Spec

Syncable ==
  /\ Provider # "microsoft"
  /\ token
  /\ ~deleted
  /\ ~killSwitch

\* The scheduler keeps a connected mailbox current: one that is stale is
\* synchronised, unless a run fails (then it is retried on request only) or has
\* left the row behind in SYNCING, or the user keeps disconnecting it.  In
\* particular a mailbox that once FAILED and whose jobs ended without an error is
\* tried again.
StaysCurrent ==
  stale /\ Syncable
    ~> \/ ~stale
       \/ ~Syncable
       \/ orphaned
       \/ revoking = "jobs"
       \/ job[AutoJob].state = "failed"
       \/ \E r \in Runs : run[r].pc \in {"failed", "unusable"}

\* What the settings page shows for nextRetryAt: when that time has come, the
\* mailbox is tried again.
RetryHappens ==
  status = "FAILED" /\ retry = "due" /\ stale /\ Syncable
    ~> retry # "due" \/ ~Syncable \/ \E r \in Runs : run[r].pc # "idle"

(***************************************************************************)
(* The inductive invariant of the proofs                                     *)
(***************************************************************************)
\* A run that has not written SYNCING has nothing to take back.
EarlyIsUnmarked ==
  \A r \in Runs :
    run[r].pc \in {"idle", "start", "lookup", "unusable", "mark"} => ~run[r].marked

\* Workers run jobs, requests do not.
RunsKnowTheirJob ==
  /\ \A r \in Processors : run[r].pc # "idle" => run[r].job \in JobIds
  /\ \A r \in Requests : run[r].job = NoJobId

TokenIsWanted == token => linked \/ revived

IInv ==
  /\ TypeOK
  /\ EarlyIsUnmarked
  /\ RunsKnowTheirJob
  /\ TokenIsWanted
  /\ NotLeftSyncing
=============================================================================
