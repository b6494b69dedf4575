--------------------------- MODULE ThreadLifecycle ---------------------------
(***************************************************************************)
(* One thread of ThreadsService: the requests that change its status, the   *)
(* thread-delete queue that removes its mails at the provider and then its  *)
(* rows, the wake-up of snoozed threads, and mails that arrive meanwhile.   *)
(*                                                                         *)
(* Every request reads the thread (findOne, which hides the trash), and     *)
(* writes it by id in a later step with what it has read.                   *)
(***************************************************************************)
EXTENDS Naturals, FiniteSets

CONSTANTS
  Users,        \* requests in flight
  Operations,   \* the handlers they call
  Deleters,     \* concurrency of the thread-delete queue
  WakeUps,      \* jobs of the snooze-wakeup queue (no code adds one)
  Mails,        \* the mails of the thread
  Attached,     \* those with Attachment rows
  Unlinked,     \* those whose row names nothing at the provider: over IMAP no uid or
                \* no folder, over Graph no Message-ID
  NoOne,        \* the owner of a job nobody holds
  DeleteAttempts, \* THREAD_DELETE_ATTEMPTS
  MaxRemovals,  \* bound: removals
  MaxCrashes    \* bound: crashes and refused jobs

Handlers == {"snooze", "unsnooze", "archive", "unarchive", "assign", "file",
             "remove"}

\* What the constants satisfy (MCMail assumes it of its instances).
ThreadAssumption ==
  /\ Attached \subseteq Mails /\ Unlinked \subseteq Mails /\ Operations \subseteq Handlers
  /\ DeleteAttempts \in Nat \ {0}
  /\ MaxRemovals \in Nat /\ MaxCrashes \in Nat

VARIABLES
  thread,       \* the Thread row
  snooze,       \* snoozedUntil: none, later, or due
  request,      \* the requests: what they are for and what they have read
  waker,        \* the wake-up processors
  job,          \* job[i]: the provider-delete job of the i-th removal
  deleter,      \* the thread-delete processors
  provider,     \* provider[m]: where the mail server has the mail; elsewhere is where
                \* its row does not find it
  stored,       \* the mails with a Message row in the thread
  arriving,     \* mails the synchronisation has assigned to the thread
  zombies,      \* moves that go on although their processor timed out
  crashes,
  before,       \* history: status under which the last removal found the thread
  mixed,        \* history: another request, or an earlier removal, was under way
                \* during a removal
  late,         \* history: mails stored while a deletion was running
  filed         \* history: TRASH with no job behind it

rowVars  == <<thread, snooze>>
mailVars == <<provider, stored, arriving, zombies>>
history  == <<before, mixed, late, filed>>
vars == <<rowVars, request, waker, job, deleter, mailVars, crashes, history>>

\* The queue keeps BullMQ's maxStalledCount of 1.
Queue == INSTANCE JobQueue WITH Workers <- Deleters, NoWorker <- NoOne,
           Attempts <- DeleteAttempts, MaxStalled <- 1

Removals == 1..MaxRemovals
Idle     == [pc |-> "idle"]

Statuses == {"OPEN", "SNOOZED", "ARCHIVED", "TRASH", "gone"}

ThreadRow == [status : Statuses, previousStatus : Statuses \cup {"none"},
              archivedAt : BOOLEAN]

TypeOK ==
  /\ thread \in ThreadRow
  /\ snooze \in {"none", "later", "due"}
  /\ \A i \in Removals : job[i] \in Queue!Jobs
  /\ provider \in [Mails -> {"none", "inbox", "elsewhere", "trash"}]
  /\ stored \subseteq Mails /\ arriving \subseteq Mails /\ zombies \subseteq Mails
  /\ \A w \in Deleters : deleter[w].pc \in
       {"idle", "read", "move", "cleanup", "failed", "restore"}
  /\ \A u \in Users : request[u].pc \in Operations \cup {"idle", "enqueue"}
  /\ crashes \in 0..MaxCrashes

Init ==
  /\ thread = [status |-> "OPEN", previousStatus |-> "none", archivedAt |-> FALSE]
  /\ snooze = "none"
  /\ request = [u \in Users |-> Idle]
  /\ waker = [k \in WakeUps |-> Idle]
  /\ job = [i \in Removals |-> Queue!NoJob]
  /\ deleter = [w \in Deleters |-> Idle]
  /\ provider = [m \in Mails |-> "none"]
  /\ stored = {} /\ arriving = {} /\ zombies = {}
  /\ crashes = 0
  /\ before = "none" /\ mixed = FALSE /\ late = {} /\ filed = FALSE

Unfinished(i) == job[i].state \in {"waiting", "active"}

Visible == thread.status \notin {"TRASH", "gone"}
Exists  == thread.status # "gone"

(***************************************************************************)
(* Requests                                                                 *)
(***************************************************************************)
\* findOne, with what the handler will use of the row.
UsesStatus == {"snooze", "archive", "remove"}
UsesPrevious == {"unsnooze", "unarchive"}

Read(u, op) ==
  /\ request[u] = Idle /\ Visible
  /\ request' = [request EXCEPT ![u] =
       [pc |-> op,
        was |-> IF op \in UsesStatus THEN thread.status
                ELSE IF op \in UsesPrevious THEN thread.previousStatus
                ELSE "unread"]]
  /\ UNCHANGED <<rowVars, waker, job, deleter, mailVars, crashes, history>>

\* Mutant: previousStatus is taken as it is.
RestoredAsIs(previous) == previous

\* parseThreadStatus and `?? OPEN'.
Restored(previous) == IF previous = "none" THEN "OPEN" ELSE previous

\* What each handler writes, given what it has read.
Written(r) ==
  CASE r.pc = "snooze" ->
         [thread EXCEPT !.previousStatus = r.was, !.status = "SNOOZED"]
    [] r.pc = "unsnooze" ->
         [thread EXCEPT !.previousStatus = "none", !.status = Restored(r.was)]
    [] r.pc = "archive" ->
         [thread EXCEPT !.previousStatus = r.was, !.status = "ARCHIVED",
                        !.archivedAt = TRUE]
    [] r.pc = "unarchive" ->
         [thread EXCEPT !.previousStatus = "none", !.archivedAt = FALSE,
                        !.status = Restored(r.was)]
    [] r.pc = "assign" -> [thread EXCEPT !.status = "OPEN"]

SnoozeAfter(r) == CASE r.pc = "snooze" -> "later"
                    [] r.pc = "unsnooze" -> "none"
                    [] OTHER -> snooze

\* The write by id: refused (P2025) when the row is gone.
Write(u) ==
  /\ request[u].pc \in {"snooze", "unsnooze", "archive", "unarchive", "assign"}
  /\ request' = [request EXCEPT ![u] = Idle]
  /\ IF Exists
     THEN /\ thread' = Written(request[u])
          /\ snooze' = SnoozeAfter(request[u])
          /\ mixed' = (mixed \/ thread.status = "TRASH")
     ELSE UNCHANGED <<rowVars, mixed>>
  /\ UNCHANGED <<waker, job, deleter, mailVars, crashes, before, late, filed>>

\* update and bulkUpdate write any status of the DTO and nothing else.
File(u, status) ==
  /\ request[u].pc = "file"
  /\ request' = [request EXCEPT ![u] = Idle]
  /\ IF Exists
     THEN /\ thread' = [thread EXCEPT !.status = status]
          /\ mixed' = (mixed \/ thread.status = "TRASH")
          /\ filed' = (status = "TRASH")
     ELSE UNCHANGED <<thread, mixed, filed>>
  /\ UNCHANGED <<snooze, waker, job, deleter, mailVars, crashes, before, late>>

\* Mutant: previousStatus is only written when there is none yet.
RemoveKeepsPrevious(u) ==
  /\ request[u].pc = "remove"
  /\ \E i \in Removals : job[i] = Queue!NoJob
  /\ IF Exists
     THEN /\ thread' = [status |-> "TRASH", archivedAt |-> TRUE,
                        previousStatus |-> IF thread.previousStatus = "none"
                                           THEN request[u].was
                                           ELSE thread.previousStatus]
          /\ request' = [request EXCEPT ![u] = [pc |-> "enqueue"]]
          /\ before' = thread.status
          /\ mixed' = (thread.status # request[u].was)
          /\ filed' = FALSE
     ELSE /\ request' = [request EXCEPT ![u] = Idle]
          /\ UNCHANGED <<thread, before, mixed, filed>>
  /\ UNCHANGED <<snooze, waker, job, deleter, mailVars, crashes, late>>

\* remove: TRASH first ...
RemoveWrite(u) ==
  /\ request[u].pc = "remove"
  /\ \E i \in Removals : job[i] = Queue!NoJob
  /\ IF Exists
     THEN /\ thread' = [status |-> "TRASH", archivedAt |-> TRUE,
                        previousStatus |-> request[u].was]
          /\ request' = [request EXCEPT ![u] = [pc |-> "enqueue"]]
          /\ before' = thread.status
          /\ mixed' = (\/ thread.status # request[u].was
                       \/ \E v \in Users \ {u} : request[v] # Idle
                       \/ \E k \in WakeUps : waker[k] # Idle
                       \/ \E w \in Deleters : deleter[w] # Idle
                       \/ \E i \in Removals : Unfinished(i))
          /\ filed' = FALSE
     ELSE /\ request' = [request EXCEPT ![u] = Idle]
          /\ UNCHANGED <<thread, before, mixed, filed>>
  /\ UNCHANGED <<snooze, waker, job, deleter, mailVars, crashes, late>>

\* ... then the job.
RemoveEnqueue(u, i) ==
  /\ request[u].pc = "enqueue"
  /\ job[i] = Queue!NoJob /\ \A k \in Removals : k < i => job[k] # Queue!NoJob
  /\ job' = [job EXCEPT ![i] = Queue!Added(FALSE)]
  /\ request' = [request EXCEPT ![u] = Idle]
  /\ UNCHANGED <<rowVars, waker, deleter, mailVars, crashes, history>>

\* Redis refuses the job: the thread stays in the trash.
RemoveFails(u) ==
  /\ request[u].pc = "enqueue" /\ crashes < MaxCrashes
  /\ crashes' = crashes + 1
  /\ request' = [request EXCEPT ![u] = Idle]
  /\ filed' = TRUE
  /\ UNCHANGED <<rowVars, waker, job, deleter, mailVars, before, mixed, late>>

(***************************************************************************)
(* Waking up                                                                *)
(***************************************************************************)
SnoozeEnds ==
  /\ snooze = "later" /\ snooze' = "due"
  /\ UNCHANGED <<thread, request, waker, job, deleter, mailVars, crashes, history>>

WakeSelect(k) ==
  /\ waker[k] = Idle
  /\ thread.status = "SNOOZED" /\ snooze = "due"
  /\ waker' = [waker EXCEPT ![k] =
       [pc |-> "wake", previous |-> thread.previousStatus]]
  /\ UNCHANGED <<rowVars, request, job, deleter, mailVars, crashes, history>>

WakeWrite(k) ==
  /\ waker[k].pc = "wake"
  /\ waker' = [waker EXCEPT ![k] = Idle]
  /\ IF Exists
     THEN /\ thread' = [thread EXCEPT !.previousStatus = "none",
                                      !.status = Restored(waker[k].previous)]
          /\ snooze' = "none"
          /\ mixed' = (mixed \/ thread.status = "TRASH")
     ELSE UNCHANGED <<rowVars, mixed>>
  /\ UNCHANGED <<request, job, deleter, mailVars, crashes, before, late, filed>>

(***************************************************************************)
(* The thread-delete queue                                                  *)
(***************************************************************************)
At(w, pc) == deleter[w].pc = pc
Goto(w, step) == deleter' = [deleter EXCEPT ![w] = step]
Job(w) == deleter[w].job

Take(w, i) ==
  /\ At(w, "idle") /\ job[i].state = "waiting"
  /\ job' = [job EXCEPT ![i] = Queue!Taken(@, w)]
  /\ Goto(w, [pc |-> "read", job |-> i])
  /\ UNCHANGED <<rowVars, request, waker, mailVars, crashes, history>>

Complete(w) ==
  /\ job' = [job EXCEPT ![Job(w)] = Queue!Completed(@, w)]
  /\ Goto(w, Idle)

\* Mutant: the last attempt is taken for one more to come.
GiveUpQuietly(w) ==
  LET failed == Queue!AttemptFailed(job[Job(w)], w)
  IN /\ job' = [job EXCEPT ![Job(w)] = failed]
     /\ Goto(w, Idle)

\* Only the last attempt has its failure handled.
GiveUp(w) ==
  LET failed == Queue!AttemptFailed(job[Job(w)], w)
  IN /\ job' = [job EXCEPT ![Job(w)] = failed]
     /\ Goto(w, IF failed.state = "failed" THEN [pc |-> "failed"] ELSE Idle)

\* The row, of whatever status, with its mails; those that name nothing at the
\* provider are passed over.
ReadThread(w) ==
  /\ At(w, "read")
  /\ IF Exists
     THEN /\ Goto(w, [pc |-> "move", job |-> Job(w), had |-> stored,
                      todo |-> stored \ Unlinked, passed |-> stored \cap Unlinked])
          /\ UNCHANGED job
     ELSE Complete(w)
  /\ UNCHANGED <<rowVars, request, waker, mailVars, crashes, history>>

\* A stale uid moves nothing and a lookup may be empty; neither is an error.
Lost(m) == provider[m] = "elsewhere"
Trashed(m) == [provider EXCEPT ![m] = IF Lost(m) THEN @ ELSE "trash"]

MoveMail(w, m) ==
  /\ At(w, "move") /\ m \in deleter[w].todo
  /\ provider' = Trashed(m)
  /\ Goto(w, [pc |-> "move", job |-> Job(w), had |-> deleter[w].had,
              todo |-> deleter[w].todo \ {m},
              passed |-> deleter[w].passed \cup {k \in {m} : Lost(k)}])
  /\ UNCHANGED <<rowVars, request, waker, job, stored, arriving, zombies, crashes,
                 history>>

\* Mutant: the moves are started and not awaited.
MovesStarted(w) ==
  /\ At(w, "move")
  /\ Goto(w, [pc |-> "cleanup", job |-> Job(w), had |-> deleter[w].had,
              passed |-> deleter[w].passed])
  /\ UNCHANGED <<rowVars, request, waker, job, mailVars, crashes, history>>

\* The cleanup follows whatever was passed over, everything included (attempted: false).
MovesDone(w) ==
  /\ At(w, "move") /\ deleter[w].todo = {}
  /\ Goto(w, [pc |-> "cleanup", job |-> Job(w), had |-> deleter[w].had,
              passed |-> deleter[w].passed])
  /\ UNCHANGED <<rowVars, request, waker, job, mailVars, crashes, history>>

\* The provider refuses, or withTimeout gives up: the race leaves the moves
\* that have not been made running.
MovesFail(w) ==
  /\ At(w, "move") /\ deleter[w].todo # {}
  /\ GiveUp(w)
  /\ zombies' \in {zombies, zombies \cup deleter[w].todo}
  /\ UNCHANGED <<rowVars, request, waker, provider, stored, arriving, crashes,
                 history>>

ZombieMove(m) ==
  /\ m \in zombies
  /\ provider' = Trashed(m)
  /\ zombies' = zombies \ {m}
  /\ UNCHANGED <<rowVars, request, waker, job, deleter, stored, arriving, crashes,
                 history>>

\* One transaction.  It deletes the attachments of the mails that were read and
\* then all mails: an attachment of a later mail makes the database refuse it.
Cleanup(w) ==
  /\ At(w, "cleanup")
  /\ IF (stored \ deleter[w].had) \cap Attached # {}
     THEN GiveUp(w) /\ UNCHANGED <<thread, stored>>
     ELSE /\ Complete(w)
          /\ thread' = [thread EXCEPT !.status = "gone"]
          /\ stored' = {}
  /\ UNCHANGED <<snooze, request, waker, provider, arriving, zombies, crashes,
                 history>>

\* handleQueuedThreadDeleteFailure reads the row ...
ReadFailed(w) ==
  /\ At(w, "failed")
  /\ Goto(w, IF Exists
             THEN [pc |-> "restore", previous |-> thread.previousStatus]
             ELSE Idle)
  /\ UNCHANGED <<rowVars, request, waker, job, mailVars, crashes, history>>

\* ... and writes it, whatever its status has become.
RestoreThread(w) ==
  /\ At(w, "restore")
  /\ IF Exists
     THEN thread' = [status |-> Restored(deleter[w].previous), archivedAt |-> FALSE,
                     previousStatus |-> "none"]
     ELSE UNCHANGED thread
  /\ Goto(w, Idle)
  /\ UNCHANGED <<snooze, request, waker, job, mailVars, crashes, history>>

\* The process dies: jobs it held are stalled.  A removal that had not added its
\* job, and a failure that was not handled, leave the thread in the trash.
Crash ==
  /\ crashes < MaxCrashes
  /\ crashes' = crashes + 1
  /\ request' = [u \in Users |-> Idle]
  /\ waker' = [k \in WakeUps |-> Idle]
  /\ deleter' = [w \in Deleters |-> Idle]
  /\ job' = [i \in Removals |-> IF job[i].state = "active"
                                THEN Queue!Stalled(job[i]) ELSE job[i]]
  /\ arriving' = {} /\ zombies' = {}
  /\ filed' = (\/ filed \/ \E u \in Users : request[u].pc = "enqueue"
               \/ \E w \in Deleters : deleter[w].pc \in {"failed", "restore"}
               \/ \E i \in Removals : job[i].state = "active"
                                     /\ job'[i].state = "failed")
  /\ UNCHANGED <<rowVars, provider, stored, before, mixed, late>>

(***************************************************************************)
(* Mails of the conversation that the synchronisation finds meanwhile       *)
(***************************************************************************)
Arrive(m) ==
  /\ provider[m] = "none"
  /\ provider' = [provider EXCEPT ![m] = "inbox"]
  /\ UNCHANGED <<rowVars, request, waker, job, deleter, stored, arriving, zombies,
                 crashes, history>>

\* findOrCreateThread leaves the trash out, and its answer is used later.
Assign(m) ==
  /\ provider[m] = "inbox" /\ m \notin stored \cup arriving
  /\ Visible
  /\ arriving' = arriving \cup {m}
  /\ UNCHANGED <<rowVars, request, waker, job, deleter, provider, stored, zombies,
                 crashes, history>>

StoreMail(m) ==
  /\ m \in arriving
  /\ arriving' = arriving \ {m}
  /\ IF Exists
     THEN /\ stored' = stored \cup {m}
          /\ late' = IF \E w \in Deleters : deleter[w].pc \in {"move", "cleanup"}
                     THEN late \cup {m} ELSE late
     ELSE UNCHANGED <<stored, late>>
  /\ UNCHANGED <<rowVars, request, waker, job, deleter, provider, zombies, crashes,
                 before, mixed, filed>>

\* Someone moves a mail at the provider: the uid of its row is stale ...
Wander(m) ==
  /\ m \in stored /\ provider[m] = "inbox"
  /\ provider' = [provider EXCEPT ![m] = "elsewhere"]
  /\ UNCHANGED <<rowVars, request, waker, job, deleter, stored, arriving, zombies,
                 crashes, history>>

\* ... until a synchronisation run stores the new one.
Refind(m) ==
  /\ Lost(m)
  /\ provider' = [provider EXCEPT ![m] = "inbox"]
  /\ UNCHANGED <<rowVars, request, waker, job, deleter, stored, arriving, zombies,
                 crashes, history>>

UserStep(u) ==
  \/ \E op \in Operations : Read(u, op)
  \/ Write(u) \/ RemoveWrite(u) \/ RemoveFails(u)
  \/ \E status \in {"OPEN", "ARCHIVED", "TRASH"} : File(u, status)
  \/ \E i \in Removals : RemoveEnqueue(u, i)

DeleterStep(w) ==
  \/ \E i \in Removals : Take(w, i)
  \/ ReadThread(w) \/ MovesDone(w) \/ Cleanup(w)
  \/ ReadFailed(w) \/ RestoreThread(w)
  \/ \E m \in Mails : MoveMail(w, m)

MailStep(m) ==
  \/ Arrive(m) \/ Assign(m) \/ StoreMail(m) \/ ZombieMove(m)
  \/ Wander(m) \/ Refind(m)

Next ==
  \/ \E u \in Users : UserStep(u)
  \/ SnoozeEnds \/ \E k \in WakeUps : WakeSelect(k) \/ WakeWrite(k)
  \/ \E w \in Deleters : DeleterStep(w) \/ MovesFail(w)
  \/ \E m \in Mails : MailStep(m)
  \/ Crash

Spec == Init /\ [][Next]_vars

\* Requests and processors that have started go on; the queue hands its jobs out.
Fairness ==
  /\ \A u \in Users : WF_vars(\E i \in Removals : RemoveEnqueue(u, i))
  /\ \A w \in Deleters : WF_vars(DeleterStep(w))

FairSpec == Spec /\ Fairness

(***************************************************************************)
(* Properties                                                               *)
(***************************************************************************)
\* A mail is taken out of the database only when the provider has it in the
\* trash, or when the job that takes it out has looked for it at the provider in
\* vain or had nothing to look for.  The exception is a mail stored while the removal
\* was running, which the cleanup deletes unmoved.
PassedOver(m) ==
  \E w \in Deleters : At(w, "cleanup") /\ deleter'[w] = Idle /\ m \in deleter[w].passed
LeavesAfterProvider ==
  \A m \in stored \ stored' : provider[m] = "trash" \/ m \in late \/ PassedOver(m)
DeletedAfterProvider == [][LeavesAfterProvider]_vars

\* A removal that fails for good gives the thread the status it had before,
\* however often it was tried and whatever was removed and restored earlier,
\* unless another request, or the job of an earlier removal, worked on the
\* thread meanwhile.
Restores == \E w \in Deleters : deleter[w].pc = "restore" /\ deleter'[w].pc = "idle"
RestoresBefore ==
  Restores /\ thread' # thread /\ ~mixed => thread'.status = before
RestoreIsExact == [][RestoresBefore]_vars

\* Nothing is lost from sight: a thread in the trash is deleted or comes back,
\* unless no job stands behind its status.
RemovalSettles == thread.status = "TRASH" ~> (thread.status # "TRASH" \/ filed)

(***************************************************************************)
(* What they rest on                                                        *)
(***************************************************************************)
Previous == Statuses \cup {"none"}

RequestOf ==
  {Idle, [pc |-> "enqueue"]} \cup [pc : Operations, was : Previous \cup {"unread"}]

DeleterOf ==
  {Idle, [pc |-> "failed"]}
  \cup [pc : {"read"}, job : Removals]
  \cup [pc : {"move"}, job : Removals, had : SUBSET Mails, todo : SUBSET Mails,
        passed : SUBSET Mails]
  \cup [pc : {"cleanup"}, job : Removals, had : SUBSET Mails, passed : SUBSET Mails]
  \cup [pc : {"restore"}, previous : Previous]

Typed ==
  /\ thread \in ThreadRow
  /\ snooze \in {"none", "later", "due"}
  /\ request \in [Users -> RequestOf]
  /\ \A u \in Users : request[u].pc \in UsesStatus => request[u].was \in Statuses
  /\ \A u \in Users : request[u].pc \in UsesPrevious => request[u].was \in Previous
  /\ waker \in [WakeUps -> {Idle} \cup [pc : {"wake"}, previous : Previous]]
  /\ job \in [Removals -> Queue!Jobs]
  /\ deleter \in [Deleters -> DeleterOf]
  /\ provider \in [Mails -> {"none", "inbox", "elsewhere", "trash"}]
  /\ stored \subseteq Mails /\ arriving \subseteq Mails /\ zombies \subseteq Mails
  /\ crashes \in 0..MaxCrashes
  /\ mixed \in BOOLEAN

Asking(u)  == request[u].pc = "enqueue"
Moving(w)  == deleter[w].pc \in {"move", "cleanup"}
Working(w) == deleter[w].pc = "read" \/ Moving(w)
Failing(w) == deleter[w].pc \in {"failed", "restore"}

\* A processor at work holds the lock of its job.
HoldsJob ==
  \A w \in Deleters : Working(w) =>
    job[Job(w)].state = "active" /\ job[Job(w)].owner = w

\* What a processor has neither moved nor passed over is in its list, and what it has
\* not seen is late.
Moved ==
  \A w \in Deleters : Moving(w) =>
    /\ stored \subseteq deleter[w].had \cup late
    /\ \A m \in deleter[w].had :
         \/ provider[m] = "trash" \/ m \in deleter[w].passed
         \/ deleter[w].pc = "move" /\ m \in deleter[w].todo

\* A removal that nothing else disturbs is one request, then one job, then one
\* processor that handles its failure, and all the while the thread keeps in
\* previousStatus what the removal found.
Requested(u) ==
  /\ \A v \in Users \ {u} : request[v] = Idle
  /\ \A i \in Removals : ~Unfinished(i)
  /\ \A w \in Deleters : deleter[w] = Idle

Queued(i) ==
  /\ \A u \in Users : request[u] = Idle
  /\ \A k \in Removals \ {i} : ~Unfinished(k)
  /\ \A w \in Deleters : ~Failing(w)

Handled(w) ==
  /\ \A u \in Users : request[u] = Idle
  /\ \A i \in Removals : ~Unfinished(i)
  /\ \A x \in Deleters \ {w} : deleter[x] = Idle
  /\ deleter[w].pc = "restore" => deleter[w].previous = before

Pending ==
  \/ \E u \in Users : Asking(u)
  \/ \E i \in Removals : Unfinished(i)
  \/ \E w \in Deleters : Failing(w)

OneRemoval ==
  ~mixed =>
    /\ Pending => /\ thread.status = "TRASH" /\ thread.previousStatus = before
                  /\ before \in Statuses
    /\ \A u \in Users : Asking(u) => Requested(u)
    /\ \A i \in Removals : Unfinished(i) => Queued(i)
    /\ \A w \in Deleters : Failing(w) => Handled(w)

ThreadInv == Typed /\ HoldsJob /\ Moved /\ OneRemoval
=============================================================================
