-------------------------- MODULE OutboundDelivery --------------------------
(***************************************************************************)
(* How a composed mail leaves the system.                                   *)
(*                                                                         *)
(* MessagesService.send stores the message, for a scheduled one also a      *)
(* ScheduledMessage row, and enqueues a job.  EmailSendProcessor (immediate *)
(* mail) and ScheduledMessagesProcessor (scheduled mail) take the jobs and  *)
(* call MessagesService.deliverQueuedMessage, which hands the mail to the   *)
(* SMTP provider and then records the provider's message id.  In parallel   *)
(* the user may cancel a scheduled message or delete its thread, and an     *)
(* administrator may flip the DISABLE_SMTP_SEND kill switch.                *)
(*                                                                         *)
(* Every `await' of the code is a step: between two steps anything else may *)
(* run, the backend may crash, and a job's lock may expire.                 *)
(***************************************************************************)
EXTENDS JobQueue, FiniteSets

CONSTANTS
  Messages,     \* the mails users compose, one send request each
  Scheduled,    \* those sent with a scheduledAt
  Recurring,    \* scheduled mails with an rrule
  NoMessage,    \* what an idle worker is working on
  MaxRetries,   \* ScheduledMessage.maxRetries
  BootKill      \* DISABLE_SMTP_SEND in the environment the backend starts with

ASSUME DeliveryAssumption ==
  /\ Recurring \subseteq Scheduled
  /\ Scheduled \subseteq Messages
  /\ NoMessage \notin Messages
  /\ IsFiniteSet(Workers)
  /\ MaxRetries \in Nat \ {0}
  /\ BootKill \in BOOLEAN

VARIABLES
  killSwitch,   \* FeatureFlagsService.get('DISABLE_SMTP_SEND'), kept in process.env
  due,          \* due[m]: scheduledAt has passed
  request,      \* request[m]: how far the handler of send has got
  message,      \* the Message rows
  thread,       \* the thread fields a delivery writes
  row,          \* the ScheduledMessage rows
  nextRows,     \* nextRows[m]: rows inserted for the next run of a recurring mail
  job,          \* the jobs of the email-send and scheduled-messages queues
  worker,       \* the processors: program counter and what they have read
  cancelReq,    \* cancelReq[m]: a cancel handler that has read a pending row
  copies,       \* history: mails the provider accepted
  faults,       \* history: runs whose outcome was lost
  hiccup,       \* history: a write of the processor around a delivery failed
  skipped       \* history: the kill switch consumed the job

userVars  == <<killSwitch, due, request, cancelReq>>
storeVars == <<message, thread, row, nextRows>>
histVars  == <<copies, faults, hiccup, skipped>>
vars == <<userVars, storeVars, job, worker, histVars>>

Immediate == Messages \ Scheduled

RowStates == {"none", "pending", "processing", "sent", "failed", "cancelled",
              "deleted"}

\* The places where a processor can be between two awaits.
Steps == {"idle", "readRow", "mark", "deliver", "send", "record", "respond",
          "confirm", "status", "markSent", "recur", "catch"}

Idle == [pc |-> "idle", msg |-> NoMessage, retryCount |-> 0]

MessageRow == [stored : {"none", "present", "deleted"}, isDraft : BOOLEAN,
               messageId : BOOLEAN]

ThreadFields == [firstResponse : BOOLEAN, statusAfterSend : BOOLEAN]

ScheduledRow == [status : RowStates, retryCount : Nat]

WorkerState == [pc : Steps, msg : Messages \cup {NoMessage}, retryCount : Nat]

TypeOK ==
  /\ killSwitch \in BOOLEAN
  /\ due \in [Messages -> BOOLEAN]
  /\ request \in [Messages -> {"none", "composed", "rowed", "done", "lost"}]
  /\ message \in [Messages -> MessageRow]
  /\ thread \in [Messages -> ThreadFields]
  /\ row \in [Messages -> ScheduledRow]
  /\ nextRows \in [Messages -> Nat]
  /\ job \in [Messages -> Jobs]
  /\ worker \in [Workers -> WorkerState]
  /\ cancelReq \in [Messages -> BOOLEAN]
  /\ copies \in [Messages -> Nat]
  /\ faults \in [Messages -> Nat]
  /\ hiccup \in [Messages -> BOOLEAN]
  /\ skipped \in [Messages -> BOOLEAN]

Init ==
  /\ killSwitch = BootKill
  /\ due \in [Messages -> BOOLEAN]
  /\ request = [m \in Messages |-> "none"]
  /\ message = [m \in Messages |->
       [stored |-> "none", isDraft |-> FALSE, messageId |-> FALSE]]
  /\ thread = [m \in Messages |->
       [firstResponse |-> FALSE, statusAfterSend |-> FALSE]]
  /\ row = [m \in Messages |-> [status |-> "none", retryCount |-> 0]]
  /\ nextRows = [m \in Messages |-> 0]
  /\ job = [m \in Messages |-> NoJob]
  /\ worker = [w \in Workers |-> Idle]
  /\ cancelReq = [m \in Messages |-> FALSE]
  /\ copies = [m \in Messages |-> 0]
  /\ faults = [m \in Messages |-> 0]
  /\ hiccup = [m \in Messages |-> FALSE]
  /\ skipped = [m \in Messages |-> FALSE]

RowExists(m) == row[m].status \notin {"none", "deleted"}

(***************************************************************************)
(* MessagesService.send                                                     *)
(***************************************************************************)
\* The kill switch refuses the request; otherwise the message is stored, as a
\* draft when it is scheduled.
Compose(m) ==
  /\ request[m] = "none"
  /\ ~killSwitch
  /\ request' = [request EXCEPT ![m] = "composed"]
  /\ message' = [message EXCEPT ![m] =
       [stored |-> "present", isDraft |-> m \in Scheduled, messageId |-> FALSE]]
  /\ UNCHANGED <<killSwitch, due, cancelReq, thread, row, nextRows, job, worker,
                 histVars>>

\* A scheduled mail gets its row.
InsertRow(m) ==
  /\ m \in Scheduled
  /\ request[m] = "composed"
  /\ message[m].stored = "present"
  /\ row' = [row EXCEPT ![m] = [status |-> "pending", retryCount |-> 0]]
  /\ request' = [request EXCEPT ![m] = "rowed"]
  /\ UNCHANGED <<killSwitch, due, cancelReq, message, thread, nextRows, job,
                 worker, histVars>>

\* The row is refused (its thread is gone), or the database or the queue does
\* not answer: the handler ends with an error and leaves what it has stored.
RequestFails(m) ==
  /\ request[m] \in {"composed", "rowed"}
  /\ request' = [request EXCEPT ![m] = "lost"]
  /\ UNCHANGED <<killSwitch, due, cancelReq, storeVars, job, worker, histVars>>

Enqueue(m) ==
  /\ request[m] = IF m \in Scheduled THEN "rowed" ELSE "composed"
  /\ request' = [request EXCEPT ![m] = "done"]
  /\ job' = [job EXCEPT ![m] = Added(m \in Scheduled /\ ~due[m])]
  /\ UNCHANGED <<killSwitch, due, cancelReq, storeVars, worker, histVars>>

(***************************************************************************)
(* The world around the processors                                          *)
(***************************************************************************)
BecomeDue(m) ==
  /\ ~due[m]
  /\ due' = [due EXCEPT ![m] = TRUE]
  /\ UNCHANGED <<killSwitch, request, cancelReq, storeVars, job, worker, histVars>>

\* FeatureFlagsService.patch writes process.env.
ToggleKillSwitch ==
  /\ killSwitch' = ~killSwitch
  /\ UNCHANGED <<due, request, cancelReq, storeVars, job, worker, histVars>>

\* ScheduledMessagesService.cancel: read the row, refuse unless pending, ...
CancelRead(m) ==
  /\ ~cancelReq[m]
  /\ row[m].status = "pending"
  /\ cancelReq' = [cancelReq EXCEPT ![m] = TRUE]
  /\ UNCHANGED <<killSwitch, due, request, storeVars, job, worker, histVars>>

\* ... then write it by id, whatever it has become.
CancelWrite(m) ==
  /\ cancelReq[m]
  /\ cancelReq' = [cancelReq EXCEPT ![m] = FALSE]
  /\ IF RowExists(m) THEN row' = [row EXCEPT ![m].status = "cancelled"]
                     ELSE UNCHANGED row
  /\ UNCHANGED <<killSwitch, due, request, message, thread, nextRows, job, worker,
                 histVars>>

\* The transaction that ends the deletion of a thread (or of its mailbox).
DeleteThread(m) ==
  /\ message[m].stored = "present"
  /\ message' = [message EXCEPT ![m].stored = "deleted"]
  /\ row' = [row EXCEPT ![m].status = IF @ = "none" THEN @ ELSE "deleted"]
  /\ UNCHANGED <<userVars, thread, nextRows, job, worker, histVars>>

\* The backend dies: requests and processors are gone, flags are those of
\* the environment again.
Crash ==
  /\ killSwitch' = BootKill
  /\ request' = [m \in Messages |->
       IF request[m] \in {"composed", "rowed"} THEN "lost" ELSE request[m]]
  /\ cancelReq' = [m \in Messages |-> FALSE]
  /\ worker' = [w \in Workers |-> Idle]
  /\ UNCHANGED <<due, storeVars, job, histVars>>

(***************************************************************************)
(* The queues                                                               *)
(***************************************************************************)
Promote(m) ==
  /\ job[m].state = "delayed"
  /\ due[m]
  /\ job' = [job EXCEPT ![m] = Promoted(@)]
  /\ UNCHANGED <<userVars, storeVars, worker, histVars>>

Holds(w, m) == worker[w].msg = m /\ job[m].owner = w

\* The stalled check finds the job of a worker that died ...
RecoverStalled(m) ==
  /\ job[m].state = "active"
  /\ \A w \in Workers : ~Holds(w, m)
  /\ job' = [job EXCEPT ![m] = Stalled(@)]
  /\ faults' = [faults EXCEPT ![m] = @ + 1]
  /\ UNCHANGED <<userVars, storeVars, worker, copies, hiccup, skipped>>

\* ... or of one that lives but did not renew its lock in time.
LoseLock(m) ==
  /\ job[m].state = "active"
  /\ \E w \in Workers : Holds(w, m)
  /\ job' = [job EXCEPT ![m] = Stalled(@)]
  /\ faults' = [faults EXCEPT ![m] = @ + 1]
  /\ UNCHANGED <<userVars, storeVars, worker, copies, hiccup, skipped>>

(***************************************************************************)
(* The processors                                                           *)
(***************************************************************************)
At(w, m, step) == worker[w].pc = step /\ worker[w].msg = m

Go(w, step) == worker' = [worker EXCEPT ![w].pc = step]

\* process() returns, or throws.
Return(w, m) ==
  /\ worker' = [worker EXCEPT ![w] = Idle]
  /\ job' = [job EXCEPT ![m] = Completed(@, w)]

Throw(w, m) ==
  /\ worker' = [worker EXCEPT ![w] = Idle]
  /\ job' = [job EXCEPT ![m] = AttemptFailed(@, w)]

\* An error of the delivery that is logged and forgotten.
DeliveryErrorSwallowed(w, m) ==
  Go(w, IF m \in Scheduled THEN "markSent" ELSE "record") /\ UNCHANGED job

\* An error of the delivery that ends the job as if it had succeeded.
DeliveryGivesUp(w, m) == Return(w, m)

\* deliverQueuedMessage throws: the scheduled processor catches it, the other
\* one does not.
DeliveryThrows(w, m) ==
  IF m \in Scheduled THEN Go(w, "catch") /\ UNCHANGED job
                     ELSE Throw(w, m)

\* Under the kill switch a processor returns at once: the job is consumed.
SkipByKillSwitch(w, m) ==
  /\ worker[w].pc = "idle"
  /\ job[m].state = "waiting"
  /\ killSwitch
  /\ job' = [job EXCEPT ![m] = Completed(Taken(@, w), w)]
  /\ skipped' = [skipped EXCEPT ![m] = TRUE]
  /\ UNCHANGED <<userVars, storeVars, worker, copies, faults, hiccup>>

Take(w, m) ==
  /\ worker[w].pc = "idle"
  /\ job[m].state = "waiting"
  /\ ~killSwitch
  /\ job' = [job EXCEPT ![m] = Taken(@, w)]
  /\ worker' = [worker EXCEPT ![w] =
       [pc |-> IF m \in Scheduled THEN "readRow" ELSE "deliver",
        msg |-> m, retryCount |-> 0]]
  /\ UNCHANGED <<userVars, storeVars, histVars>>

\* No row, a cancelled one or one that is not due: nothing to do.
SendableIfPresent(m) == RowExists(m) /\ due[m]

Sendable(m) == RowExists(m) /\ row[m].status # "cancelled" /\ due[m]

ReadRow(w, m) ==
  /\ At(w, m, "readRow")
  /\ IF Sendable(m)
       THEN /\ worker' = [worker EXCEPT ![w].pc = "mark",
                                        ![w].retryCount = row[m].retryCount]
            /\ UNCHANGED job
       ELSE Return(w, m)
  /\ UNCHANGED <<userVars, storeVars, histVars>>

MarkProcessing(w, m) ==
  /\ At(w, m, "mark")
  /\ \/ /\ RowExists(m)
        /\ row' = [row EXCEPT ![m].status = "processing"]
        /\ Go(w, "deliver")
        /\ UNCHANGED <<job, hiccup>>
     \/ /\ Throw(w, m)
        /\ hiccup' = [hiccup EXCEPT ![m] = @ \/ RowExists(m)]
        /\ UNCHANGED row
  /\ UNCHANGED <<userVars, message, thread, nextRows, copies, faults, skipped>>

\* The provider's id is stored: the mail is out.
Recorded(m) == message[m].messageId /\ ~message[m].isDraft

NeverDelivered(m) == FALSE

AlreadyDelivered(m) == Recorded(m)

\* A processor that waits for the kill switch instead of giving up.
BeginDeliveryWhenAllowed(w, m) ==
  /\ At(w, m, "deliver")
  /\ ~killSwitch
  /\ IF message[m].stored # "present" THEN DeliveryThrows(w, m)
     ELSE Go(w, IF AlreadyDelivered(m) THEN "confirm" ELSE "send") /\ UNCHANGED job
  /\ UNCHANGED <<userVars, storeVars, histVars>>

\* deliverQueuedMessage up to sendMail.
BeginDelivery(w, m) ==
  /\ At(w, m, "deliver")
  /\ IF killSwitch \/ message[m].stored # "present"
       THEN DeliveryThrows(w, m)
       ELSE IF AlreadyDelivered(m)
              THEN IF m \in Scheduled THEN Go(w, "confirm") /\ UNCHANGED job
                                      ELSE Return(w, m)
              ELSE Go(w, "send") /\ UNCHANGED job
  /\ UNCHANGED <<userVars, storeVars, histVars>>

ProviderAccepts(w, m) ==
  /\ At(w, m, "send")
  /\ copies' = [copies EXCEPT ![m] = @ + 1]
  /\ Go(w, "record")
  /\ UNCHANGED <<userVars, storeVars, job, faults, hiccup, skipped>>

\* The provider (or the transport, or the recipient list) refuses the mail.
ProviderRejects(w, m) ==
  /\ At(w, m, "send")
  /\ DeliveryThrows(w, m)
  /\ UNCHANGED <<userVars, storeVars, histVars>>

\* The provider accepts the mail and its answer does not arrive, or has no
\* message id.
AnswerLost(w, m) ==
  /\ At(w, m, "send")
  /\ copies' = [copies EXCEPT ![m] = @ + 1]
  /\ faults' = [faults EXCEPT ![m] = @ + 1]
  /\ DeliveryThrows(w, m)
  /\ UNCHANGED <<userVars, storeVars, hiccup, skipped>>

\* The update that forgets to turn the draft into a sent mail.
RecordKeepsDraft(w, m) ==
  /\ At(w, m, "record")
  /\ message[m].stored = "present"
  /\ message' = [message EXCEPT ![m].messageId = TRUE]
  /\ Go(w, "respond")
  /\ UNCHANGED <<userVars, thread, row, nextRows, job, histVars>>

\* Persist the provider's id.
RecordDelivery(w, m) ==
  /\ At(w, m, "record")
  /\ message[m].stored = "present"
  /\ message' = [message EXCEPT ![m].isDraft = FALSE, ![m].messageId = TRUE]
  /\ Go(w, "respond")
  /\ UNCHANGED <<userVars, thread, row, nextRows, job, histVars>>

\* The first outbound mail answers the thread; an error here is swallowed.
AnswerThread(w, m) ==
  /\ At(w, m, "respond")
  /\ \/ /\ message[m].stored = "present"
        /\ thread' = [thread EXCEPT ![m].firstResponse = TRUE]
     \/ UNCHANGED thread
  /\ IF m \in Scheduled THEN Go(w, "confirm") /\ UNCHANGED job
                        ELSE Return(w, m)
  /\ UNCHANGED <<userVars, message, row, nextRows, histVars>>

\* The message is gone, or the database does not answer.
RecordFails(w, m) ==
  /\ At(w, m, "record")
  /\ DeliveryThrows(w, m)
  /\ faults' = [faults EXCEPT ![m] = @ + 1]
  /\ UNCHANGED <<userVars, storeVars, copies, hiccup, skipped>>

\* Back in ScheduledMessagesProcessor: re-read the message.
ConfirmDelivery(w, m) ==
  /\ At(w, m, "confirm")
  /\ IF message[m].stored = "present" /\ Recorded(m) THEN Go(w, "status")
                                                     ELSE Go(w, "catch")
  /\ UNCHANGED <<userVars, storeVars, job, histVars>>

\* Move the thread, if it still exists, to the status the user asked for, if
\* any; the update may fail.
SetThreadStatus(w, m) ==
  /\ At(w, m, "status")
  /\ \/ /\ message[m].stored = "present"
        /\ thread' = [thread EXCEPT ![m].statusAfterSend = TRUE]
        /\ Go(w, "markSent")
     \/ Go(w, "markSent") /\ UNCHANGED thread
     \/ Go(w, "catch") /\ UNCHANGED thread
  /\ UNCHANGED <<userVars, message, row, nextRows, job, histVars>>

MarkSent(w, m) ==
  /\ At(w, m, "markSent")
  /\ \/ /\ RowExists(m)
        /\ row' = [row EXCEPT ![m].status = "sent"]
        /\ IF m \in Recurring THEN Go(w, "recur") /\ UNCHANGED job
                              ELSE Return(w, m)
        /\ UNCHANGED hiccup
     \/ /\ Go(w, "catch")
        /\ hiccup' = [hiccup EXCEPT ![m] = @ \/ RowExists(m)]
        /\ UNCHANGED <<row, job>>
  /\ UNCHANGED <<userVars, message, thread, nextRows, copies, faults, skipped>>

\* The row of the next run of a recurring mail: it is stored, nothing is
\* enqueued for it.
InsertNextRow(w, m) ==
  /\ At(w, m, "recur")
  /\ \/ /\ message[m].stored = "present"
        /\ nextRows' = [nextRows EXCEPT ![m] = @ + 1]
        /\ Return(w, m)
        /\ UNCHANGED hiccup
     \/ /\ Go(w, "catch")
        /\ hiccup' = [hiccup EXCEPT ![m] = @ \/ message[m].stored = "present"]
        /\ UNCHANGED <<nextRows, job>>
  /\ UNCHANGED <<userVars, message, thread, row, copies, faults, skipped>>

RetriesNotCounted(w) == worker[w].retryCount

RetriesCountedTwice(w) == worker[w].retryCount + 2

RetriesCountedDown(w) == worker[w].retryCount - 1

Retries(w) == worker[w].retryCount + 1

\* The catch block: count the failure from what was read at the start, then
\* rethrow.  Its own write may fail too.
CatchFailure(w, m) ==
  LET retries == Retries(w)
  IN /\ At(w, m, "catch")
     /\ Throw(w, m)
     /\ \/ /\ RowExists(m)
           /\ row' = [row EXCEPT ![m] =
                [status |-> IF retries >= MaxRetries THEN "failed" ELSE "pending",
                 retryCount |-> retries]]
           /\ UNCHANGED hiccup
        \/ /\ hiccup' = [hiccup EXCEPT ![m] = @ \/ RowExists(m)]
           /\ UNCHANGED row
     /\ UNCHANGED <<userVars, message, thread, nextRows, copies, faults, skipped>>

Deliver(w, m) ==
  \/ ReadRow(w, m)
  \/ MarkProcessing(w, m)
  \/ BeginDelivery(w, m)
  \/ ProviderAccepts(w, m)
  \/ ProviderRejects(w, m)
  \/ AnswerLost(w, m)
  \/ RecordDelivery(w, m)
  \/ AnswerThread(w, m)
  \/ RecordFails(w, m)
  \/ ConfirmDelivery(w, m)
  \/ SetThreadStatus(w, m)
  \/ MarkSent(w, m)
  \/ InsertNextRow(w, m)
  \/ CatchFailure(w, m)

UserStep(m) ==
  \/ Compose(m)
  \/ InsertRow(m)
  \/ Enqueue(m)
  \/ RequestFails(m)
  \/ CancelRead(m)
  \/ CancelWrite(m)
  \/ DeleteThread(m)

QueueStep(m) ==
  \/ BecomeDue(m)
  \/ Promote(m)
  \/ RecoverStalled(m)
  \/ LoseLock(m)

Next ==
  \/ \E m \in Messages : UserStep(m) \/ QueueStep(m)
  \/ \E w \in Workers, m \in Messages :
       SkipByKillSwitch(w, m) \/ Take(w, m) \/ Deliver(w, m)
  \/ ToggleKillSwitch
  \/ Crash

Spec == Init /\ [][Next]_vars

\* The clock runs, BullMQ promotes, hands out and recovers jobs, and a
\* processor that is not killed goes on; users owe nothing.
Fairness ==
  /\ \A m \in Messages : /\ WF_vars(BecomeDue(m))
                         /\ WF_vars(Promote(m))
                         /\ WF_vars(RecoverStalled(m))
  /\ \A m \in Messages :
       WF_vars(\E w \in Workers : SkipByKillSwitch(w, m) \/ Take(w, m))
  /\ \A w \in Workers : WF_vars(\E m \in Messages : Deliver(w, m))

FairSpec == Spec /\ Fairness
(***************************************************************************)
(* Properties                                                               *)
(***************************************************************************)
\* The provider accepts one copy of a mail, and one more for every run whose
\* outcome was lost (a lock that expired, an answer or a write that did not
\* arrive): retries, cancellations, kill switches and deletions never add a
\* copy.  This is what the check `already delivered' in deliverQueuedMessage
\* and the job lock are for.
BoundedCopies == \A m \in Messages : copies[m] <= 1 + faults[m]

\* Whatever the system reports as done was done: a row says 'sent', a thread
\* moves to its status after sending or counts as answered, and the next run
\* of a recurring mail exists, only when the provider accepted the mail and
\* its id is stored.
ReportsAreTrue ==
  \A m \in Messages :
    \/ row[m].status = "sent"
    \/ thread[m].statusAfterSend
    \/ thread[m].firstResponse
    \/ nextRows[m] > 0
    => copies[m] > 0 /\ Recorded(m)

\* What the user sees of a mail whose job has ended.
HasOutcome(m) ==
  Finished(job[m]) /\ faults[m] = 0 /\ ~hiccup[m] /\ ~skipped[m]
  => IF m \in Scheduled
       THEN row[m].status \in {"sent", "failed", "cancelled", "deleted"}
       ELSE \/ job[m].state = "failed"
            \/ message[m].messageId

\* When the job of a mail has ended and nothing broke on the way, the mail has
\* an outcome the user can see: a scheduled row is not left 'pending' or
\* 'processing', an immediate mail is not left unsent by a job that completed.
\* The retry count of the row and the attempts of the job are counted in two
\* places; this says that they run out together.
NothingStranded == \A m \in Messages : HasOutcome(m)

\* 'sent' and 'failed' are final as long as no lock was lost and no write
\* failed: only a cancel that was already under way, or the deletion of the
\* thread, still changes the row.
FinalRows ==
  [][\A m \in Messages :
       row[m].status \in {"sent", "failed"} /\ faults[m] = 0 /\ ~hiccup[m]
       => row'[m].status \in {row[m].status, "cancelled", "deleted"}]_vars

InFlight(m) == \E w \in Workers : worker[w].msg = m /\ worker[w].pc # "readRow"

\* A cancellation that finds no processor already past its check of the row is
\* effective: the mail is never handed to the provider and the row stays
\* cancelled.
CancelIsEffective ==
  [][\A m \in Messages :
       row[m].status = "cancelled" /\ ~InFlight(m)
       => /\ copies'[m] = copies[m]
          /\ row'[m].status \in {"cancelled", "deleted"}
          /\ ~InFlight(m)']_vars

\* What the error message of ScheduledMessagesService.cancel promises: only a
\* pending message is ever cancelled.
OnlyPendingIsCancelled ==
  [][\A m \in Messages :
       row'[m].status = "cancelled" /\ row[m].status # "cancelled"
       => row[m].status = "pending"]_vars

\* What the rrule field is documented for: the next run that is stored for a
\* recurring mail goes out too, unless its thread is deleted or mails are
\* switched off.
RecurringGoesOutAgain ==
  \A m \in Recurring :
    nextRows[m] > 0
    ~> copies[m] > 1 \/ message[m].stored = "deleted" \/ killSwitch

(***************************************************************************)
(* The inductive invariant of the proofs                                    *)
(***************************************************************************)
\* No run that starts now can send m again.
NoMoreCopies(m) == message[m].stored = "deleted" \/ Recorded(m)

\* Runs that may still send a copy, or hand the job back so that another can.
OpenRuns(m) ==
  {w \in Workers : /\ worker[w].msg = m
                   /\ \/ worker[w].pc = "send"
                      \/ /\ worker[w].pc \in {"readRow", "mark", "deliver", "catch"}
                         /\ ~NoMoreCopies(m)}

\* A run that has not started.
NextRun(m) ==
  IF job[m].state \in {"none", "delayed", "waiting"} /\ ~NoMoreCopies(m)
    THEN 1 ELSE 0

CopiesAccounted ==
  \A m \in Messages :
    copies[m] + Cardinality(OpenRuns(m)) + NextRun(m) <= 1 + faults[m]

LockMeansActive ==
  \A m \in Messages : job[m].owner # NoWorker => job[m].state = "active"

NewIsUntouched ==
  \A m \in Messages :
    request[m] = "none" => /\ message[m].stored = "none"
                           /\ ~message[m].messageId
                           /\ row[m].status = "none"
                           /\ ~thread[m].statusAfterSend
                           /\ ~thread[m].firstResponse
                           /\ nextRows[m] = 0

NotQueuedYet ==
  \A m \in Messages :
    request[m] # "done" => /\ job[m] = NoJob
                           /\ \A w \in Workers : worker[w].msg # m

WorkIsQueued ==
  \A w \in Workers, m \in Messages :
    worker[w].msg = m => job[m].state # "none"

ProcessorsKnow ==
  \A w \in Workers, m \in Messages :
    worker[w].msg = m =>
      /\ worker[w].pc = "record" => copies[m] > 0
      /\ worker[w].pc \in {"respond", "confirm", "status", "markSent", "recur"}
           => Recorded(m)

RecordedWasSent == \A m \in Messages : message[m].messageId => copies[m] > 0

IInv ==
  /\ TypeOK
  /\ LockMeansActive
  /\ NewIsUntouched
  /\ NotQueuedYet
  /\ WorkIsQueued
  /\ ProcessorsKnow
  /\ RecordedWasSent
  /\ ReportsAreTrue
  /\ CopiesAccounted

(***************************************************************************)
(* What is known of a mail's outcome: the invariant behind NothingStranded  *)
(* and FinalRows, one mail at a time                                        *)
(***************************************************************************)
Unharmed(m) == faults[m] = 0 /\ ~hiccup[m]

RunsOn(m) == {w \in Workers : worker[w].msg = m}

\* Only a lost lock parts a processor from its job.
RunOwnsJob(m) == faults[m] = 0 => \A w \in RunsOn(m) : job[m].owner = w

ScheduledSteps == {"readRow", "mark", "confirm", "status", "markSent", "recur", "catch"}

RunFits(m) == \A w \in RunsOn(m) : worker[w].pc \in ScheduledSteps => m \in Scheduled

ReadyIsDue(m) ==
  m \in Scheduled /\ job[m].state \notin {"none", "delayed"} => due[m]

\* A row comes with the request and goes with the message.
RowFollows(m) ==
  /\ row[m].status # "none" =>
       m \in Scheduled /\ request[m] \notin {"none", "composed"}
  /\ m \in Scheduled /\ request[m] \in {"rowed", "done"} => row[m].status # "none"
  /\ request[m] # "none" => message[m].stored # "none"
  /\ message[m].stored = "deleted" => ~RowExists(m)

\* The row and the job count the same failures.
CountsAgree(m) ==
  Unharmed(m) /\ RowExists(m) /\ ~Finished(job[m]) =>
    /\ row[m].retryCount = job[m].attemptsMade
    /\ \A w \in RunsOn(m) :
         worker[w].pc # "readRow" => worker[w].retryCount = row[m].retryCount

\* A row that says 'sent' or 'failed' has no run left that writes it.
EndIsEnd(m) ==
  Unharmed(m) =>
    /\ row[m].status = "failed" => Finished(job[m])
    /\ row[m].status = "sent" => job[m].state \notin {"none", "delayed", "waiting"}
    /\ \A w \in RunsOn(m) :
         /\ row[m].status = "sent" => worker[w].pc = "recur"
         /\ worker[w].pc = "recur" => row[m].status \in {"sent", "cancelled", "deleted"}

Outcome(m) ==
  /\ RunOwnsJob(m) /\ RunFits(m) /\ ReadyIsDue(m) /\ RowFollows(m)
  /\ CountsAgree(m) /\ EndIsEnd(m) /\ HasOutcome(m)

OutcomeInv == \A m \in Messages : Outcome(m)

(***************************************************************************)
(* The abstract specification                                               *)
(***************************************************************************)
RequestPhase(m) ==
  IF request[m] = "none" THEN "new"
  ELSE IF request[m] = "lost" THEN "abandoned"
  ELSE "accepted"

Phase(m) ==
  IF job[m].state = "none" THEN RequestPhase(m)
  ELSE IF Finished(job[m]) THEN "closed"
  ELSE "queued"

Outbox == INSTANCE Outbox WITH phase <- [m \in Messages |-> Phase(m)],
                               lost <- faults

\* The queues, rows and processors implement the outbox: every step is a step
\* of it or changes nothing it can see.
ImplementsOutbox == Outbox!Spec

\* With the fairness of the queues, its progress too.
ImplementsFairOutbox == Outbox!FairSpec
=============================================================================
