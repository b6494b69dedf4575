----------------------- MODULE OutboundDeliveryProofs -----------------------
(***************************************************************************)
(* Theorems about OutboundDelivery, for any number of mails, processors,    *)
(* attempts and stalls: how many copies of a mail leave, that reports are   *)
(* true, that Outbox is implemented, and what becomes of a mail (nothing is *)
(* stranded, final rows stay final, a cancellation is effective).           *)
(***************************************************************************)
EXTENDS OutboundDelivery, FiniteSetTheorems, TLAPS

(***************************************************************************)
(* Jobs                                                                     *)
(***************************************************************************)
\* The queue operators produce jobs from jobs.
LEMMA JobsTyped ==
  ASSUME NEW j \in Jobs, NEW w \in Workers, NEW d \in BOOLEAN
  PROVE  /\ NoJob \in Jobs
         /\ Added(d) \in Jobs
         /\ Promoted(j) \in Jobs
         /\ Taken(j, w) \in Jobs
         /\ Completed(j, w) \in Jobs
         /\ AttemptFailed(j, w) \in Jobs
         /\ Stalled(j) \in Jobs
<1> USE QueueAssumption DEF Jobs, JobStates
<1>1. NoJob \in Jobs
  BY DEF NoJob
<1>2. Added(d) \in Jobs
  BY DEF NoJob, Added
<1>3. Promoted(j) \in Jobs /\ Taken(j, w) \in Jobs
  BY DEF Promoted, Taken
<1>4. Completed(j, w) \in Jobs
  BY DEF Completed
<1>5. AttemptFailed(j, w) \in Jobs
  <2>1. j.attemptsMade + 1 \in Nat
    OBVIOUS
  <2> QED BY <2>1 DEF AttemptFailed
<1>6. Stalled(j) \in Jobs
  <2>1. j.stalled + 1 \in Nat
    OBVIOUS
  <2> QED BY <2>1 DEF Stalled
<1> QED BY <1>1, <1>2, <1>3, <1>4, <1>5, <1>6

(***************************************************************************)
(* Types                                                                    *)
(***************************************************************************)
LEMMA InitTypeOK == Init => TypeOK
<1> SUFFICES ASSUME Init
             PROVE  TypeOK
  OBVIOUS
<1>1. Idle \in WorkerState
  BY DEF Idle, WorkerState, Steps
<1>2. NoJob \in Jobs
  BY DEF NoJob, Jobs, JobStates
<1>3. [status |-> "none", retryCount |-> 0] \in ScheduledRow
  BY DEF ScheduledRow, RowStates
<1>4. [stored |-> "none", isDraft |-> FALSE, messageId |-> FALSE] \in MessageRow
  BY DEF MessageRow
<1>5. [firstResponse |-> FALSE, statusAfterSend |-> FALSE] \in ThreadFields
  BY DEF ThreadFields
<1> QED BY <1>1, <1>2, <1>3, <1>4, <1>5, DeliveryAssumption DEF Init, TypeOK

\* The records the actions write keep their types.
LEMMA WorkerTyped ==
  ASSUME TypeOK, NEW w \in Workers
  PROVE  /\ Idle \in WorkerState
         /\ \A step \in Steps : [worker[w] EXCEPT !.pc = step] \in WorkerState
         /\ \A n \in Nat : [worker[w] EXCEPT !.pc = "mark", !.retryCount = n]
                            \in WorkerState
         /\ worker[w].retryCount + 1 \in Nat
<1>1. worker[w] \in WorkerState
  BY DEF TypeOK
<1>2. Idle \in WorkerState
  BY DEF Idle, WorkerState, Steps
<1>3. \A step \in Steps : [worker[w] EXCEPT !.pc = step] \in WorkerState
  BY <1>1 DEF WorkerState
<1>4. ASSUME NEW n \in Nat
      PROVE  [worker[w] EXCEPT !.pc = "mark", !.retryCount = n] \in WorkerState
  BY <1>1 DEF WorkerState, Steps
<1>5. worker[w].retryCount + 1 \in Nat
  BY <1>1 DEF WorkerState
<1> QED BY <1>2, <1>3, <1>4, <1>5

LEMMA RowTyped ==
  ASSUME TypeOK, NEW m \in Messages
  PROVE  /\ \A st \in RowStates : [row[m] EXCEPT !.status = st] \in ScheduledRow
         /\ row[m].status \in RowStates
         /\ row[m].retryCount \in Nat
<1>1. row[m] \in ScheduledRow
  BY DEF TypeOK
<1> QED BY <1>1 DEF ScheduledRow

LEMMA MessageTyped ==
  ASSUME TypeOK, NEW m \in Messages
  PROVE  /\ [message[m] EXCEPT !.stored = "deleted"] \in MessageRow
         /\ [message[m] EXCEPT !.isDraft = FALSE, !.messageId = TRUE] \in MessageRow
         /\ [thread[m] EXCEPT !.firstResponse = TRUE] \in ThreadFields
         /\ [thread[m] EXCEPT !.statusAfterSend = TRUE] \in ThreadFields
<1>1. message[m] \in MessageRow /\ thread[m] \in ThreadFields
  BY DEF TypeOK
<1> QED BY <1>1 DEF MessageRow, ThreadFields

\* A processor that goes on, returns or throws keeps the types.
LEMMA LeaveTyped ==
  ASSUME TypeOK, NEW w \in Workers, NEW m \in Messages
  PROVE  /\ Return(w, m) \/ Throw(w, m) \/ DeliveryThrows(w, m)
              => /\ job' \in [Messages -> Jobs]
                 /\ worker' \in [Workers -> WorkerState]
         /\ \A step \in Steps :
              Go(w, step) => worker' \in [Workers -> WorkerState]
<1>1. job \in [Messages -> Jobs] /\ worker \in [Workers -> WorkerState]
  BY DEF TypeOK
<1>2. Completed(job[m], w) \in Jobs /\ AttemptFailed(job[m], w) \in Jobs
  BY <1>1, JobsTyped
<1>3. \A step \in Steps : Go(w, step) => worker' \in [Workers -> WorkerState]
  BY <1>1, WorkerTyped DEF Go
<1>4. Return(w, m) \/ Throw(w, m)
        => job' \in [Messages -> Jobs] /\ worker' \in [Workers -> WorkerState]
  BY <1>1, <1>2, WorkerTyped DEF Return, Throw
<1>5. DeliveryThrows(w, m)
        => job' \in [Messages -> Jobs] /\ worker' \in [Workers -> WorkerState]
  BY <1>1, <1>3, <1>4 DEF DeliveryThrows, Steps
<1> QED BY <1>3, <1>4, <1>5

\* So do promotion and the stalled check.
LEMMA QueueOpsTyped ==
  ASSUME TypeOK, NEW m \in Messages
  PROVE  Promoted(job[m]) \in Jobs /\ Stalled(job[m]) \in Jobs
<1>1. job[m] \in Jobs
  BY DEF TypeOK
<1>2. Promoted(job[m]) \in Jobs
  BY <1>1 DEF Promoted, Jobs, JobStates
<1>3. Stalled(job[m]) \in Jobs
  <2>1. job[m].stalled + 1 \in Nat
    BY <1>1 DEF Jobs
  <2> QED BY <1>1, <2>1, QueueAssumption DEF Stalled, Jobs, JobStates
<1> QED BY <1>2, <1>3

\* A restart leaves typed flags and processors.
LEMMA CrashTyped == BootKill \in BOOLEAN /\ Idle \in WorkerState
  BY DeliveryAssumption DEF Idle, WorkerState, Steps

LEMMA NextTypeOK == TypeOK /\ [Next]_vars => TypeOK'
<1> SUFFICES ASSUME TypeOK, [Next]_vars
             PROVE  TypeOK'
  OBVIOUS
<1>1. ASSUME NEW m \in Messages, UserStep(m)
      PROVE  TypeOK'
  <2>1. CASE Compose(m)
    BY <2>1 DEF Compose, TypeOK, userVars, storeVars, histVars, MessageRow
  <2>2. CASE InsertRow(m)
    <3>1. [status |-> "pending", retryCount |-> 0] \in ScheduledRow
      BY DEF ScheduledRow, RowStates
    <3> QED BY <2>2, <3>1 DEF InsertRow, TypeOK, histVars
  <2>3. CASE Enqueue(m)
    <3>1. (m \in Scheduled /\ ~due[m]) \in BOOLEAN
      OBVIOUS
    <3>2. Added(m \in Scheduled /\ ~due[m]) \in Jobs
      BY <3>1, QueueAssumption DEF Added, NoJob, Jobs, JobStates
    <3> QED BY <2>3, <3>2 DEF Enqueue, TypeOK, storeVars, histVars
  <2>4. CASE CancelRead(m)
    BY <2>4 DEF CancelRead, TypeOK, userVars, storeVars, histVars
  <2>5. CASE CancelWrite(m)
    BY <2>5, RowTyped DEF CancelWrite, TypeOK, histVars, RowStates
  <2>6. CASE DeleteThread(m)
    BY <2>6, RowTyped, MessageTyped DEF DeleteThread, TypeOK, userVars, histVars, RowStates
  <2>7. CASE RequestFails(m)
    BY <2>7 DEF RequestFails, TypeOK, storeVars, histVars
  <2> QED BY <1>1, <2>1, <2>2, <2>3, <2>4, <2>5, <2>6, <2>7 DEF UserStep
<1>2. ASSUME NEW m \in Messages, QueueStep(m)
      PROVE  TypeOK'
  <2>1. CASE BecomeDue(m)
    BY <2>1 DEF BecomeDue, TypeOK, userVars, storeVars, histVars
  <2>2. CASE Promote(m)
    BY <2>2, QueueOpsTyped DEF Promote, TypeOK, userVars, storeVars, histVars
  <2>3. CASE RecoverStalled(m)
    BY <2>3, QueueOpsTyped DEF RecoverStalled, TypeOK, userVars, storeVars, histVars
  <2>4. CASE LoseLock(m)
    BY <2>4, QueueOpsTyped DEF LoseLock, TypeOK, userVars, storeVars, histVars
  <2> QED BY <1>2, <2>1, <2>2, <2>3, <2>4 DEF QueueStep
<1>3. ASSUME NEW w \in Workers, NEW m \in Messages, SkipByKillSwitch(w, m)
      PROVE  TypeOK'
  <2>1. Completed(Taken(job[m], w), w) \in Jobs
    BY JobsTyped DEF TypeOK
  <2> QED BY <1>3, <2>1 DEF SkipByKillSwitch, TypeOK, userVars, storeVars
<1>4. ASSUME NEW w \in Workers, NEW m \in Messages, Take(w, m)
      PROVE  TypeOK'
  <2>1. Taken(job[m], w) \in Jobs
    BY JobsTyped DEF TypeOK
  <2>2. [pc |-> IF m \in Scheduled THEN "readRow" ELSE "deliver",
         msg |-> m, retryCount |-> 0] \in WorkerState
    BY DEF WorkerState, Steps
  <2> QED BY <1>4, <2>1, <2>2 DEF Take, TypeOK, userVars, storeVars, histVars
<1>5. ASSUME NEW w \in Workers, NEW m \in Messages, Deliver(w, m)
      PROVE  TypeOK'
  <2>0. copies[m] + 1 \in Nat /\ faults[m] + 1 \in Nat /\ nextRows[m] + 1 \in Nat
    BY DEF TypeOK
  <2> USE <2>0, LeaveTyped, WorkerTyped DEF TypeOK, userVars, storeVars, histVars
  <2>1. CASE ReadRow(w, m)
    <3>1. [worker[w] EXCEPT !.pc = "mark", !.retryCount = row[m].retryCount]
            \in WorkerState
      BY RowTyped
    <3>2. worker' \in [Workers -> WorkerState] /\ job' \in [Messages -> Jobs]
      <4>1. CASE Return(w, m)
        BY <4>1
      <4>2. CASE ~Return(w, m)
        <5>1. /\ worker' = [worker EXCEPT ![w] =
                    [worker[w] EXCEPT !.pc = "mark", !.retryCount = row[m].retryCount]]
              /\ UNCHANGED job
          BY <2>1, <4>2 DEF ReadRow
        <5> QED BY <3>1, <5>1
      <4> QED BY <4>1, <4>2
    <3> QED BY <2>1, <3>2 DEF ReadRow
  <2>2. CASE MarkProcessing(w, m)
    <3>1. "deliver" \in Steps /\ "processing" \in RowStates
      BY DEF Steps, RowStates
    <3>2. [row[m] EXCEPT !.status = "processing"] \in ScheduledRow
      BY <3>1, RowTyped
    <3>3. worker' \in [Workers -> WorkerState] /\ job' \in [Messages -> Jobs]
      BY <2>2, <3>1 DEF MarkProcessing
    <3>4. row' \in [Messages -> ScheduledRow]
      BY <2>2, <3>2 DEF MarkProcessing
    <3>5. hiccup' \in [Messages -> BOOLEAN]
      BY <2>2 DEF MarkProcessing
    <3> QED BY <2>2, <3>3, <3>4, <3>5 DEF MarkProcessing
  <2>3. CASE BeginDelivery(w, m)
    BY <2>3 DEF BeginDelivery, Steps
  <2>4. CASE ProviderAccepts(w, m)
    BY <2>4 DEF ProviderAccepts, Steps
  <2>5. CASE ProviderRejects(w, m)
    BY <2>5 DEF ProviderRejects
  <2>6. CASE AnswerLost(w, m)
    BY <2>6 DEF AnswerLost
  <2>7. CASE RecordDelivery(w, m)
    BY <2>7, MessageTyped DEF RecordDelivery, Steps
  <2>8. CASE RecordFails(w, m)
    BY <2>8 DEF RecordFails
  <2>9. CASE ConfirmDelivery(w, m)
    BY <2>9 DEF ConfirmDelivery, Steps
  <2>13. CASE AnswerThread(w, m)
    <3>1. thread' \in [Messages -> ThreadFields]
      BY <2>13, MessageTyped DEF AnswerThread
    <3>2. worker' \in [Workers -> WorkerState] /\ job' \in [Messages -> Jobs]
      BY <2>13 DEF AnswerThread, Steps
    <3> QED BY <2>13, <3>1, <3>2 DEF AnswerThread
  <2>14. CASE SetThreadStatus(w, m)
    <3>1. thread' \in [Messages -> ThreadFields]
      BY <2>14, MessageTyped DEF SetThreadStatus
    <3>2. (Go(w, "markSent") \/ Go(w, "catch")) /\ UNCHANGED job
      BY <2>14 DEF SetThreadStatus
    <3>3. worker' \in [Workers -> WorkerState] /\ job' \in [Messages -> Jobs]
      BY <3>2 DEF Steps
    <3> QED BY <2>14, <3>1, <3>3 DEF SetThreadStatus
  <2>10. CASE MarkSent(w, m)
    <3>1. "recur" \in Steps /\ "catch" \in Steps /\ "sent" \in RowStates
      BY DEF Steps, RowStates
    <3>2. [row[m] EXCEPT !.status = "sent"] \in ScheduledRow
      BY <3>1, RowTyped
    <3>0. \/ Return(w, m)
          \/ Go(w, "recur") /\ UNCHANGED job
          \/ Go(w, "catch") /\ UNCHANGED job
      BY <2>10 DEF MarkSent
    <3>3. worker' \in [Workers -> WorkerState] /\ job' \in [Messages -> Jobs]
      BY <3>0, <3>1
    <3>4. row' \in [Messages -> ScheduledRow]
      BY <2>10, <3>2 DEF MarkSent
    <3>5. hiccup' \in [Messages -> BOOLEAN]
      BY <2>10 DEF MarkSent
    <3> QED BY <2>10, <3>3, <3>4, <3>5 DEF MarkSent
  <2>11. CASE InsertNextRow(w, m)
    <3>1. nextRows' \in [Messages -> Nat] /\ hiccup' \in [Messages -> BOOLEAN]
      BY <2>11 DEF InsertNextRow
    <3>2. worker' \in [Workers -> WorkerState] /\ job' \in [Messages -> Jobs]
      BY <2>11 DEF InsertNextRow, Steps
    <3> QED BY <2>11, <3>1, <3>2 DEF InsertNextRow
  <2>12. CASE CatchFailure(w, m)
    <3> DEFINE retries == worker[w].retryCount + 1
    <3>1. [status |-> IF retries >= MaxRetries THEN "failed" ELSE "pending",
           retryCount |-> retries] \in ScheduledRow
      BY DEF ScheduledRow, RowStates
    <3>2. worker' \in [Workers -> WorkerState] /\ job' \in [Messages -> Jobs]
      BY <2>12 DEF CatchFailure
    <3>3. \/ row' = [row EXCEPT ![m] =
               [status |-> IF retries >= MaxRetries THEN "failed" ELSE "pending",
                retryCount |-> retries]]
          \/ UNCHANGED row
      BY <2>12, Zenon DEF CatchFailure, Retries
    <3> HIDE DEF retries
    <3>4. row' \in [Messages -> ScheduledRow]
      BY <3>1, <3>3
    <3>5. hiccup' \in [Messages -> BOOLEAN]
      BY <2>12 DEF CatchFailure
    <3> QED BY <2>12, <3>2, <3>4, <3>5 DEF CatchFailure
  <2> QED BY <1>5, <2>1, <2>2, <2>3, <2>4, <2>5, <2>6, <2>7, <2>8, <2>9,
             <2>10, <2>11, <2>12, <2>13, <2>14 DEF Deliver
<1>6. CASE ToggleKillSwitch
  BY <1>6 DEF ToggleKillSwitch, TypeOK, storeVars, histVars
<1>7. CASE Crash
  BY <1>7, CrashTyped DEF Crash, TypeOK, storeVars, histVars
<1>8. CASE UNCHANGED vars
  BY <1>8 DEF vars, TypeOK, userVars, storeVars, histVars
<1> QED BY <1>1, <1>2, <1>3, <1>4, <1>5, <1>6, <1>7, <1>8 DEF Next

\* Every variable keeps its type.
THEOREM TypeCorrect == Spec => []TypeOK
  BY InitTypeOK, NextTypeOK, PTL DEF Spec

(***************************************************************************)
(* What is known of a mail                                                  *)
(***************************************************************************)
\* The part of the invariant that counts nothing.
Known ==
  /\ LockMeansActive
  /\ NewIsUntouched
  /\ NotQueuedYet
  /\ WorkIsQueued
  /\ ProcessorsKnow
  /\ RecordedWasSent
  /\ ReportsAreTrue

LEMMA InitKnown == Init => Known
  BY DeliveryAssumption, QueueAssumption
  DEF Init, Known, LockMeansActive, NewIsUntouched, NotQueuedYet, WorkIsQueued,
      ProcessorsKnow,
      RecordedWasSent, ReportsAreTrue, NoJob, Idle, Recorded

\* How a processor leaves a step: it goes on, returns or throws.
Leaves(w, m) ==
  /\ \E r \in WorkerState :
       (worker' = [worker EXCEPT ![w] = r]) /\ (r.msg = m \/ r = Idle)
  /\ \E j \in {job[m], Completed(job[m], w), AttemptFailed(job[m], w)} :
       job' = [job EXCEPT ![m] = j]

LEMMA LeavesEach ==
  ASSUME TypeOK, NEW w \in Workers, NEW m \in Messages, worker[w].msg = m
  PROVE  /\ Return(w, m) \/ Throw(w, m) \/ DeliveryThrows(w, m) => Leaves(w, m)
         /\ \A step \in Steps : Go(w, step) /\ UNCHANGED job => Leaves(w, m)
<1>1. Return(w, m) \/ Throw(w, m) => Leaves(w, m)
  BY WorkerTyped DEF Return, Throw, Leaves
<1>2. ASSUME NEW step \in Steps, Go(w, step), UNCHANGED job
      PROVE  Leaves(w, m)
  <2>1. worker[w] \in WorkerState
    BY DEF TypeOK
  <2>2. [worker[w] EXCEPT !.pc = step] \in WorkerState
    BY WorkerTyped
  <2>3. [worker[w] EXCEPT !.pc = step].msg = m
    BY <2>1 DEF WorkerState
  <2>4. worker' = [worker EXCEPT ![w] = [worker[w] EXCEPT !.pc = step]]
    BY <1>2 DEF Go
  <2>5. job' = [job EXCEPT ![m] = job[m]]
    BY <1>2 DEF TypeOK
  <2> QED BY <2>2, <2>3, <2>4, <2>5 DEF Leaves
<1>3. DeliveryThrows(w, m) => Leaves(w, m)
  BY <1>1, <1>2 DEF DeliveryThrows, Steps
<1> QED BY <1>1, <1>2, <1>3

LEMMA DeliverShape ==
  ASSUME TypeOK, NEW w \in Workers, NEW m \in Messages, Deliver(w, m)
  PROVE  worker[w].msg = m /\ UNCHANGED userVars /\ Leaves(w, m)
<1> USE LeavesEach
<1>1. CASE ReadRow(w, m)
  <2> DEFINE r == [worker[w] EXCEPT !.pc = "mark", !.retryCount = row[m].retryCount]
  <2>1. worker[w] \in WorkerState /\ worker[w].msg = m
    BY <1>1 DEF TypeOK, ReadRow, At
  <2>2. r \in WorkerState
    BY WorkerTyped, RowTyped
  <2>3. r.msg = m
    BY <2>1 DEF WorkerState
  <2>4. job = [job EXCEPT ![m] = job[m]]
    BY DEF TypeOK
  <2> HIDE DEF r
  <2>5. \/ Return(w, m)
        \/ worker' = [worker EXCEPT ![w] = r] /\ UNCHANGED job
    BY <1>1 DEF ReadRow, r
  <2> QED BY <1>1, <2>1, <2>2, <2>3, <2>4, <2>5 DEF ReadRow, Leaves
<1>2. CASE MarkProcessing(w, m)
  BY <1>2 DEF MarkProcessing, At, Steps
<1>3. CASE BeginDelivery(w, m)
  BY <1>3 DEF BeginDelivery, At, Steps
<1>4. CASE ProviderAccepts(w, m)
  BY <1>4 DEF ProviderAccepts, At, Steps
<1>5. CASE ProviderRejects(w, m)
  BY <1>5 DEF ProviderRejects, At, Steps
<1>6. CASE AnswerLost(w, m)
  BY <1>6 DEF AnswerLost, At, Steps
<1>7. CASE RecordDelivery(w, m)
  BY <1>7 DEF RecordDelivery, At, Steps
<1>8. CASE RecordFails(w, m)
  BY <1>8 DEF RecordFails, At, Steps
<1>9. CASE ConfirmDelivery(w, m)
  BY <1>9 DEF ConfirmDelivery, At, Steps
<1>13. CASE AnswerThread(w, m)
  BY <1>13 DEF AnswerThread, At, Steps
<1>14. CASE SetThreadStatus(w, m)
  BY <1>14 DEF SetThreadStatus, At, Steps
<1>10. CASE MarkSent(w, m)
  BY <1>10 DEF MarkSent, At, Steps
<1>11. CASE InsertNextRow(w, m)
  BY <1>11 DEF InsertNextRow, At, Steps
<1>12. CASE CatchFailure(w, m)
  BY <1>12 DEF CatchFailure, At, Steps
<1> QED BY <1>1, <1>2, <1>3, <1>4, <1>5, <1>6, <1>7, <1>8, <1>9, <1>10,
           <1>11, <1>12, <1>13, <1>14 DEF Deliver

\* Leaving a step keeps the lock discipline and touches only queued mails.
LEMMA LeavesKnown ==
  ASSUME TypeOK, Known, NEW w \in Workers, NEW m \in Messages, worker[w].msg = m,
         UNCHANGED userVars, Leaves(w, m)
  PROVE  /\ LockMeansActive' /\ NotQueuedYet' /\ WorkIsQueued'
         /\ request[m] = "done"
         /\ \A v \in Workers : v # w => worker'[v] = worker[v]
         /\ worker'[w].msg \in {m, NoMessage}
<1>1. request[m] = "done" /\ request' = request
  BY DEF Known, NotQueuedYet, userVars
<1>2. PICK r \in WorkerState :
        (worker' = [worker EXCEPT ![w] = r]) /\ (r.msg = m \/ r = Idle)
  BY DEF Leaves
<1>3. PICK j \in {job[m], Completed(job[m], w), AttemptFailed(job[m], w)} :
        job' = [job EXCEPT ![m] = j]
  BY DEF Leaves
<1>4. job[m] \in Jobs /\ job \in [Messages -> Jobs] /\ worker \in [Workers -> WorkerState]
  BY DEF TypeOK
<1>5. j.owner # NoWorker => j.state = "active"
  BY <1>3, <1>4 DEF Known, LockMeansActive, Completed, AttemptFailed, Jobs
<1>6. LockMeansActive'
  BY <1>3, <1>4, <1>5 DEF Known, LockMeansActive
<1>7. worker'[w].msg \in {m, NoMessage}
  <2>1. worker'[w] = r
    BY <1>2, <1>4
  <2>2. Idle.msg = NoMessage
    BY DEF Idle
  <2> QED BY <1>2, <2>1, <2>2
<1>9. \A v \in Workers : v # w => worker'[v] = worker[v]
  BY <1>2, <1>4
<1>8. NotQueuedYet'
  <2> SUFFICES ASSUME NEW n \in Messages, request[n] # "done"
               PROVE  job'[n] = NoJob /\ \A v \in Workers : worker'[v].msg # n
    BY <1>1 DEF NotQueuedYet
  <2>1. n # m /\ n # NoMessage
    BY <1>1, DeliveryAssumption
  <2>2. job'[n] = job[n]
    BY <1>3, <1>4, <2>1
  <2>3. job[n] = NoJob /\ \A v \in Workers : worker[v].msg # n
    BY DEF Known, NotQueuedYet
  <2> QED BY <1>7, <1>9, <2>1, <2>2, <2>3
<1>10. WorkIsQueued'
  <2>1. job[m].state # "none"
    BY DEF Known, WorkIsQueued
  <2>2. j.state # "none"
    BY <1>3, <1>4, <2>1, QueueAssumption DEF Completed, AttemptFailed, Jobs
  <2> SUFFICES ASSUME NEW v \in Workers, NEW n \in Messages, worker'[v].msg = n
               PROVE  job'[n].state # "none"
    BY DEF WorkIsQueued
  <2>3. CASE n = m
    BY <1>3, <1>4, <2>2, <2>3
  <2>4. CASE n # m
    <3>1. worker[v].msg = n
      BY <1>7, <1>9, <2>4, DeliveryAssumption
    <3>2. job'[n] = job[n]
      BY <1>3, <1>4, <2>4
    <3> QED BY <3>1, <3>2 DEF Known, WorkIsQueued
  <2> QED BY <2>3, <2>4
<1> QED BY <1>1, <1>6, <1>7, <1>8, <1>9, <1>10

\* Where a processor is after a step.
LEMMA LeavesTo ==
  ASSUME TypeOK, NEW w \in Workers, NEW m \in Messages
  PROVE  /\ Return(w, m) \/ Throw(w, m) => worker'[w].pc = "idle"
         /\ DeliveryThrows(w, m) => worker'[w].pc \in {"idle", "catch"}
         /\ \A step \in Steps : Go(w, step) => worker'[w].pc = step
<1>1. worker[w] \in WorkerState /\ worker \in [Workers -> WorkerState]
  BY DEF TypeOK
<1>2. Idle.pc = "idle"
  BY DEF Idle
<1>3. Return(w, m) \/ Throw(w, m) => worker'[w].pc = "idle"
  BY <1>1, <1>2 DEF Return, Throw
<1>4. \A step \in Steps : Go(w, step) => worker'[w].pc = step
  BY <1>1 DEF Go, WorkerState
<1>5. DeliveryThrows(w, m) => worker'[w].pc \in {"idle", "catch"}
  BY <1>3, <1>4 DEF DeliveryThrows, Steps
<1> QED BY <1>3, <1>4, <1>5

\* What the processors know survives a step of one of them.
LEMMA ProcessorsStep ==
  ASSUME ProcessorsKnow, NEW w \in Workers, NEW m \in Messages, worker[w].msg = m,
         \A v \in Workers : v # w => worker'[v] = worker[v],
         worker'[w].msg \in {m, NoMessage},
         \A n \in Messages : Recorded(n) => Recorded(n)',
         \A n \in Messages : copies[n] > 0 => copies'[n] > 0,
         worker'[w].pc = "record" => copies'[m] > 0,
         worker'[w].pc \in {"respond", "confirm", "status", "markSent", "recur"} => Recorded(m)'
  PROVE  ProcessorsKnow'
<1> SUFFICES ASSUME NEW v \in Workers, NEW n \in Messages, worker'[v].msg = n
             PROVE  /\ worker'[v].pc = "record" => copies'[n] > 0
                    /\ worker'[v].pc \in {"respond", "confirm", "status", "markSent", "recur"}
                         => Recorded(n)'
  BY DEF ProcessorsKnow
<1>1. CASE v = w
  BY <1>1, DeliveryAssumption
<1>2. CASE v # w
  <2>1. worker'[v] = worker[v] /\ worker[v].msg = n
    BY <1>2
  <2>2. /\ worker[v].pc = "record" => copies[n] > 0
        /\ worker[v].pc \in {"respond", "confirm", "status", "markSent", "recur"} => Recorded(n)
    BY <2>1 DEF ProcessorsKnow
  <2> QED BY <2>1, <2>2
<1> QED BY <1>1, <1>2

LEMMA NextKnown == TypeOK /\ Known /\ [Next]_vars => Known'
<1> SUFFICES ASSUME TypeOK, Known, [Next]_vars
             PROVE  Known'
  OBVIOUS
<1> USE DEF Known, LockMeansActive, NewIsUntouched, NotQueuedYet, WorkIsQueued, ProcessorsKnow,
            RecordedWasSent, ReportsAreTrue, Recorded, TypeOK
<1>1. ASSUME NEW m \in Messages, UserStep(m)
      PROVE  Known'
  <2>1. CASE Compose(m)
    BY <2>1 DEF Compose, userVars, storeVars, histVars
  <2>2. CASE InsertRow(m)
    BY <2>2 DEF InsertRow, userVars, storeVars, histVars
  <2>3. CASE Enqueue(m)
    BY <2>3 DEF Enqueue, userVars, storeVars, histVars, Added, NoJob
  <2>4. CASE CancelRead(m)
    BY <2>4 DEF CancelRead, userVars, storeVars, histVars
  <2>5. CASE CancelWrite(m)
    <3>1. \A n \in Messages :
            /\ row'[n].status = "sent" => row[n].status = "sent"
            /\ row[n].status = "none" => row'[n].status = "none"
      BY <2>5 DEF CancelWrite, RowExists, ScheduledRow
    <3> QED BY <2>5, <3>1 DEF CancelWrite, userVars, storeVars, histVars
  <2>6. CASE DeleteThread(m)
    BY <2>6 DEF DeleteThread, userVars, storeVars, histVars
  <2>7. CASE RequestFails(m)
    BY <2>7 DEF RequestFails, storeVars, histVars
  <2> QED BY <1>1, <2>1, <2>2, <2>3, <2>4, <2>5, <2>6, <2>7 DEF UserStep
<1>2. ASSUME NEW m \in Messages, QueueStep(m)
      PROVE  Known'
  <2>1. CASE BecomeDue(m)
    BY <2>1 DEF BecomeDue, userVars, storeVars, histVars, Promoted, Stalled, NoJob
  <2>2. CASE Promote(m)
    BY <2>2 DEF Promote, userVars, storeVars, histVars, Promoted, Stalled, NoJob
  <2>3. CASE RecoverStalled(m)
    BY <2>3 DEF RecoverStalled, userVars, storeVars, histVars, Promoted, Stalled, NoJob
  <2>4. CASE LoseLock(m)
    BY <2>4 DEF LoseLock, userVars, storeVars, histVars, Promoted, Stalled, NoJob
  <2> QED BY <1>2, <2>1, <2>2, <2>3, <2>4 DEF QueueStep
<1>3. ASSUME NEW w \in Workers, NEW m \in Messages, SkipByKillSwitch(w, m)
      PROVE  Known'
  BY <1>3 DEF SkipByKillSwitch, userVars, storeVars, Completed, Taken, NoJob
<1>4. ASSUME NEW w \in Workers, NEW m \in Messages, Take(w, m)
      PROVE  Known'
  BY <1>4 DEF Take, userVars, storeVars, histVars, Taken, NoJob
<1>5. ASSUME NEW w \in Workers, NEW m \in Messages, Deliver(w, m)
      PROVE  Known'
  <2>0. /\ worker[w].msg = m
        /\ request' = request
        /\ request[m] = "done"
        /\ LockMeansActive' /\ NotQueuedYet' /\ WorkIsQueued'
        /\ \A v \in Workers : v # w => worker'[v] = worker[v]
        /\ worker'[w].msg \in {m, NoMessage}
    BY <1>5, DeliverShape, LeavesKnown DEF userVars
  <2> HIDE DEF LockMeansActive, NotQueuedYet, WorkIsQueued, Known
  <2>a. NewIsUntouched /\ ProcessorsKnow /\ RecordedWasSent /\ ReportsAreTrue
    BY DEF Known
  <2>b. NewIsUntouched' /\ ProcessorsKnow' /\ RecordedWasSent' /\ ReportsAreTrue'
        => Known'
    BY <2>0 DEF Known
  <2>c. /\ Return(w, m) \/ Throw(w, m) => worker'[w].pc = "idle"
        /\ DeliveryThrows(w, m) => worker'[w].pc \in {"idle", "catch"}
        /\ \A step \in Steps : Go(w, step) => worker'[w].pc = step
    BY LeavesTo
  <2>d. m # NoMessage
    BY DeliveryAssumption
  <2> USE <2>0, <2>a, <2>d
  <2>1. CASE ReadRow(w, m)
    <3>1. worker'[w].pc \in {"idle", "mark"}
      BY <2>1, <2>c DEF ReadRow, Steps, WorkerState
    <3>2. NewIsUntouched'
      BY <2>1 DEF ReadRow, userVars, storeVars, histVars
    <3>3. RecordedWasSent'
      BY <2>1 DEF ReadRow, At, userVars, storeVars, histVars
    <3>4. ReportsAreTrue'
      BY <2>1 DEF ReadRow, At, userVars, storeVars, histVars
    <3>5. \A n \in Messages : copies[n] > 0 => copies'[n] > 0
      BY <2>1 DEF ReadRow, storeVars, histVars
    <3>6. \A n \in Messages : Recorded(n) => Recorded(n)'
      BY <2>1 DEF ReadRow, storeVars, histVars
    <3>7. /\ worker'[w].pc = "record" => copies'[m] > 0
          /\ worker'[w].pc \in {"respond", "confirm", "status", "markSent", "recur"} => Recorded(m)'
      BY <2>1, <3>1 DEF ReadRow, At, storeVars, histVars
    <3>8. ProcessorsKnow'
      BY <3>5, <3>6, <3>7, ProcessorsStep DEF Recorded
    <3> QED BY <2>b, <3>2, <3>3, <3>4, <3>8
  <2>2. CASE MarkProcessing(w, m)
    <3>1. worker'[w].pc \in {"idle", "deliver"}
      BY <2>2, <2>c DEF MarkProcessing, Steps
    <3>2. NewIsUntouched'
      BY <2>2 DEF MarkProcessing, userVars, storeVars, histVars
    <3>3. RecordedWasSent'
      BY <2>2 DEF MarkProcessing, At, userVars, storeVars, histVars
    <3>9. \A n \in Messages : row'[n].status = "sent" => row[n].status = "sent"
      <4>1. row \in [Messages -> ScheduledRow]
        OBVIOUS
      <4>2. \A n \in Messages : n # m => row'[n] = row[n]
        BY <2>2, <4>1 DEF MarkProcessing
      <4>3. row'[m].status = "processing" \/ row'[m] = row[m]
        BY <2>2, <4>1 DEF MarkProcessing, ScheduledRow
      <4> QED BY <4>2, <4>3
    <3>4. ReportsAreTrue'
      BY <2>2, <3>9 DEF MarkProcessing, At, userVars, storeVars, histVars
    <3>5. \A n \in Messages : copies[n] > 0 => copies'[n] > 0
      BY <2>2 DEF MarkProcessing, storeVars, histVars
    <3>6. \A n \in Messages : Recorded(n) => Recorded(n)'
      BY <2>2 DEF MarkProcessing, storeVars, histVars
    <3>7. /\ worker'[w].pc = "record" => copies'[m] > 0
          /\ worker'[w].pc \in {"respond", "confirm", "status", "markSent", "recur"} => Recorded(m)'
      BY <2>2, <3>1 DEF MarkProcessing, At, storeVars, histVars
    <3>8. ProcessorsKnow'
      BY <3>5, <3>6, <3>7, ProcessorsStep DEF Recorded
    <3> QED BY <2>b, <3>2, <3>3, <3>4, <3>8
  <2>3. CASE BeginDelivery(w, m)
    <3>1. worker'[w].pc \in {"idle", "catch", "confirm", "send"}
      BY <2>3, <2>c DEF BeginDelivery, Steps
    <3>2. NewIsUntouched'
      BY <2>3 DEF BeginDelivery, userVars, storeVars, histVars
    <3>3. RecordedWasSent'
      BY <2>3 DEF BeginDelivery, At, userVars, storeVars, histVars
    <3>9. worker'[w].pc = "confirm" => Recorded(m)
      BY <2>3, <2>c DEF BeginDelivery, AlreadyDelivered, Steps
    <3>4. ReportsAreTrue'
      BY <2>3 DEF BeginDelivery, At, userVars, storeVars, histVars
    <3>5. \A n \in Messages : copies[n] > 0 => copies'[n] > 0
      BY <2>3 DEF BeginDelivery, storeVars, histVars
    <3>6. \A n \in Messages : Recorded(n) => Recorded(n)'
      BY <2>3 DEF BeginDelivery, storeVars, histVars
    <3>7. /\ worker'[w].pc = "record" => copies'[m] > 0
          /\ worker'[w].pc \in {"respond", "confirm", "status", "markSent", "recur"} => Recorded(m)'
      BY <2>3, <3>1, <3>9 DEF BeginDelivery, At, storeVars, histVars
    <3>8. ProcessorsKnow'
      BY <3>5, <3>6, <3>7, ProcessorsStep DEF Recorded
    <3> QED BY <2>b, <3>2, <3>3, <3>4, <3>8
  <2>4. CASE ProviderAccepts(w, m)
    <3>1. worker'[w].pc \in {"record"}
      BY <2>4, <2>c DEF ProviderAccepts, Steps
    <3>2. NewIsUntouched'
      BY <2>4 DEF ProviderAccepts, userVars, storeVars, histVars
    <3>3. RecordedWasSent'
      BY <2>4 DEF ProviderAccepts, At, userVars, storeVars, histVars
    <3>4. ReportsAreTrue'
      BY <2>4 DEF ProviderAccepts, At, userVars, storeVars, histVars
    <3>5. \A n \in Messages : copies[n] > 0 => copies'[n] > 0
      BY <2>4 DEF ProviderAccepts, storeVars, histVars
    <3>6. \A n \in Messages : Recorded(n) => Recorded(n)'
      BY <2>4 DEF ProviderAccepts, storeVars, histVars
    <3>7. /\ worker'[w].pc = "record" => copies'[m] > 0
          /\ worker'[w].pc \in {"respond", "confirm", "status", "markSent", "recur"} => Recorded(m)'
      BY <2>4, <3>1 DEF ProviderAccepts, At, storeVars, histVars
    <3>8. ProcessorsKnow'
      BY <3>5, <3>6, <3>7, ProcessorsStep DEF Recorded
    <3> QED BY <2>b, <3>2, <3>3, <3>4, <3>8
  <2>5. CASE ProviderRejects(w, m)
    <3>1. worker'[w].pc \in {"idle", "catch"}
      BY <2>5, <2>c DEF ProviderRejects, Steps
    <3>2. NewIsUntouched'
      BY <2>5 DEF ProviderRejects, userVars, storeVars, histVars
    <3>3. RecordedWasSent'
      BY <2>5 DEF ProviderRejects, At, userVars, storeVars, histVars
    <3>4. ReportsAreTrue'
      BY <2>5 DEF ProviderRejects, At, userVars, storeVars, histVars
    <3>5. \A n \in Messages : copies[n] > 0 => copies'[n] > 0
      BY <2>5 DEF ProviderRejects, storeVars, histVars
    <3>6. \A n \in Messages : Recorded(n) => Recorded(n)'
      BY <2>5 DEF ProviderRejects, storeVars, histVars
    <3>7. /\ worker'[w].pc = "record" => copies'[m] > 0
          /\ worker'[w].pc \in {"respond", "confirm", "status", "markSent", "recur"} => Recorded(m)'
      BY <2>5, <3>1 DEF ProviderRejects, At, storeVars, histVars
    <3>8. ProcessorsKnow'
      BY <3>5, <3>6, <3>7, ProcessorsStep DEF Recorded
    <3> QED BY <2>b, <3>2, <3>3, <3>4, <3>8
  <2>6. CASE AnswerLost(w, m)
    <3>1. worker'[w].pc \in {"idle", "catch"}
      BY <2>6, <2>c DEF AnswerLost, Steps
    <3>2. NewIsUntouched'
      BY <2>6 DEF AnswerLost, userVars, storeVars, histVars
    <3>3. RecordedWasSent'
      BY <2>6 DEF AnswerLost, At, userVars, storeVars, histVars
    <3>4. ReportsAreTrue'
      BY <2>6 DEF AnswerLost, At, userVars, storeVars, histVars
    <3>5. \A n \in Messages : copies[n] > 0 => copies'[n] > 0
      BY <2>6 DEF AnswerLost, storeVars, histVars
    <3>6. \A n \in Messages : Recorded(n) => Recorded(n)'
      BY <2>6 DEF AnswerLost, storeVars, histVars
    <3>7. /\ worker'[w].pc = "record" => copies'[m] > 0
          /\ worker'[w].pc \in {"respond", "confirm", "status", "markSent", "recur"} => Recorded(m)'
      BY <2>6, <3>1 DEF AnswerLost, At, storeVars, histVars
    <3>8. ProcessorsKnow'
      BY <3>5, <3>6, <3>7, ProcessorsStep DEF Recorded
    <3> QED BY <2>b, <3>2, <3>3, <3>4, <3>8
  <2>7. CASE RecordDelivery(w, m)
    <3>1. worker'[w].pc = "respond"
      BY <2>7, <2>c DEF RecordDelivery, Steps
    <3>2. NewIsUntouched'
      BY <2>7 DEF RecordDelivery, userVars, storeVars, histVars
    <3>3. RecordedWasSent'
      BY <2>7 DEF RecordDelivery, At, userVars, storeVars, histVars
    <3>4. ReportsAreTrue'
      BY <2>7 DEF RecordDelivery, At, userVars, storeVars, histVars
    <3>5. \A n \in Messages : copies[n] > 0 => copies'[n] > 0
      BY <2>7 DEF RecordDelivery, storeVars, histVars
    <3>6. \A n \in Messages : Recorded(n) => Recorded(n)'
      BY <2>7 DEF RecordDelivery, storeVars, histVars
    <3>7. /\ worker'[w].pc = "record" => copies'[m] > 0
          /\ worker'[w].pc \in {"respond", "confirm", "status", "markSent", "recur"} => Recorded(m)'
      BY <2>7, <3>1 DEF RecordDelivery, At, storeVars, histVars
    <3>8. ProcessorsKnow'
      BY <3>5, <3>6, <3>7, ProcessorsStep DEF Recorded
    <3> QED BY <2>b, <3>2, <3>3, <3>4, <3>8
  <2>8. CASE RecordFails(w, m)
    <3>1. worker'[w].pc \in {"idle", "catch"}
      BY <2>8, <2>c DEF RecordFails, Steps
    <3>2. NewIsUntouched'
      BY <2>8 DEF RecordFails, userVars, storeVars, histVars
    <3>3. RecordedWasSent'
      BY <2>8 DEF RecordFails, At, userVars, storeVars, histVars
    <3>4. ReportsAreTrue'
      BY <2>8 DEF RecordFails, At, userVars, storeVars, histVars
    <3>5. \A n \in Messages : copies[n] > 0 => copies'[n] > 0
      BY <2>8 DEF RecordFails, storeVars, histVars
    <3>6. \A n \in Messages : Recorded(n) => Recorded(n)'
      BY <2>8 DEF RecordFails, storeVars, histVars
    <3>7. /\ worker'[w].pc = "record" => copies'[m] > 0
          /\ worker'[w].pc \in {"respond", "confirm", "status", "markSent", "recur"} => Recorded(m)'
      BY <2>8, <3>1 DEF RecordFails, At, storeVars, histVars
    <3>8. ProcessorsKnow'
      BY <3>5, <3>6, <3>7, ProcessorsStep DEF Recorded
    <3> QED BY <2>b, <3>2, <3>3, <3>4, <3>8
  <2>9. CASE ConfirmDelivery(w, m)
    <3>1. worker'[w].pc \in {"status", "catch"}
      BY <2>9, <2>c DEF ConfirmDelivery, Steps
    <3>2. NewIsUntouched'
      BY <2>9 DEF ConfirmDelivery, userVars, storeVars, histVars
    <3>3. RecordedWasSent'
      BY <2>9 DEF ConfirmDelivery, At, userVars, storeVars, histVars
    <3>4. ReportsAreTrue'
      BY <2>9 DEF ConfirmDelivery, At, userVars, storeVars, histVars
    <3>5. \A n \in Messages : copies[n] > 0 => copies'[n] > 0
      BY <2>9 DEF ConfirmDelivery, storeVars, histVars
    <3>6. \A n \in Messages : Recorded(n) => Recorded(n)'
      BY <2>9 DEF ConfirmDelivery, storeVars, histVars
    <3>7. /\ worker'[w].pc = "record" => copies'[m] > 0
          /\ worker'[w].pc \in {"respond", "confirm", "status", "markSent", "recur"} => Recorded(m)'
      BY <2>9, <3>1 DEF ConfirmDelivery, At, storeVars, histVars
    <3>8. ProcessorsKnow'
      BY <3>5, <3>6, <3>7, ProcessorsStep DEF Recorded
    <3> QED BY <2>b, <3>2, <3>3, <3>4, <3>8
  <2>13. CASE AnswerThread(w, m)
    <3>1. worker'[w].pc \in {"idle", "confirm"}
      BY <2>13, <2>c DEF AnswerThread, Steps
    <3>2. NewIsUntouched'
      BY <2>13 DEF AnswerThread, userVars, storeVars, histVars
    <3>3. RecordedWasSent'
      BY <2>13 DEF AnswerThread, At, userVars, storeVars, histVars
    <3>4. ReportsAreTrue'
      BY <2>13 DEF AnswerThread, At, userVars, storeVars, histVars
    <3>5. \A n \in Messages : copies[n] > 0 => copies'[n] > 0
      BY <2>13 DEF AnswerThread, storeVars, histVars
    <3>6. \A n \in Messages : Recorded(n) => Recorded(n)'
      BY <2>13 DEF AnswerThread, storeVars, histVars
    <3>7. /\ worker'[w].pc = "record" => copies'[m] > 0
          /\ worker'[w].pc \in {"respond", "confirm", "status", "markSent", "recur"} => Recorded(m)'
      BY <2>13, <3>1 DEF AnswerThread, At, storeVars, histVars
    <3>8. ProcessorsKnow'
      BY <3>5, <3>6, <3>7, ProcessorsStep DEF Recorded
    <3> QED BY <2>b, <3>2, <3>3, <3>4, <3>8
  <2>14. CASE SetThreadStatus(w, m)
    <3>1. worker'[w].pc \in {"markSent", "catch"}
      BY <2>14, <2>c DEF SetThreadStatus, Steps
    <3>2. NewIsUntouched'
      BY <2>14 DEF SetThreadStatus, userVars, storeVars, histVars
    <3>3. RecordedWasSent'
      BY <2>14 DEF SetThreadStatus, At, userVars, storeVars, histVars
    <3>4. ReportsAreTrue'
      BY <2>14 DEF SetThreadStatus, At, userVars, storeVars, histVars
    <3>5. \A n \in Messages : copies[n] > 0 => copies'[n] > 0
      BY <2>14 DEF SetThreadStatus, storeVars, histVars
    <3>6. \A n \in Messages : Recorded(n) => Recorded(n)'
      BY <2>14 DEF SetThreadStatus, storeVars, histVars
    <3>7. /\ worker'[w].pc = "record" => copies'[m] > 0
          /\ worker'[w].pc \in {"respond", "confirm", "status", "markSent", "recur"} => Recorded(m)'
      BY <2>14, <3>1 DEF SetThreadStatus, At, storeVars, histVars
    <3>8. ProcessorsKnow'
      BY <3>5, <3>6, <3>7, ProcessorsStep DEF Recorded
    <3> QED BY <2>b, <3>2, <3>3, <3>4, <3>8
  <2>10. CASE MarkSent(w, m)
    <3>1. worker'[w].pc \in {"idle", "recur", "catch"}
      BY <2>10, <2>c DEF MarkSent, Steps
    <3>2. NewIsUntouched'
      BY <2>10 DEF MarkSent, userVars, storeVars, histVars
    <3>3. RecordedWasSent'
      BY <2>10 DEF MarkSent, At, userVars, storeVars, histVars
    <3>4. ReportsAreTrue'
      BY <2>10 DEF MarkSent, At, userVars, storeVars, histVars
    <3>5. \A n \in Messages : copies[n] > 0 => copies'[n] > 0
      BY <2>10 DEF MarkSent, storeVars, histVars
    <3>6. \A n \in Messages : Recorded(n) => Recorded(n)'
      BY <2>10 DEF MarkSent, storeVars, histVars
    <3>7. /\ worker'[w].pc = "record" => copies'[m] > 0
          /\ worker'[w].pc \in {"respond", "confirm", "status", "markSent", "recur"} => Recorded(m)'
      BY <2>10, <3>1 DEF MarkSent, At, storeVars, histVars
    <3>8. ProcessorsKnow'
      BY <3>5, <3>6, <3>7, ProcessorsStep DEF Recorded
    <3> QED BY <2>b, <3>2, <3>3, <3>4, <3>8
  <2>11. CASE InsertNextRow(w, m)
    <3>1. worker'[w].pc \in {"idle", "catch"}
      BY <2>11, <2>c DEF InsertNextRow, Steps
    <3>2. NewIsUntouched'
      BY <2>11 DEF InsertNextRow, userVars, storeVars, histVars
    <3>3. RecordedWasSent'
      BY <2>11 DEF InsertNextRow, At, userVars, storeVars, histVars
    <3>4. ReportsAreTrue'
      BY <2>11 DEF InsertNextRow, At, userVars, storeVars, histVars
    <3>5. \A n \in Messages : copies[n] > 0 => copies'[n] > 0
      BY <2>11 DEF InsertNextRow, storeVars, histVars
    <3>6. \A n \in Messages : Recorded(n) => Recorded(n)'
      BY <2>11 DEF InsertNextRow, storeVars, histVars
    <3>7. /\ worker'[w].pc = "record" => copies'[m] > 0
          /\ worker'[w].pc \in {"respond", "confirm", "status", "markSent", "recur"} => Recorded(m)'
      BY <2>11, <3>1 DEF InsertNextRow, At, storeVars, histVars
    <3>8. ProcessorsKnow'
      BY <3>5, <3>6, <3>7, ProcessorsStep DEF Recorded
    <3> QED BY <2>b, <3>2, <3>3, <3>4, <3>8
  <2>12. CASE CatchFailure(w, m)
    <3>1. worker'[w].pc \in {"idle"}
      BY <2>12, <2>c DEF CatchFailure, Steps
    <3>2. NewIsUntouched'
      BY <2>12 DEF CatchFailure, userVars, storeVars, histVars
    <3>3. RecordedWasSent'
      BY <2>12 DEF CatchFailure, At, userVars, storeVars, histVars
    <3>4. ReportsAreTrue'
      BY <2>12 DEF CatchFailure, At, userVars, storeVars, histVars
    <3>5. \A n \in Messages : copies[n] > 0 => copies'[n] > 0
      BY <2>12 DEF CatchFailure, storeVars, histVars
    <3>6. \A n \in Messages : Recorded(n) => Recorded(n)'
      BY <2>12 DEF CatchFailure, storeVars, histVars
    <3>7. /\ worker'[w].pc = "record" => copies'[m] > 0
          /\ worker'[w].pc \in {"respond", "confirm", "status", "markSent", "recur"} => Recorded(m)'
      BY <2>12, <3>1 DEF CatchFailure, At, storeVars, histVars
    <3>8. ProcessorsKnow'
      BY <3>5, <3>6, <3>7, ProcessorsStep DEF Recorded
    <3> QED BY <2>b, <3>2, <3>3, <3>4, <3>8
  <2> QED BY <1>5, <2>1, <2>2, <2>3, <2>4, <2>5, <2>6, <2>7, <2>8, <2>9,
             <2>10, <2>11, <2>12, <2>13, <2>14 DEF Deliver
<1>6. CASE ToggleKillSwitch
  BY <1>6 DEF ToggleKillSwitch, storeVars, histVars
<1>7. CASE Crash
  BY <1>7, DeliveryAssumption DEF Crash, storeVars, histVars, Idle
<1>8. CASE UNCHANGED vars
  BY <1>8 DEF vars, userVars, storeVars, histVars
<1> QED BY <1>1, <1>2, <1>3, <1>4, <1>5, <1>6, <1>7, <1>8 DEF Next

(***************************************************************************)
(* Counting the copies                                                      *)
(***************************************************************************)
LEMMA OpenRunsFinite ==
  ASSUME NEW n \in Messages
  PROVE  IsFiniteSet(OpenRuns(n)) /\ Cardinality(OpenRuns(n)) \in Nat
<1>1. OpenRuns(n) \in SUBSET Workers
  BY DEF OpenRuns
<1>2. IsFiniteSet(OpenRuns(n))
  BY <1>1, DeliveryAssumption, FS_Subset
<1> QED BY <1>2, FS_CardinalityType

LEMMA OpenRunsFiniteNext ==
  ASSUME NEW n \in Messages
  PROVE  IsFiniteSet(OpenRuns(n)') /\ Cardinality(OpenRuns(n)') \in Nat
<1>1. OpenRuns(n)' \in SUBSET Workers
  BY DEF OpenRuns
<1>2. IsFiniteSet(OpenRuns(n)')
  BY <1>1, DeliveryAssumption, FS_Subset
<1> QED BY <1>2, FS_CardinalityType

\* The part of a processor in the count.
Weight(w, n) == IF w \in OpenRuns(n) THEN 1 ELSE 0

\* A step of one processor changes the number of open runs by its own weight.
LEMMA OneStepCount ==
  ASSUME NEW w \in Workers, NEW n \in Messages,
         \A v \in Workers : v # w => worker'[v] = worker[v],
         NoMoreCopies(n) => NoMoreCopies(n)'
  PROVE  Cardinality(OpenRuns(n)') + Weight(w, n)
           <= Cardinality(OpenRuns(n)) + Weight(w, n)'
<1> DEFINE S == OpenRuns(n)
           T == OpenRuns(n)'
<1>1. \A v \in T : v # w => v \in S
  BY DEF OpenRuns
<1>2. T \ {w} \in SUBSET (S \ {w})
  BY <1>1
<1>3. IsFiniteSet(S) /\ IsFiniteSet(T)
  BY OpenRunsFinite, OpenRunsFiniteNext
<1>4. Weight(w, n) = (IF w \in S THEN 1 ELSE 0)
  BY DEF Weight
<1>5. Weight(w, n)' = (IF w \in T THEN 1 ELSE 0)
  BY DEF Weight
<1> HIDE DEF S, T
<1>6. IsFiniteSet(S \ {w})
      /\ Cardinality(S \ {w}) = (IF w \in S THEN Cardinality(S) - 1 ELSE Cardinality(S))
  BY <1>3, FS_RemoveElement
<1>7. Cardinality(T \ {w}) = (IF w \in T THEN Cardinality(T) - 1 ELSE Cardinality(T))
  BY <1>3, FS_RemoveElement
<1>8. Cardinality(T \ {w}) <= Cardinality(S \ {w})
  BY <1>2, <1>6, FS_Subset
<1>9. Cardinality(S) \in Nat /\ Cardinality(T) \in Nat
  BY <1>3, FS_CardinalityType
<1> QED BY <1>4, <1>5, <1>6, <1>7, <1>8, <1>9 DEF S, T

\* A step of nobody opens no run.
LEMMA NoStepCount ==
  ASSUME NEW n \in Messages, UNCHANGED worker, NoMoreCopies(n) => NoMoreCopies(n)'
  PROVE  Cardinality(OpenRuns(n)') <= Cardinality(OpenRuns(n))
<1>1. OpenRuns(n)' \in SUBSET OpenRuns(n)
  BY DEF OpenRuns
<1> QED BY <1>1, OpenRunsFinite, FS_Subset

\* A processor that is to hand a mail to the provider is counted.
LEMMA SenderIsOpen ==
  ASSUME NEW w \in Workers, NEW m \in Messages, At(w, m, "send")
  PROVE  Cardinality(OpenRuns(m)) >= 1
<1>1. w \in OpenRuns(m)
  BY DEF OpenRuns, At
<1>2. IsFiniteSet(OpenRuns(m)) /\ Cardinality(OpenRuns(m)) \in Nat
  BY OpenRunsFinite
<1>3. Cardinality(OpenRuns(m)) # 0
  BY <1>1, <1>2, FS_EmptySet
<1> QED BY <1>2, <1>3

\* The weight of a processor, from where it is.
LEMMA WeightIs ==
  ASSUME NEW w \in Workers, NEW n \in Messages
  PROVE  Weight(w, n) =
           IF /\ worker[w].msg = n
              /\ \/ worker[w].pc = "send"
                 \/ /\ worker[w].pc \in {"readRow", "mark", "deliver", "catch"}
                    /\ ~NoMoreCopies(n)
             THEN 1 ELSE 0
  BY DEF Weight, OpenRuns

LEMMA WeightIsNext ==
  ASSUME NEW w \in Workers, NEW n \in Messages
  PROVE  Weight(w, n)' =
           IF /\ worker'[w].msg = n
              /\ \/ worker'[w].pc = "send"
                 \/ /\ worker'[w].pc \in {"readRow", "mark", "deliver", "catch"}
                    /\ ~NoMoreCopies(n)'
             THEN 1 ELSE 0
  BY DEF Weight, OpenRuns

\* Handing a job back gives a next run; completing it gives none.
LEMMA JobOps ==
  ASSUME TypeOK, Known, NEW m \in Messages, NEW w \in Workers
  PROVE  /\ \/ Completed(job[m], w) = job[m]
            \/ Completed(job[m], w).state = "completed"
         /\ \/ AttemptFailed(job[m], w) = job[m]
            \/ job[m].state = "active"
<1>1. job[m] \in Jobs
  BY DEF TypeOK
<1>2. job[m].owner # NoWorker => job[m].state = "active"
  BY DEF Known, LockMeansActive
<1>3. w # NoWorker
  BY QueueAssumption
<1> QED BY <1>1, <1>2, <1>3 DEF Completed, AttemptFailed, Jobs

\* What leaving a step adds to the count: nothing when the processor returns,
\* at most one run when it throws, the weight of the step it goes to.
LEMMA LeaveCost ==
  ASSUME TypeOK, Known, NEW w \in Workers, NEW m \in Messages,
         worker[w].msg = m, NoMoreCopies(m) => NoMoreCopies(m)'
  PROVE  /\ Return(w, m) => Weight(w, m)' + NextRun(m)' <= NextRun(m)
         /\ Throw(w, m) \/ DeliveryThrows(w, m)
              => Weight(w, m)' + NextRun(m)'
                   <= NextRun(m) + (IF NoMoreCopies(m)' THEN 0 ELSE 1)
         /\ UNCHANGED job => NextRun(m)' <= NextRun(m)
         /\ \A step \in Steps :
              Go(w, step)
              => Weight(w, m)' =
                   IF \/ step = "send"
                      \/ /\ step \in {"readRow", "mark", "deliver", "catch"}
                         /\ ~NoMoreCopies(m)'
                     THEN 1 ELSE 0
<1>1. UNCHANGED job => NextRun(m)' <= NextRun(m)
  BY DEF NextRun
<1>2. job \in [Messages -> Jobs] /\ worker \in [Workers -> WorkerState]
  BY DEF TypeOK
<1>3. ASSUME Return(w, m) \/ Throw(w, m)
      PROVE  Weight(w, m)' = 0
  <2>1. worker'[w].pc = "idle"
    BY <1>3, LeavesTo
  <2> QED BY <2>1, WeightIsNext
<1>4. ASSUME Return(w, m)
      PROVE  Weight(w, m)' + NextRun(m)' <= NextRun(m)
  <2>1. job'[m] = Completed(job[m], w)
    BY <1>2, <1>4 DEF Return
  <2>2. \/ job'[m] = job[m]
        \/ job'[m].state = "completed"
    BY <2>1, JobOps
  <2>3. NextRun(m)' <= NextRun(m)
    BY <2>2 DEF NextRun
  <2>4. NextRun(m) \in {0, 1} /\ NextRun(m)' \in {0, 1}
    BY DEF NextRun
  <2> QED BY <1>3, <1>4, <2>3, <2>4
<1>5. ASSUME Throw(w, m)
      PROVE  Weight(w, m)' + NextRun(m)'
               <= NextRun(m) + (IF NoMoreCopies(m)' THEN 0 ELSE 1)
  <2>1. Weight(w, m)' = 0
    BY <1>3, <1>5
  <2>2. NextRun(m) \in {0, 1} /\ NextRun(m)' \in {0, 1}
    BY DEF NextRun
  <2>3. NoMoreCopies(m)' => NextRun(m)' = 0
    BY DEF NextRun
  <2> QED BY <2>1, <2>2, <2>3
<1>6. ASSUME NEW step \in Steps, Go(w, step)
      PROVE  Weight(w, m)' =
               IF \/ step = "send"
                  \/ /\ step \in {"readRow", "mark", "deliver", "catch"}
                     /\ ~NoMoreCopies(m)'
                 THEN 1 ELSE 0
  <2>1. worker'[w].pc = step
    BY <1>6, LeavesTo
  <2>2. worker'[w].msg = m
    BY <1>2, <1>6 DEF Go, WorkerState
  <2> QED BY <2>1, <2>2, WeightIsNext
<1>7. ASSUME DeliveryThrows(w, m)
      PROVE  Weight(w, m)' + NextRun(m)'
               <= NextRun(m) + (IF NoMoreCopies(m)' THEN 0 ELSE 1)
  <2>1. CASE m \notin Scheduled
    BY <1>5, <1>7, <2>1 DEF DeliveryThrows
  <2>2. CASE m \in Scheduled
    <3>1. Go(w, "catch") /\ UNCHANGED job
      BY <1>7, <2>2 DEF DeliveryThrows
    <3>2. Weight(w, m)' = IF NoMoreCopies(m)' THEN 0 ELSE 1
      BY <1>6, <3>1 DEF Steps
    <3>3. NextRun(m) \in {0, 1} /\ NextRun(m)' \in {0, 1}
      BY DEF NextRun
    <3> QED BY <1>1, <3>1, <3>2, <3>3
  <2> QED BY <2>1, <2>2
<1> QED BY <1>1, <1>4, <1>5, <1>6, <1>7

\* A step of a processor keeps the account, if it keeps it for its own mail.
LEMMA DeliverCount ==
  ASSUME IInv, NEW w \in Workers, NEW m \in Messages, Deliver(w, m),
         \A n \in Messages : NoMoreCopies(n) => NoMoreCopies(n)',
         \A n \in Messages : n # m => copies'[n] = copies[n] /\ faults'[n] = faults[n],
         copies'[m] \in Nat, faults'[m] \in Nat,
         copies'[m] + Weight(w, m)' + NextRun(m)' + faults[m]
           <= copies[m] + Weight(w, m) + NextRun(m) + faults'[m]
  PROVE  CopiesAccounted'
<1>1. TypeOK /\ Known
  BY DEF IInv, Known
<1>2. /\ worker[w].msg = m
      /\ Leaves(w, m)
      /\ UNCHANGED userVars
  BY <1>1, DeliverShape
<1>3. /\ \A v \in Workers : v # w => worker'[v] = worker[v]
      /\ worker'[w].msg \in {m, NoMessage}
  BY <1>1, <1>2, LeavesKnown
<1> SUFFICES ASSUME NEW n \in Messages
             PROVE  copies'[n] + Cardinality(OpenRuns(n)') + NextRun(n)'
                      <= 1 + faults'[n]
  BY DEF CopiesAccounted
<1>4. copies[n] + Cardinality(OpenRuns(n)) + NextRun(n) <= 1 + faults[n]
  BY DEF IInv, CopiesAccounted
<1>5. Cardinality(OpenRuns(n)') + Weight(w, n)
        <= Cardinality(OpenRuns(n)) + Weight(w, n)'
  BY <1>3, OneStepCount
<1>6. /\ Cardinality(OpenRuns(n)) \in Nat /\ Cardinality(OpenRuns(n)') \in Nat
      /\ Weight(w, n) \in {0, 1} /\ Weight(w, n)' \in {0, 1}
      /\ NextRun(n) \in {0, 1} /\ NextRun(n)' \in {0, 1}
      /\ copies[n] \in Nat /\ faults[n] \in Nat
  BY <1>1, OpenRunsFinite, OpenRunsFiniteNext DEF Weight, NextRun, TypeOK
<1>7. CASE n = m
  BY <1>4, <1>5, <1>6, <1>7
<1>8. CASE n # m
  <2>1. Weight(w, n) = 0
    BY <1>2, <1>8, WeightIs
  <2>2. Weight(w, n)' = 0
    BY <1>3, <1>8, WeightIsNext, DeliveryAssumption
  <2>3. job'[n] = job[n]
    <3>1. PICK j : job' = [job EXCEPT ![m] = j]
      BY <1>2 DEF Leaves
    <3> QED BY <1>1, <1>8, <3>1 DEF TypeOK
  <2>4. NextRun(n)' <= NextRun(n)
    BY <2>3 DEF NextRun
  <2> QED BY <1>4, <1>5, <1>6, <1>8, <2>1, <2>2, <2>4
<1> QED BY <1>7, <1>8

\* Every step of a processor keeps the account.
LEMMA DeliverCopies ==
  ASSUME IInv, NEW w \in Workers, NEW m \in Messages, Deliver(w, m)
  PROVE  CopiesAccounted'
<1>1. TypeOK /\ Known
  BY DEF IInv, Known
<1>2. worker[w].msg = m
  BY <1>1, DeliverShape
<1>3. /\ copies[m] \in Nat /\ faults[m] \in Nat
      /\ copies \in [Messages -> Nat] /\ faults \in [Messages -> Nat]
      /\ message \in [Messages -> MessageRow]
      /\ NextRun(m) \in {0, 1} /\ NextRun(m)' \in {0, 1}
      /\ Weight(w, m) \in {0, 1} /\ Weight(w, m)' \in {0, 1}
  BY <1>1 DEF TypeOK, NextRun, Weight
<1> USE <1>1, <1>2, <1>3
<1> DEFINE Monotone == \A n \in Messages : NoMoreCopies(n) => NoMoreCopies(n)'
           Others == \A n \in Messages :
                       n # m => copies'[n] = copies[n] /\ faults'[n] = faults[n]
           Local == copies'[m] + Weight(w, m)' + NextRun(m)' + faults[m]
                      <= copies[m] + Weight(w, m) + NextRun(m) + faults'[m]
           Typed == copies'[m] \in Nat /\ faults'[m] \in Nat
<1>0. Monotone /\ Others /\ Typed /\ Local => CopiesAccounted'
  BY DeliverCount
<1>4. CASE ReadRow(w, m)
  <2>1. Monotone
    BY <1>4 DEF ReadRow, NoMoreCopies, Recorded, storeVars
  <2>2. Others /\ Typed
    BY <1>4 DEF ReadRow, histVars
  <2>3. Local
    <3>1. Weight(w, m) = IF NoMoreCopies(m) THEN 0 ELSE 1
      BY <1>4, WeightIs DEF ReadRow, At
    <3>2. NoMoreCopies(m)' = NoMoreCopies(m)
      BY <1>4 DEF ReadRow, NoMoreCopies, Recorded, storeVars
    <3>3. CASE Return(w, m)
      BY <1>4, <2>1, <3>1, <3>3, LeaveCost DEF ReadRow, histVars
    <3>4. CASE ~Return(w, m)
      <4>1. UNCHANGED job /\ worker'[w].pc = "mark"
        BY <1>4, <3>4 DEF ReadRow, WorkerState, TypeOK
      <4>2. Weight(w, m)' <= IF NoMoreCopies(m) THEN 0 ELSE 1
        BY <3>2, <4>1, WeightIsNext
      <4>3. NextRun(m)' <= NextRun(m)
        BY <2>1, <4>1, LeaveCost
      <4> QED BY <1>4, <3>1, <4>2, <4>3 DEF ReadRow, histVars
    <3> QED BY <3>3, <3>4
  <2> QED BY <1>0, <2>1, <2>2, <2>3
<1>5. CASE MarkProcessing(w, m)
  <2>1. Monotone
    BY <1>5 DEF MarkProcessing, NoMoreCopies, Recorded, storeVars
  <2>2. Others /\ Typed
    BY <1>5 DEF MarkProcessing, histVars
  <2>3. Local
    <3>1. Weight(w, m) = IF NoMoreCopies(m) THEN 0 ELSE 1
      BY <1>5, WeightIs DEF MarkProcessing, At
    <3> QED BY <1>5, <2>1, <3>1, LeaveCost DEF MarkProcessing, histVars, Steps
  <2> QED BY <1>0, <2>1, <2>2, <2>3
<1>6. CASE BeginDelivery(w, m)
  <2>1. Monotone
    BY <1>6 DEF BeginDelivery, NoMoreCopies, Recorded, storeVars
  <2>2. Others /\ Typed
    BY <1>6 DEF BeginDelivery, histVars
  <2>3. Local
    <3>1. Weight(w, m) = IF NoMoreCopies(m) THEN 0 ELSE 1
      BY <1>6, WeightIs DEF BeginDelivery, At
    <3>2. NoMoreCopies(m)' = NoMoreCopies(m)
      BY <1>6 DEF BeginDelivery, NoMoreCopies, Recorded, storeVars
    <3>3. copies'[m] = copies[m] /\ faults'[m] = faults[m]
      BY <1>6 DEF BeginDelivery, histVars
    <3>4. \/ DeliveryThrows(w, m)
          \/ Return(w, m)
          \/ Go(w, "confirm") /\ UNCHANGED job
          \/ Go(w, "send") /\ UNCHANGED job /\ ~NoMoreCopies(m)
      BY <1>6 DEF BeginDelivery, AlreadyDelivered, NoMoreCopies, Recorded
    <3>5. "confirm" \in Steps /\ "send" \in Steps
      BY DEF Steps
    <3> QED BY <2>1, <3>1, <3>2, <3>3, <3>4, <3>5, LeaveCost
  <2> QED BY <1>0, <2>1, <2>2, <2>3
<1>7. CASE ProviderAccepts(w, m)
  <2>1. Monotone
    BY <1>7 DEF ProviderAccepts, NoMoreCopies, Recorded, storeVars
  <2>2. Others /\ Typed
    BY <1>7 DEF ProviderAccepts, histVars
  <2>3. Local
    <3>1. Weight(w, m) = 1
      BY <1>7, WeightIs DEF ProviderAccepts, At
    <3> QED BY <1>7, <2>1, <3>1, LeaveCost DEF ProviderAccepts, histVars, Steps
  <2> QED BY <1>0, <2>1, <2>2, <2>3
<1>8. CASE ProviderRejects(w, m)
  <2>1. Monotone
    BY <1>8 DEF ProviderRejects, NoMoreCopies, Recorded, storeVars
  <2>2. Others /\ Typed
    BY <1>8 DEF ProviderRejects, histVars
  <2>3. Local
    <3>1. Weight(w, m) = 1
      BY <1>8, WeightIs DEF ProviderRejects, At
    <3> QED BY <1>8, <2>1, <3>1, LeaveCost DEF ProviderRejects, histVars, Steps
  <2> QED BY <1>0, <2>1, <2>2, <2>3
<1>9. CASE AnswerLost(w, m)
  <2>1. Monotone
    BY <1>9 DEF AnswerLost, NoMoreCopies, Recorded, storeVars
  <2>2. Others /\ Typed
    BY <1>9 DEF AnswerLost, histVars
  <2>3. Local
    <3>1. Weight(w, m) = 1
      BY <1>9, WeightIs DEF AnswerLost, At
    <3> QED BY <1>9, <2>1, <3>1, LeaveCost DEF AnswerLost, histVars, Steps
  <2> QED BY <1>0, <2>1, <2>2, <2>3
<1>10. CASE RecordDelivery(w, m)
  <2>1. Monotone
    BY <1>10 DEF RecordDelivery, NoMoreCopies, Recorded, storeVars, MessageRow
  <2>2. Others /\ Typed
    BY <1>10 DEF RecordDelivery, histVars
  <2>3. Local
    <3>1. Weight(w, m) = 0
      BY <1>10, WeightIs DEF RecordDelivery, At
    <3> QED BY <1>10, <2>1, <3>1, LeaveCost DEF RecordDelivery, histVars, Steps
  <2> QED BY <1>0, <2>1, <2>2, <2>3
<1>11. CASE RecordFails(w, m)
  <2>1. Monotone
    BY <1>11 DEF RecordFails, NoMoreCopies, Recorded, storeVars
  <2>2. Others /\ Typed
    BY <1>11 DEF RecordFails, histVars
  <2>3. Local
    <3>1. Weight(w, m) = 0
      BY <1>11, WeightIs DEF RecordFails, At
    <3> QED BY <1>11, <2>1, <3>1, LeaveCost DEF RecordFails, histVars, Steps
  <2> QED BY <1>0, <2>1, <2>2, <2>3
<1>12. CASE ConfirmDelivery(w, m)
  <2>1. Monotone
    BY <1>12 DEF ConfirmDelivery, NoMoreCopies, Recorded, storeVars
  <2>2. Others /\ Typed
    BY <1>12 DEF ConfirmDelivery, histVars
  <2>3. Local
    <3>1. Weight(w, m) = 0
      BY <1>12, WeightIs DEF ConfirmDelivery, At
    <3>2. NoMoreCopies(m)
      BY <1>12 DEF Known, ProcessorsKnow, ConfirmDelivery, At, NoMoreCopies
    <3> QED BY <1>12, <2>1, <3>1, <3>2, LeaveCost DEF ConfirmDelivery, histVars, Steps
  <2> QED BY <1>0, <2>1, <2>2, <2>3
<1>17. CASE AnswerThread(w, m)
  <2>1. Monotone
    BY <1>17 DEF AnswerThread, NoMoreCopies, Recorded, storeVars
  <2>2. Others /\ Typed
    BY <1>17 DEF AnswerThread, histVars
  <2>3. Local
    <3>1. Weight(w, m) = 0
      BY <1>17, WeightIs DEF AnswerThread, At
    <3>2. NoMoreCopies(m)
      BY <1>17 DEF Known, ProcessorsKnow, AnswerThread, At, NoMoreCopies
    <3> QED BY <1>17, <2>1, <3>1, <3>2, LeaveCost DEF AnswerThread, histVars, Steps
  <2> QED BY <1>0, <2>1, <2>2, <2>3
<1>18. CASE SetThreadStatus(w, m)
  <2>1. Monotone
    BY <1>18 DEF SetThreadStatus, NoMoreCopies, Recorded, storeVars
  <2>2. Others /\ Typed
    BY <1>18 DEF SetThreadStatus, histVars
  <2>3. Local
    <3>1. Weight(w, m) = 0
      BY <1>18, WeightIs DEF SetThreadStatus, At
    <3>2. NoMoreCopies(m)
      BY <1>18 DEF Known, ProcessorsKnow, SetThreadStatus, At, NoMoreCopies
    <3> QED BY <1>18, <2>1, <3>1, <3>2, LeaveCost DEF SetThreadStatus, histVars, Steps
  <2> QED BY <1>0, <2>1, <2>2, <2>3
<1>13. CASE MarkSent(w, m)
  <2>1. Monotone
    BY <1>13 DEF MarkSent, NoMoreCopies, Recorded, storeVars
  <2>2. Others /\ Typed
    BY <1>13 DEF MarkSent, histVars
  <2>3. Local
    <3>1. Weight(w, m) = 0
      BY <1>13, WeightIs DEF MarkSent, At
    <3>2. NoMoreCopies(m)
      BY <1>13 DEF Known, ProcessorsKnow, MarkSent, At, NoMoreCopies
    <3> QED BY <1>13, <2>1, <3>1, <3>2, LeaveCost DEF MarkSent, histVars, Steps
  <2> QED BY <1>0, <2>1, <2>2, <2>3
<1>14. CASE InsertNextRow(w, m)
  <2>1. Monotone
    BY <1>14 DEF InsertNextRow, NoMoreCopies, Recorded, storeVars
  <2>2. Others /\ Typed
    BY <1>14 DEF InsertNextRow, histVars
  <2>3. Local
    <3>1. Weight(w, m) = 0
      BY <1>14, WeightIs DEF InsertNextRow, At
    <3>2. NoMoreCopies(m)
      BY <1>14 DEF Known, ProcessorsKnow, InsertNextRow, At, NoMoreCopies
    <3> QED BY <1>14, <2>1, <3>1, <3>2, LeaveCost DEF InsertNextRow, histVars, Steps
  <2> QED BY <1>0, <2>1, <2>2, <2>3
<1>15. CASE CatchFailure(w, m)
  <2>1. Monotone
    BY <1>15 DEF CatchFailure, NoMoreCopies, Recorded, storeVars
  <2>2. Others /\ Typed
    BY <1>15 DEF CatchFailure, histVars
  <2>3. Local
    <3>1. Weight(w, m) = IF NoMoreCopies(m) THEN 0 ELSE 1
      BY <1>15, WeightIs DEF CatchFailure, At
    <3> QED BY <1>15, <2>1, <3>1, LeaveCost DEF CatchFailure, histVars, Steps
  <2> QED BY <1>0, <2>1, <2>2, <2>3
<1> QED BY <1>4, <1>5, <1>6, <1>7, <1>8, <1>9, <1>10, <1>11, <1>12, <1>13,
           <1>14, <1>15, <1>17, <1>18 DEF Deliver

\* A step of users, clock or queue keeps the account if it opens no next run,
\* or pays for it with a fault.
LEMMA QuietCount ==
  ASSUME IInv, UNCHANGED worker, UNCHANGED copies,
         \A n \in Messages : NoMoreCopies(n) => NoMoreCopies(n)',
         \A n \in Messages : faults'[n] \in Nat,
         \A n \in Messages : NextRun(n)' + faults[n] <= NextRun(n) + faults'[n]
  PROVE  CopiesAccounted'
<1> SUFFICES ASSUME NEW n \in Messages
             PROVE  copies'[n] + Cardinality(OpenRuns(n)') + NextRun(n)'
                      <= 1 + faults'[n]
  BY DEF CopiesAccounted
<1>1. copies[n] + Cardinality(OpenRuns(n)) + NextRun(n) <= 1 + faults[n]
  BY DEF IInv, CopiesAccounted
<1>2. Cardinality(OpenRuns(n)') <= Cardinality(OpenRuns(n))
  BY NoStepCount
<1>3. /\ Cardinality(OpenRuns(n)) \in Nat /\ Cardinality(OpenRuns(n)') \in Nat
      /\ NextRun(n) \in {0, 1} /\ NextRun(n)' \in {0, 1}
      /\ copies[n] \in Nat /\ faults[n] \in Nat /\ faults'[n] \in Nat
  BY OpenRunsFinite, OpenRunsFiniteNext DEF IInv, NextRun, TypeOK
<1> QED BY <1>1, <1>2, <1>3

LEMMA NextCopies == IInv /\ [Next]_vars => CopiesAccounted'
<1> SUFFICES ASSUME IInv, [Next]_vars
             PROVE  CopiesAccounted'
  OBVIOUS
<1>1. /\ TypeOK /\ Known
      /\ faults \in [Messages -> Nat] /\ job \in [Messages -> Jobs]
      /\ message \in [Messages -> MessageRow]
  BY DEF IInv, Known, TypeOK
<1> DEFINE Monotone == \A n \in Messages : NoMoreCopies(n) => NoMoreCopies(n)'
           Typed == \A n \in Messages : faults'[n] \in Nat
           Paid == \A n \in Messages :
                     NextRun(n)' + faults[n] <= NextRun(n) + faults'[n]
<1>0. Monotone /\ Typed /\ Paid /\ UNCHANGED <<worker, copies>>
        => CopiesAccounted'
  BY QuietCount
<1>2. ASSUME NEW m \in Messages, UserStep(m)
      PROVE  CopiesAccounted'
  <2>1. CASE Compose(m)
    <3>1. ~NoMoreCopies(m) /\ ~NoMoreCopies(m)' /\ UNCHANGED job
      BY <1>1, <2>1 DEF Compose, Known, NewIsUntouched, NoMoreCopies, Recorded
    <3>a. Monotone
      BY <1>1, <2>1, <3>1 DEF Compose, NoMoreCopies, Recorded, NextRun, histVars
    <3>b. Paid /\ Typed
      BY <1>1, <2>1, <3>1 DEF Compose, NoMoreCopies, Recorded, NextRun, histVars
    <3> QED BY <1>0, <2>1, <3>a, <3>b DEF Compose, histVars
  <2>2. CASE InsertRow(m)
    <3>a. Monotone
      BY <1>1, <2>2 DEF InsertRow, NoMoreCopies, Recorded, NextRun, storeVars, histVars
    <3>b. Paid /\ Typed
      BY <1>1, <2>2 DEF InsertRow, NoMoreCopies, Recorded, NextRun, storeVars, histVars
    <3> QED BY <1>0, <2>2, <3>a, <3>b DEF InsertRow, histVars
  <2>3. CASE Enqueue(m)
    <3>1. job[m].state = "none"
      BY <1>1, <2>3 DEF Enqueue, Known, NotQueuedYet, NoJob
    <3>a. Monotone
      BY <1>1, <2>3, <3>1 DEF Enqueue, NoMoreCopies, Recorded, NextRun, storeVars, histVars
    <3>b. Paid /\ Typed
      BY <1>1, <2>3, <3>1 DEF Enqueue, NoMoreCopies, Recorded, NextRun, storeVars, histVars
    <3> QED BY <1>0, <2>3, <3>a, <3>b DEF Enqueue, histVars
  <2>4. CASE CancelRead(m)
    <3>a. Monotone
      BY <1>1, <2>4 DEF CancelRead, NoMoreCopies, Recorded, NextRun, storeVars, histVars
    <3>b. Paid /\ Typed
      BY <1>1, <2>4 DEF CancelRead, NoMoreCopies, Recorded, NextRun, storeVars, histVars
    <3> QED BY <1>0, <2>4, <3>a, <3>b DEF CancelRead, histVars
  <2>5. CASE CancelWrite(m)
    <3>a. Monotone
      BY <1>1, <2>5 DEF CancelWrite, NoMoreCopies, Recorded, NextRun, storeVars, histVars
    <3>b. Paid /\ Typed
      BY <1>1, <2>5 DEF CancelWrite, NoMoreCopies, Recorded, NextRun, storeVars, histVars
    <3> QED BY <1>0, <2>5, <3>a, <3>b DEF CancelWrite, histVars
  <2>6. CASE DeleteThread(m)
    <3>a. Monotone
      BY <1>1, <2>6 DEF DeleteThread, NoMoreCopies, Recorded, NextRun, histVars, MessageRow
    <3>b. Paid /\ Typed
      BY <1>1, <2>6 DEF DeleteThread, NoMoreCopies, Recorded, NextRun, histVars, MessageRow
    <3> QED BY <1>0, <2>6, <3>a, <3>b DEF DeleteThread, histVars
  <2>7. CASE RequestFails(m)
    <3>a. Monotone
      BY <1>1, <2>7 DEF RequestFails, NoMoreCopies, Recorded, NextRun, storeVars, histVars
    <3>b. Paid /\ Typed
      BY <1>1, <2>7 DEF RequestFails, NoMoreCopies, Recorded, NextRun, storeVars, histVars
    <3> QED BY <1>0, <2>7, <3>a, <3>b DEF RequestFails, histVars
  <2> QED BY <1>2, <2>1, <2>2, <2>3, <2>4, <2>5, <2>6, <2>7 DEF UserStep
<1>3. ASSUME NEW m \in Messages, QueueStep(m)
      PROVE  CopiesAccounted'
  <2>1. CASE BecomeDue(m)
    <3>a. Monotone
      BY <2>1 DEF BecomeDue, NoMoreCopies, Recorded, storeVars
    <3>b. Paid /\ Typed
      BY <1>1, <2>1 DEF BecomeDue, NoMoreCopies, Recorded, NextRun, storeVars, histVars
    <3> QED BY <1>0, <2>1, <3>a, <3>b DEF BecomeDue, histVars
  <2>2. CASE Promote(m)
    <3>a. Monotone
      BY <2>2 DEF Promote, NoMoreCopies, Recorded, storeVars
    <3>b. Paid /\ Typed
      BY <1>1, <2>2 DEF Promote, NoMoreCopies, Recorded, NextRun, storeVars, histVars, Promoted, Jobs
    <3> QED BY <1>0, <2>2, <3>a, <3>b DEF Promote, histVars
  <2>3. CASE RecoverStalled(m)
    <3>a. Monotone
      BY <2>3 DEF RecoverStalled, NoMoreCopies, Recorded, storeVars
    <3>b. Paid /\ Typed
      BY <1>1, <2>3 DEF RecoverStalled, NoMoreCopies, Recorded, NextRun, storeVars, histVars
    <3> QED BY <1>0, <2>3, <3>a, <3>b DEF RecoverStalled, histVars
  <2>4. CASE LoseLock(m)
    <3>a. Monotone
      BY <2>4 DEF LoseLock, NoMoreCopies, Recorded, storeVars
    <3>b. Paid /\ Typed
      BY <1>1, <2>4 DEF LoseLock, NoMoreCopies, Recorded, NextRun, storeVars, histVars
    <3> QED BY <1>0, <2>4, <3>a, <3>b DEF LoseLock, histVars
  <2> QED BY <1>3, <2>1, <2>2, <2>3, <2>4 DEF QueueStep
<1>4. ASSUME NEW w \in Workers, NEW m \in Messages, SkipByKillSwitch(w, m)
      PROVE  CopiesAccounted'
  <2>1. Monotone
    BY <1>4 DEF SkipByKillSwitch, NoMoreCopies, Recorded, storeVars
  <2>2. job'[m].state = "completed"
    BY <1>1, <1>4 DEF SkipByKillSwitch, Completed, Taken, Jobs
  <2>3. Paid /\ Typed
    BY <1>1, <1>4, <2>2 DEF SkipByKillSwitch, NextRun, NoMoreCopies, Recorded, storeVars
  <2> QED BY <1>0, <1>4, <2>1, <2>3 DEF SkipByKillSwitch
<1>5. ASSUME NEW w \in Workers, NEW m \in Messages, Take(w, m)
      PROVE  CopiesAccounted'
  <2>1. \A v \in Workers : v # w => worker'[v] = worker[v]
    BY <1>1, <1>5 DEF Take, TypeOK
  <2>2. \A n \in Messages : NoMoreCopies(n)' = NoMoreCopies(n)
    BY <1>5 DEF Take, NoMoreCopies, Recorded, storeVars
  <2>3. \A n \in Messages : Weight(w, n) = 0
    BY <1>5, WeightIs DEF Take
  <2>4. worker'[w].msg = m
    BY <1>1, <1>5 DEF Take, TypeOK
  <2> SUFFICES ASSUME NEW n \in Messages
               PROVE  copies'[n] + Cardinality(OpenRuns(n)') + NextRun(n)'
                        <= 1 + faults'[n]
    BY DEF CopiesAccounted
  <2>5. copies[n] + Cardinality(OpenRuns(n)) + NextRun(n) <= 1 + faults[n]
    BY DEF IInv, CopiesAccounted
  <2>6. Cardinality(OpenRuns(n)') + Weight(w, n)
          <= Cardinality(OpenRuns(n)) + Weight(w, n)'
    BY <2>1, <2>2, OneStepCount
  <2>7. copies' = copies /\ faults' = faults
    BY <1>5 DEF Take, histVars
  <2>8. Weight(w, n)' + NextRun(n)' <= NextRun(n)
    <3>1. CASE n = m
      <4>1. job'[m].state = "active" /\ job[m].state = "waiting"
        BY <1>1, <1>5 DEF Take, Taken, Jobs
      <4>2. worker'[w].pc # "send"
        BY <1>1, <1>5 DEF Take, TypeOK
      <4>3. Weight(w, m)' = 0 \/ ~NoMoreCopies(m)
        BY <2>2, <4>2, WeightIsNext
      <4>4. NextRun(m)' = 0
        BY <4>1 DEF NextRun
      <4>5. NextRun(m) = IF NoMoreCopies(m) THEN 0 ELSE 1
        BY <4>1 DEF NextRun
      <4>6. Weight(w, m)' \in {0, 1}
        BY DEF Weight
      <4> QED BY <3>1, <4>3, <4>4, <4>5, <4>6
    <3>2. CASE n # m
      <4>1. Weight(w, n)' = 0
        BY <2>4, <3>2, WeightIsNext
      <4>2. job'[n] = job[n]
        BY <1>1, <1>5, <3>2 DEF Take
      <4>3. NextRun(n)' = NextRun(n)
        BY <2>2, <4>2 DEF NextRun
      <4>4. NextRun(n) \in {0, 1}
        BY DEF NextRun
      <4> QED BY <4>1, <4>3, <4>4
    <3> QED BY <3>1, <3>2
  <2>9. /\ Cardinality(OpenRuns(n)) \in Nat /\ Cardinality(OpenRuns(n)') \in Nat
        /\ NextRun(n) \in {0, 1} /\ NextRun(n)' \in {0, 1}
        /\ Weight(w, n)' \in {0, 1}
        /\ copies[n] \in Nat /\ faults[n] \in Nat
    BY <1>1, OpenRunsFinite, OpenRunsFiniteNext DEF NextRun, Weight, TypeOK
  <2> QED BY <2>3, <2>5, <2>6, <2>7, <2>8, <2>9
<1>6. ASSUME NEW w \in Workers, NEW m \in Messages, Deliver(w, m)
      PROVE  CopiesAccounted'
  BY <1>6, DeliverCopies
<1>7. CASE ToggleKillSwitch
  <2>1. Monotone /\ Paid /\ Typed
    BY <1>1, <1>7 DEF ToggleKillSwitch, NextRun, NoMoreCopies, Recorded, storeVars, histVars
  <2> QED BY <1>0, <1>7, <2>1 DEF ToggleKillSwitch, histVars
<1>8. CASE Crash
  <2> SUFFICES ASSUME NEW n \in Messages
               PROVE  copies'[n] + Cardinality(OpenRuns(n)') + NextRun(n)'
                        <= 1 + faults'[n]
    BY DEF CopiesAccounted
  <2>1. copies[n] + Cardinality(OpenRuns(n)) + NextRun(n) <= 1 + faults[n]
    BY DEF IInv, CopiesAccounted
  <2>2. OpenRuns(n)' = {}
    BY <1>8 DEF Crash, OpenRuns, Idle
  <2>3. Cardinality(OpenRuns(n)') = 0
    BY <2>2, FS_EmptySet
  <2>4. NextRun(n)' = NextRun(n)
    BY <1>8 DEF Crash, NextRun, NoMoreCopies, Recorded, storeVars
  <2>5. copies' = copies /\ faults' = faults
    BY <1>8 DEF Crash, histVars
  <2>6. /\ Cardinality(OpenRuns(n)) \in Nat /\ NextRun(n) \in {0, 1}
        /\ copies[n] \in Nat /\ faults[n] \in Nat
    BY <1>1, OpenRunsFinite DEF NextRun, TypeOK
  <2> QED BY <2>1, <2>3, <2>4, <2>5, <2>6
<1>9. CASE UNCHANGED vars
  <2>1. Monotone /\ Paid /\ Typed
    BY <1>1, <1>9 DEF vars, NextRun, NoMoreCopies, Recorded, storeVars, histVars
  <2> QED BY <1>0, <1>9, <2>1 DEF vars, histVars
<1> QED BY <1>2, <1>3, <1>4, <1>5, <1>6, <1>7, <1>8, <1>9 DEF Next

LEMMA InitCopies == Init => CopiesAccounted
<1> SUFFICES ASSUME Init, NEW n \in Messages
             PROVE  copies[n] + Cardinality(OpenRuns(n)) + NextRun(n) <= 1 + faults[n]
  BY DEF CopiesAccounted
<1>1. OpenRuns(n) = {}
  BY DEF Init, OpenRuns, Idle
<1>2. Cardinality(OpenRuns(n)) = 0
  BY <1>1, FS_EmptySet
<1>3. NextRun(n) \in {0, 1}
  BY DEF NextRun
<1>4. copies[n] = 0 /\ faults[n] = 0
  BY DEF Init
<1> QED BY <1>2, <1>3, <1>4

(***************************************************************************)
(* The theorems                                                             *)
(***************************************************************************)
LEMMA IInvHolds == Spec => []IInv
<1>1. Init => IInv
  BY InitTypeOK, InitKnown, InitCopies DEF IInv, Known
<1>2. IInv /\ [Next]_vars => IInv'
  <2> SUFFICES ASSUME IInv, [Next]_vars
               PROVE  IInv'
    OBVIOUS
  <2>1. TypeOK' /\ Known'
    BY NextTypeOK, NextKnown DEF IInv, Known
  <2>2. CopiesAccounted'
    BY NextCopies
  <2> QED BY <2>1, <2>2 DEF IInv, Known
<1> QED BY <1>1, <1>2, PTL DEF Spec

\* The provider accepts one copy of a mail and one more for every run whose
\* outcome was lost, whatever users, queues and processors do.
THEOREM CopiesAreBounded == Spec => []BoundedCopies
<1>1. IInv => BoundedCopies
  <2> SUFFICES ASSUME IInv, NEW n \in Messages
               PROVE  copies[n] <= 1 + faults[n]
    BY DEF BoundedCopies
  <2>1. copies[n] + Cardinality(OpenRuns(n)) + NextRun(n) <= 1 + faults[n]
    BY DEF IInv, CopiesAccounted
  <2>2. /\ Cardinality(OpenRuns(n)) \in Nat /\ NextRun(n) \in {0, 1}
        /\ copies[n] \in Nat /\ faults[n] \in Nat
    BY OpenRunsFinite DEF IInv, NextRun, TypeOK
  <2> QED BY <2>1, <2>2
<1> QED BY <1>1, IInvHolds, PTL

\* What the rows and the thread say about a delivery is true.
THEOREM ReportsAreAlwaysTrue == Spec => []ReportsAreTrue
<1>1. IInv => ReportsAreTrue
  BY DEF IInv
<1> QED BY <1>1, IInvHolds, PTL

(***************************************************************************)
(* The abstract outbox                                                      *)
(***************************************************************************)
\* The phase of each mail, as the refinement mapping gives it.
Phases == [n \in Messages |-> Phase(n)]

\* A job that is changed in no other way than Leaves, or the queue, changes it:
\* the phase stays or the work is closed.
LEMMA PhaseStep ==
  ASSUME TypeOK, NEW m \in Messages, NEW j, job' = [job EXCEPT ![m] = j],
         UNCHANGED request, job[m].state # "none", j.state # "none",
         Finished(job[m]) => Finished(j)
  PROVE  /\ Phases[m] \in {"queued", "closed"}
         /\ \/ Phases' = Phases
            \/ Phases[m] = "queued" /\ Phases' = [Phases EXCEPT ![m] = "closed"]
<1>1. job \in [Messages -> Jobs]
  BY DEF TypeOK
<1>2. job'[m] = j /\ \A n \in Messages : n # m => job'[n] = job[n]
  BY <1>1
<1>3. Phase(m) = (IF Finished(job[m]) THEN "closed" ELSE "queued")
  BY DEF Phase
<1>4. Phase(m)' = (IF Finished(j) THEN "closed" ELSE "queued")
  BY <1>2 DEF Phase, RequestPhase, Finished
<1>5. \A n \in Messages : n # m => Phase(n)' = Phase(n)
  BY <1>2 DEF Phase, RequestPhase, Finished
<1>6. Phases' = [n \in Messages |-> Phase(n)']
  BY DEF Phases
<1>7. CASE Phase(m)' = Phase(m)
  <2>1. \A n \in Messages : Phase(n)' = Phase(n)
    BY <1>5, <1>7
  <2>2. Phases' = Phases
    BY <1>6, <2>1 DEF Phases
  <2> QED BY <1>3, <2>2 DEF Phases
<1>8. CASE Phase(m)' # Phase(m)
  <2>1. Phase(m) = "queued" /\ Phase(m)' = "closed"
    BY <1>3, <1>4, <1>8
  <2>2. Phases' = [Phases EXCEPT ![m] = "closed"]
    BY <1>5, <1>6, <2>1 DEF Phases
  <2> QED BY <2>1, <2>2 DEF Phases
<1> QED BY <1>7, <1>8

\* So it is with a step of a processor.
LEMMA PhaseDeliver ==
  ASSUME IInv, NEW w \in Workers, NEW m \in Messages, Deliver(w, m)
  PROVE  /\ Phases[m] \in {"queued", "closed"}
         /\ \/ Phases' = Phases
            \/ Phases[m] = "queued" /\ Phases' = [Phases EXCEPT ![m] = "closed"]
<1>1. TypeOK /\ Known
  BY DEF IInv, Known
<1>2. worker[w].msg = m /\ UNCHANGED userVars /\ Leaves(w, m)
  BY <1>1, DeliverShape
<1>3. request[m] = "done" /\ UNCHANGED request
  BY <1>1, <1>2, LeavesKnown DEF userVars
<1>4. job[m] \in Jobs /\ (job[m].owner # NoWorker => job[m].state = "active")
  BY <1>1 DEF TypeOK, Known, LockMeansActive
<1>5. job[m].state # "none"
  BY <1>2 DEF IInv, WorkIsQueued
<1>6. PICK j \in {job[m], Completed(job[m], w), AttemptFailed(job[m], w)} :
        job' = [job EXCEPT ![m] = j]
  BY <1>2 DEF Leaves
<1>7. j.state # "none" /\ (Finished(job[m]) => Finished(j))
  BY <1>4, <1>5, <1>6, QueueAssumption
  DEF Completed, AttemptFailed, Jobs, Finished
<1> QED BY <1>1, <1>3, <1>5, <1>6, <1>7, PhaseStep
\* A phase that only a request changes.
LEMMA PhaseRequest ==
  ASSUME TypeOK, NEW m \in Messages, NEW r \in {"composed", "rowed", "lost"},
         request' = [request EXCEPT ![m] = r], UNCHANGED job, job[m] = NoJob
  PROVE  Phases' = [Phases EXCEPT ![m] =
                      IF r = "lost" THEN "abandoned" ELSE "accepted"]
<1>1. request'[m] = r /\ \A n \in Messages : n # m => request'[n] = request[n]
  BY DEF TypeOK
<1>2. \A n \in Messages : n # m => Phase(n)' = Phase(n)
  BY <1>1 DEF Phase, RequestPhase, Finished
<1>3. Phase(m)' = IF r = "lost" THEN "abandoned" ELSE "accepted"
  BY <1>1 DEF Phase, RequestPhase, NoJob
<1> QED BY <1>2, <1>3 DEF Phases

\* Nothing an outbox can see.
Hidden == UNCHANGED <<request, job>> => Phases' = Phases

LEMMA PhaseHidden == Hidden
  BY DEF Hidden, Phases, Phase, RequestPhase, Finished

\* The steps of an outbox, over the phases.
LEMMA OutboxSteps ==
  ASSUME NEW m \in Messages
  PROVE  /\ /\ Phases[m] = "new" /\ UNCHANGED <<copies, faults>>
            /\ Phases' = [Phases EXCEPT ![m] = "accepted"]
            => Outbox!Accept(m)
         /\ /\ Phases[m] = "accepted" /\ UNCHANGED <<copies, faults>>
            /\ Phases' = [Phases EXCEPT ![m] = "queued"]
            => Outbox!Queue(m)
         /\ /\ Phases[m] = "queued" /\ UNCHANGED <<copies, faults>>
            /\ Phases' = [Phases EXCEPT ![m] = "closed"]
            => Outbox!Close(m)
         /\ /\ Phases[m] \in {"queued", "closed"} /\ copies[m] <= faults[m]
            /\ copies' = [copies EXCEPT ![m] = @ + 1]
            /\ \/ Phases' = Phases /\ UNCHANGED faults
               \/ /\ faults' = [faults EXCEPT ![m] = @ + 1]
                  /\ Phases' \in {Phases, [Phases EXCEPT ![m] = "closed"]}
            => Outbox!Copy(m)
         /\ /\ Phases[m] \in {"queued", "closed"} /\ UNCHANGED copies
            /\ faults' = [faults EXCEPT ![m] = @ + 1]
            /\ Phases' \in {Phases, [Phases EXCEPT ![m] = "closed"]}
            => Outbox!Lose(m)
<1>1. Phases = [n \in Messages |-> Phase(n)]
  BY DEF Phases
<1>2. Phases' = [n \in Messages |-> Phase(n)']
  BY DEF Phases
<1> QED BY <1>1, <1>2 DEF Outbox!Accept, Outbox!Queue, Outbox!Close, Outbox!Copy,
                          Outbox!Lose, Phases

LEMMA OutboxStutters ==
  Phases' = Phases /\ UNCHANGED <<copies, faults>> => UNCHANGED Outbox!vars
  BY DEF Outbox!vars, Phases

\* A step of a processor is a step of the outbox.
LEMMA OutboxDeliver ==
  ASSUME IInv, NEW w \in Workers, NEW m \in Messages, Deliver(w, m)
  PROVE  [Outbox!Next]_(Outbox!vars)
<1> DEFINE Quiet == UNCHANGED <<copies, faults>>
<1>1. /\ Phases[m] \in {"queued", "closed"}
      /\ \/ Phases' = Phases
         \/ Phases[m] = "queued" /\ Phases' = [Phases EXCEPT ![m] = "closed"]
  BY PhaseDeliver
<1>2. ASSUME At(w, m, "send")
      PROVE  copies[m] <= faults[m]
  <2>1. copies[m] + Cardinality(OpenRuns(m)) + NextRun(m) <= 1 + faults[m]
    BY DEF IInv, CopiesAccounted
  <2>2. Cardinality(OpenRuns(m)) >= 1 /\ Cardinality(OpenRuns(m)) \in Nat
    BY <1>2, SenderIsOpen, OpenRunsFinite
  <2>3. NextRun(m) \in {0, 1} /\ copies[m] \in Nat /\ faults[m] \in Nat
    BY DEF IInv, TypeOK, NextRun
  <2> QED BY <2>1, <2>2, <2>3
<1>3. CASE ProviderAccepts(w, m)
  <2>1. /\ At(w, m, "send") /\ copies' = [copies EXCEPT ![m] = @ + 1]
        /\ UNCHANGED <<request, job, faults>>
    BY <1>3 DEF ProviderAccepts, userVars
  <2>2. Phases' = Phases
    BY <2>1, PhaseHidden DEF Hidden
  <2>3. Outbox!Copy(m)
    BY <1>1, <1>2, <2>1, <2>2, OutboxSteps
  <2> QED BY <2>3 DEF Outbox!Next
<1>4. CASE AnswerLost(w, m)
  <2>1. /\ At(w, m, "send") /\ copies' = [copies EXCEPT ![m] = @ + 1]
        /\ faults' = [faults EXCEPT ![m] = @ + 1]
    BY <1>4 DEF AnswerLost
  <2>2. Outbox!Copy(m)
    BY <1>1, <1>2, <2>1, OutboxSteps
  <2> QED BY <2>2 DEF Outbox!Next
<1>5. CASE RecordFails(w, m)
  <2>1. UNCHANGED copies /\ faults' = [faults EXCEPT ![m] = @ + 1]
    BY <1>5 DEF RecordFails
  <2>2. Outbox!Lose(m)
    BY <1>1, <2>1, OutboxSteps
  <2> QED BY <2>2 DEF Outbox!Next
<1>6. CASE ~ProviderAccepts(w, m) /\ ~AnswerLost(w, m) /\ ~RecordFails(w, m)
  <2>1. Quiet
    BY <1>6 DEF Deliver, histVars, ReadRow, MarkProcessing, BeginDelivery,
                ProviderRejects, RecordDelivery, AnswerThread, ConfirmDelivery,
                SetThreadStatus, MarkSent,
                InsertNextRow, CatchFailure
  <2>2. CASE Phases' = Phases
    BY <2>1, <2>2, OutboxStutters
  <2>3. CASE Phases' # Phases
    <3>1. Outbox!Close(m)
      BY <1>1, <2>1, <2>3, OutboxSteps
    <3> QED BY <3>1 DEF Outbox!Next
  <2> QED BY <2>2, <2>3
<1> QED BY <1>3, <1>4, <1>5, <1>6
LEMMA OutboxUserStep ==
  ASSUME IInv, NEW m \in Messages, UserStep(m)
  PROVE  [Outbox!Next]_(Outbox!vars)
<1>1. TypeOK /\ NotQueuedYet
  BY DEF IInv
<1>2. CASE Compose(m)
  <2>1. /\ request[m] = "none" /\ UNCHANGED <<job, copies, faults>>
        /\ request' = [request EXCEPT ![m] = "composed"]
    BY <1>2 DEF Compose, histVars
  <2>2. job[m] = NoJob
    BY <1>1, <2>1 DEF NotQueuedYet
  <2>3. Phases' = [Phases EXCEPT ![m] = "accepted"]
    BY <1>1, <2>1, <2>2, PhaseRequest
  <2>4. Phases[m] = "new"
    BY <2>1, <2>2 DEF Phases, Phase, RequestPhase, NoJob
  <2>5. Outbox!Accept(m)
    BY <2>1, <2>3, <2>4, OutboxSteps
  <2> QED BY <2>5 DEF Outbox!Next
<1>3. CASE InsertRow(m) \/ RequestFails(m)
  <2>1. request[m] \in {"composed", "rowed"} /\ UNCHANGED <<job, copies, faults>>
    BY <1>3 DEF InsertRow, RequestFails, histVars
  <2>2. job[m] = NoJob
    BY <1>1, <2>1 DEF NotQueuedYet
  <2>3. Phases[m] = "accepted"
    BY <2>1, <2>2 DEF Phases, Phase, RequestPhase, NoJob
  <2>4. PICK r \in {"rowed", "lost"} : request' = [request EXCEPT ![m] = r]
    BY <1>3 DEF InsertRow, RequestFails
  <2>5. Phases' = [Phases EXCEPT ![m] = IF r = "lost" THEN "abandoned" ELSE "accepted"]
    BY <1>1, <2>1, <2>2, <2>4, PhaseRequest
  <2>6. CASE r = "rowed"
    <3>1. Phases' = Phases
      BY <2>3, <2>5, <2>6 DEF Phases
    <3> QED BY <2>1, <3>1, OutboxStutters
  <2>7. CASE r = "lost"
    <3>1. Phases' = [n \in Messages |-> IF n \in {m} THEN "abandoned" ELSE Phases[n]]
      BY <2>5, <2>7 DEF Phases
    <3>2. Outbox!Abandon({m})
      BY <2>1, <2>3, <3>1 DEF Outbox!Abandon, Phases
    <3> QED BY <3>2 DEF Outbox!Next
  <2> QED BY <2>6, <2>7
<1>4. CASE Enqueue(m)
  <2>1. /\ request[m] \in {"composed", "rowed"} /\ UNCHANGED <<copies, faults>>
        /\ request' = [request EXCEPT ![m] = "done"]
        /\ job' = [job EXCEPT ![m] = Added(m \in Scheduled /\ ~due[m])]
    BY <1>4 DEF Enqueue, histVars
  <2>2. job[m] = NoJob
    BY <1>1, <2>1 DEF NotQueuedYet
  <2>3. Phases[m] = "accepted"
    BY <2>1, <2>2 DEF Phases, Phase, RequestPhase, NoJob
  <2>4. /\ job'[m].state \in {"delayed", "waiting"}
        /\ \A n \in Messages : n # m => job'[n] = job[n] /\ request'[n] = request[n]
    BY <1>1, <2>1 DEF TypeOK, Added, NoJob
  <2>5. Phase(m)' = "queued"
    BY <2>4 DEF Phase, Finished
  <2>6. \A n \in Messages : n # m => Phase(n)' = Phase(n)
    BY <2>4 DEF Phase, RequestPhase, Finished
  <2>7. Phases' = [Phases EXCEPT ![m] = "queued"]
    BY <2>5, <2>6 DEF Phases
  <2>8. Outbox!Queue(m)
    BY <2>1, <2>3, <2>7, OutboxSteps
  <2> QED BY <2>8 DEF Outbox!Next
<1>5. CASE CancelRead(m) \/ CancelWrite(m) \/ DeleteThread(m)
  <2>1. UNCHANGED <<request, job, copies, faults>>
    BY <1>5 DEF CancelRead, CancelWrite, DeleteThread, userVars, histVars
  <2> QED BY <2>1, PhaseHidden, OutboxStutters DEF Hidden
<1> QED BY <1>2, <1>3, <1>4, <1>5 DEF UserStep

LEMMA OutboxQueueStep ==
  ASSUME IInv, NEW m \in Messages, QueueStep(m)
  PROVE  [Outbox!Next]_(Outbox!vars)
<1>1. TypeOK /\ job[m] \in Jobs
  BY DEF IInv, TypeOK
<1>2. CASE BecomeDue(m)
  <2>1. UNCHANGED <<request, job, copies, faults>>
    BY <1>2 DEF BecomeDue, histVars
  <2> QED BY <2>1, PhaseHidden, OutboxStutters DEF Hidden
<1>3. CASE Promote(m)
  <2>1. /\ job[m].state = "delayed" /\ job' = [job EXCEPT ![m] = Promoted(job[m])]
        /\ UNCHANGED <<request, copies, faults>>
    BY <1>3 DEF Promote, userVars, histVars
  <2>2. Promoted(job[m]).state = "waiting"
    BY <1>1 DEF Promoted, Jobs
  <2>3. \A n \in Messages : Phase(n)' = Phase(n)
    BY <1>1, <2>1, <2>2 DEF Phase, RequestPhase, Finished, TypeOK
  <2>4. Phases' = Phases
    BY <2>3 DEF Phases
  <2> QED BY <2>1, <2>4, OutboxStutters
<1>4. CASE RecoverStalled(m) \/ LoseLock(m)
  <2>1. /\ job[m].state = "active" /\ job' = [job EXCEPT ![m] = Stalled(job[m])]
        /\ UNCHANGED <<request, copies>> /\ faults' = [faults EXCEPT ![m] = @ + 1]
    BY <1>4 DEF RecoverStalled, LoseLock, userVars
  <2>2. Stalled(job[m]).state # "none" /\ ~Finished(job[m])
    BY <1>1, <2>1 DEF Stalled, Jobs, Finished
  <2>3. /\ Phases[m] \in {"queued", "closed"}
        /\ Phases' \in {Phases, [Phases EXCEPT ![m] = "closed"]}
    BY <1>1, <2>1, <2>2, PhaseStep
  <2>4. Outbox!Lose(m)
    BY <2>1, <2>3, OutboxSteps
  <2> QED BY <2>4 DEF Outbox!Next
<1> QED BY <1>2, <1>3, <1>4 DEF QueueStep

\* A crash abandons every request whose job was not added.
LEMMA OutboxCrash ==
  ASSUME IInv, Crash
  PROVE  [Outbox!Next]_(Outbox!vars)
<1> DEFINE M == {n \in Messages : request[n] \in {"composed", "rowed"}}
<1>1. /\ request' = [n \in Messages |-> IF n \in M THEN "lost" ELSE request[n]]
      /\ UNCHANGED <<job, copies, faults>>
  BY DEF Crash, histVars
<1>2. \A n \in M : job[n].state = "none"
  BY DEF IInv, NotQueuedYet, NoJob
<1>3. \A n \in M : Phase(n) = "accepted" /\ Phase(n)' = "abandoned"
  BY <1>1, <1>2 DEF Phase, RequestPhase
<1>4. \A n \in Messages \ M : Phase(n)' = Phase(n)
  BY <1>1 DEF Phase, RequestPhase, Finished
<1> HIDE DEF M
<1>5. [n \in Messages |-> Phase(n)'] =
        [n \in Messages |-> IF n \in M THEN "abandoned"
                                       ELSE [k \in Messages |-> Phase(k)][n]]
  BY <1>3, <1>4
<1>6. M \in SUBSET Messages
  BY DEF M
<1>7. Outbox!Abandon(M)
  BY <1>1, <1>3, <1>5, <1>6 DEF Outbox!Abandon
<1> QED BY <1>6, <1>7 DEF Outbox!Next

\* The queues, rows and processors implement the outbox.
THEOREM OutboxIsImplemented == Spec => ImplementsOutbox
<1>1. Init => Outbox!Init
  BY DEF Init, Outbox!Init, Phase, RequestPhase, NoJob
<1>2. IInv /\ [Next]_vars => [Outbox!Next]_(Outbox!vars)
  <2> SUFFICES ASSUME IInv, [Next]_vars
               PROVE  [Outbox!Next]_(Outbox!vars)
    OBVIOUS
  <2>1. ASSUME NEW w \in Workers, NEW m \in Messages, SkipByKillSwitch(w, m)
        PROVE  [Outbox!Next]_(Outbox!vars)
    <3> DEFINE j == Completed(Taken(job[m], w), w)
    <3>1. TypeOK /\ job[m] \in Jobs
      BY DEF IInv, TypeOK
    <3>2. /\ job[m].state = "waiting" /\ job' = [job EXCEPT ![m] = j]
          /\ UNCHANGED <<request, copies, faults>>
      BY <2>1 DEF SkipByKillSwitch, userVars
    <3>3. j.state = "completed" /\ ~Finished(job[m])
      BY <3>1, <3>2 DEF Completed, Taken, Jobs, Finished
    <3> HIDE DEF j
    <3>4. \/ Phases' = Phases
          \/ Phases[m] = "queued" /\ Phases' = [Phases EXCEPT ![m] = "closed"]
      BY <3>1, <3>2, <3>3, PhaseStep
    <3>5. UNCHANGED Outbox!vars \/ Outbox!Close(m)
      BY <3>2, <3>4, OutboxSteps, OutboxStutters
    <3> QED BY <3>5 DEF Outbox!Next
  <2>2. ASSUME NEW w \in Workers, NEW m \in Messages, Take(w, m)
        PROVE  [Outbox!Next]_(Outbox!vars)
    <3>1. TypeOK /\ job[m] \in Jobs
      BY DEF IInv, TypeOK
    <3>2. /\ job[m].state = "waiting" /\ job' = [job EXCEPT ![m] = Taken(job[m], w)]
          /\ UNCHANGED <<request, copies, faults>>
      BY <2>2 DEF Take, userVars, histVars
    <3>3. Taken(job[m], w).state = "active"
      BY <3>1 DEF Taken, Jobs
    <3>4. \A n \in Messages : Phase(n)' = Phase(n)
      BY <3>1, <3>2, <3>3 DEF Phase, RequestPhase, Finished, TypeOK
    <3>5. Phases' = Phases
      BY <3>4 DEF Phases
    <3> QED BY <3>2, <3>5, OutboxStutters
  <2>3. CASE ToggleKillSwitch \/ UNCHANGED vars
    <3>1. UNCHANGED <<request, job, copies, faults>>
      BY <2>3 DEF ToggleKillSwitch, vars, userVars, histVars
    <3> QED BY <3>1, PhaseHidden, OutboxStutters DEF Hidden
  <2> QED BY <2>1, <2>2, <2>3, OutboxDeliver, OutboxUserStep, OutboxQueueStep,
             OutboxCrash DEF Next
<1> QED BY <1>1, <1>2, IInvHolds, PTL DEF Spec, ImplementsOutbox, Outbox!Spec

(***************************************************************************)
(* How a processor leaves a step                                            *)
(***************************************************************************)
LEMMA GoEffect ==
  ASSUME TypeOK, NEW w \in Workers, NEW step \in Steps, Go(w, step)
  PROVE  /\ worker'[w].pc = step
         /\ worker'[w].msg = worker[w].msg
         /\ worker'[w].retryCount = worker[w].retryCount
<1>1. worker[w] \in WorkerState /\ worker \in [Workers -> WorkerState]
  BY DEF TypeOK
<1>2. worker' = [worker EXCEPT ![w] = [worker[w] EXCEPT !.pc = step]]
  BY DEF Go
<1>3. worker'[w] = [worker[w] EXCEPT !.pc = step]
  BY <1>1, <1>2
<1> QED BY <1>1, <1>3 DEF WorkerState

LEMMA ReturnEffect ==
  ASSUME TypeOK, NEW w \in Workers, NEW m \in Messages, Return(w, m),
         job[m].owner = w
  PROVE  /\ worker'[w].msg = NoMessage
         /\ job'[m].state = "completed"
<1>1. job \in [Messages -> Jobs] /\ worker \in [Workers -> WorkerState]
  BY DEF TypeOK
<1>2. worker'[w] = Idle
  BY <1>1 DEF Return
<1>3. job'[m] = Completed(job[m], w)
  BY <1>1 DEF Return
<1>4. job[m] \in Jobs
  BY <1>1
<1> QED BY <1>2, <1>3, <1>4 DEF Idle, Completed, Jobs

LEMMA ThrowEffect ==
  ASSUME TypeOK, NEW w \in Workers, NEW m \in Messages, Throw(w, m),
         job[m].owner = w
  PROVE  /\ worker'[w].msg = NoMessage
         /\ job'[m].attemptsMade = job[m].attemptsMade + 1
         /\ job'[m].state = IF job[m].attemptsMade + 1 < Attempts THEN "waiting"
                                                                 ELSE "failed"
<1>1. job \in [Messages -> Jobs] /\ worker \in [Workers -> WorkerState]
  BY DEF TypeOK
<1>2. worker'[w] = Idle
  BY <1>1 DEF Throw
<1>3. job'[m] = AttemptFailed(job[m], w)
  BY <1>1 DEF Throw
<1>4. job[m] \in Jobs
  BY <1>1
<1> QED BY <1>2, <1>3, <1>4 DEF Idle, AttemptFailed, Jobs

(***************************************************************************)
(* Mails a step does not touch                                              *)
(***************************************************************************)
\* What the outcome of n depends on is as it was, for the runs that remain.
Untouched(n) ==
  /\ job'[n] = job[n] /\ row'[n] = row[n] /\ message'[n] = message[n]
  /\ request'[n] = request[n] /\ due'[n] = due[n]
  /\ faults'[n] = faults[n] /\ hiccup'[n] = hiccup[n] /\ skipped'[n] = skipped[n]
  /\ \A w \in Workers : worker'[w].msg = n => worker'[w] = worker[w]

LEMMA UntouchedKeeps ==
  ASSUME NEW n \in Messages, Outcome(n), Untouched(n)
  PROVE  Outcome(n)'
<1>1. \A w \in RunsOn(n)' : w \in RunsOn(n) /\ worker'[w] = worker[w]
  BY DEF Untouched, RunsOn
<1>2. RunOwnsJob(n)' /\ RunFits(n)'
  BY <1>1 DEF Outcome, Untouched, RunOwnsJob, RunFits
<1>3. ReadyIsDue(n)' /\ RowFollows(n)' /\ HasOutcome(n)'
  BY DEF Outcome, Untouched, ReadyIsDue, RowFollows, RowExists, HasOutcome
<1>4. CountsAgree(n)'
  BY <1>1 DEF Outcome, Untouched, CountsAgree, Unharmed, RowExists
<1>5. EndIsEnd(n)'
  BY <1>1 DEF Outcome, Untouched, EndIsEnd, Unharmed
<1> QED BY <1>2, <1>3, <1>4, <1>5 DEF Outcome

LEMMA DeliverElsewhere ==
  ASSUME IInv, NEW w \in Workers, NEW m \in Messages, Deliver(w, m),
         NEW n \in Messages, n # m
  PROVE  Untouched(n)
<1>1. TypeOK /\ Known
  BY DEF IInv, Known
<1>2. worker[w].msg = m /\ Leaves(w, m) /\ UNCHANGED userVars
  BY <1>1, DeliverShape
<1>3. \A v \in Workers : worker'[v].msg = n => worker'[v] = worker[v]
  <2>1. /\ \A v \in Workers : v # w => worker'[v] = worker[v]
        /\ worker'[w].msg \in {m, NoMessage}
    BY <1>1, <1>2, LeavesKnown
  <2> QED BY <2>1, DeliveryAssumption
<1>4. job'[n] = job[n]
  <2>1. PICK j : job' = [job EXCEPT ![m] = j]
    BY <1>2 DEF Leaves
  <2> QED BY <1>1, <2>1 DEF TypeOK
<1>5. request'[n] = request[n] /\ due'[n] = due[n]
  BY <1>2 DEF userVars
<1>6. /\ row'[n] = row[n] /\ message'[n] = message[n]
      /\ faults'[n] = faults[n] /\ hiccup'[n] = hiccup[n] /\ skipped'[n] = skipped[n]
  <2> USE <1>1 DEF TypeOK, storeVars, histVars
  <2>1. CASE ReadRow(w, m)
    BY <2>1 DEF ReadRow
  <2>2. CASE MarkProcessing(w, m)
    BY <2>2 DEF MarkProcessing
  <2>3. CASE BeginDelivery(w, m)
    BY <2>3 DEF BeginDelivery
  <2>4. CASE ProviderAccepts(w, m)
    BY <2>4 DEF ProviderAccepts
  <2>5. CASE ProviderRejects(w, m)
    BY <2>5 DEF ProviderRejects
  <2>6. CASE AnswerLost(w, m)
    BY <2>6 DEF AnswerLost
  <2>7. CASE RecordDelivery(w, m)
    BY <2>7 DEF RecordDelivery
  <2>8. CASE AnswerThread(w, m)
    BY <2>8 DEF AnswerThread
  <2>9. CASE RecordFails(w, m)
    BY <2>9 DEF RecordFails
  <2>10. CASE ConfirmDelivery(w, m)
    BY <2>10 DEF ConfirmDelivery
  <2>11. CASE SetThreadStatus(w, m)
    BY <2>11 DEF SetThreadStatus
  <2>12. CASE MarkSent(w, m)
    BY <2>12 DEF MarkSent
  <2>13. CASE InsertNextRow(w, m)
    BY <2>13 DEF InsertNextRow
  <2>14. CASE CatchFailure(w, m)
    BY <2>14 DEF CatchFailure
  <2> QED BY <2>1, <2>2, <2>3, <2>4, <2>5, <2>6, <2>7, <2>8, <2>9, <2>10, <2>11,
             <2>12, <2>13, <2>14 DEF Deliver
<1> QED BY <1>3, <1>4, <1>5, <1>6 DEF Untouched

(***************************************************************************)
(* The mail of a processor's step                                           *)
(***************************************************************************)
\* What every step of a processor at its own mail may rely on.
AtWork(w, m) ==
  /\ worker[w].msg = m /\ request[m] = "done" /\ request' = request /\ due' = due
  /\ \A v \in Workers : v # w => worker'[v] = worker[v]
  /\ faults[m] = 0 =>
       /\ job[m].owner = w /\ job[m].state = "active"
       /\ RunsOn(m) = {w} /\ RunsOn(m)' \subseteq {w}
  /\ job[m].owner = w => job[m].state = "active"
  /\ faults[m] \in Nat /\ faults'[m] \in Nat
  /\ job[m] \in Jobs /\ row[m] \in ScheduledRow
  /\ m # NoMessage

LEMMA DeliverAtWork ==
  ASSUME IInv, NEW w \in Workers, NEW m \in Messages, Outcome(m), Deliver(w, m),
         TypeOK'
  PROVE  AtWork(w, m)
<1>1. TypeOK /\ Known
  BY DEF IInv, Known
<1>2. worker[w].msg = m /\ Leaves(w, m) /\ UNCHANGED userVars
  BY <1>1, DeliverShape
<1>3. /\ request[m] = "done"
      /\ \A v \in Workers : v # w => worker'[v] = worker[v]
      /\ worker'[w].msg \in {m, NoMessage}
  BY <1>1, <1>2, LeavesKnown
<1>4. /\ faults[m] \in Nat /\ faults'[m] \in Nat
      /\ job[m] \in Jobs /\ row[m] \in ScheduledRow
  BY <1>1 DEF TypeOK
<1>5. job[m].owner = w => job[m].state = "active"
  BY <1>1, QueueAssumption DEF Known, LockMeansActive
<1>6. ASSUME faults[m] = 0
      PROVE  /\ job[m].owner = w
             /\ RunsOn(m) = {w} /\ RunsOn(m)' \subseteq {w}
  <2>1. \A v \in RunsOn(m) : job[m].owner = v
    BY <1>6 DEF Outcome, RunOwnsJob
  <2>2. w \in RunsOn(m)
    BY <1>2 DEF RunsOn
  <2>3. RunsOn(m) = {w}
    BY <2>1, <2>2
  <2>4. \A v \in RunsOn(m)' : v = w
    <3> SUFFICES ASSUME NEW v \in Workers, worker'[v].msg = m, v # w
                 PROVE  FALSE
      BY DEF RunsOn
    <3>1. v \in RunsOn(m)
      BY <1>3 DEF RunsOn
    <3> QED BY <2>3, <3>1
  <2> QED BY <2>1, <2>2, <2>3, <2>4
<1>7. m # NoMessage
  BY DeliveryAssumption
<1> QED BY <1>2, <1>3, <1>4, <1>5, <1>6, <1>7 DEF AtWork, userVars

\* What a step on m must say of the row, whichever way the run goes on.
Monotone(m) ==
  /\ faults'[m] = 0 => faults[m] = 0
  /\ Unharmed(m)' => Unharmed(m)

\* The run goes on.
LEMMA GoKeeps ==
  ASSUME TypeOK, NEW w \in Workers, NEW m \in Messages, Outcome(m), AtWork(w, m),
         NEW step \in Steps, worker'[w].pc = step, worker'[w].msg = m, UNCHANGED job,
         step \in ScheduledSteps => m \in Scheduled,
         RowFollows(m)', Monotone(m),
         Unharmed(m)' /\ RowExists(m)' =>
           /\ RowExists(m) /\ row'[m].retryCount = row[m].retryCount
           /\ \/ worker'[w].retryCount = row[m].retryCount
              \/ /\ worker[w].pc # "readRow"
                 /\ worker'[w].retryCount = worker[w].retryCount,
         Unharmed(m)' =>
           /\ row'[m].status = "failed" => row[m].status = "failed"
           /\ row'[m].status = "sent" => step = "recur"
           /\ step = "recur" => row'[m].status \in {"sent", "cancelled", "deleted"}
  PROVE  Outcome(m)'
<1>2. faults'[m] = 0 => /\ job[m].owner = w /\ job[m].state = "active"
                        /\ RunsOn(m) = {w} /\ RunsOn(m)' \subseteq {w}
  BY DEF AtWork, Monotone
<1>3. RunOwnsJob(m)'
  BY <1>2 DEF RunOwnsJob
<1>4. RunFits(m)'
  <2> SUFFICES ASSUME NEW v \in RunsOn(m)', worker'[v].pc \in ScheduledSteps
               PROVE  m \in Scheduled
    BY DEF RunFits
  <2>1. CASE v = w
    BY <2>1
  <2>2. CASE v # w
    BY <2>2 DEF AtWork, RunsOn, Outcome, RunFits
  <2> QED BY <2>1, <2>2
<1>5. ReadyIsDue(m)'
  BY DEF Outcome, ReadyIsDue, AtWork
<1>6. HasOutcome(m)'
  BY <1>2 DEF HasOutcome, Finished
<1>7. CountsAgree(m)'
  <2> SUFFICES ASSUME Unharmed(m)', RowExists(m)', ~Finished(job[m])
               PROVE  /\ row'[m].retryCount = job[m].attemptsMade
                      /\ \A v \in RunsOn(m)' :
                           worker'[v].pc # "readRow"
                             => worker'[v].retryCount = row'[m].retryCount
    BY DEF CountsAgree
  <2>1. /\ row[m].retryCount = job[m].attemptsMade
        /\ \A v \in RunsOn(m) :
             worker[v].pc # "readRow" => worker[v].retryCount = row[m].retryCount
    BY DEF Outcome, CountsAgree, Monotone
  <2>2. RunsOn(m)' \subseteq {w} /\ w \in RunsOn(m)
    BY <1>2 DEF Unharmed
  <2> QED BY <2>1, <2>2
<1>8. EndIsEnd(m)'
  <2> SUFFICES ASSUME Unharmed(m)'
               PROVE  /\ row'[m].status = "failed" => Finished(job[m])
                      /\ row'[m].status = "sent"
                           => job[m].state \notin {"none", "delayed", "waiting"}
                      /\ \A v \in RunsOn(m)' :
                           /\ row'[m].status = "sent" => worker'[v].pc = "recur"
                           /\ worker'[v].pc = "recur"
                                => row'[m].status \in {"sent", "cancelled", "deleted"}
    BY DEF EndIsEnd
  <2>1. job[m].state = "active" /\ RunsOn(m)' \subseteq {w}
    BY <1>2 DEF Unharmed
  <2>2. row[m].status = "failed" => Finished(job[m])
    BY DEF Outcome, EndIsEnd, Monotone
  <2> QED BY <2>1, <2>2
<1> QED BY <1>3, <1>4, <1>5, <1>6, <1>7, <1>8 DEF Outcome

\* The part every end of a run shares: it has let go of the mail.
LEMMA LetGo ==
  ASSUME NEW w \in Workers, NEW m \in Messages, Outcome(m), AtWork(w, m),
         Monotone(m), Leaves(w, m), TypeOK, worker'[w].msg = NoMessage
  PROVE  /\ RunOwnsJob(m)' /\ RunFits(m)' /\ ReadyIsDue(m)'
         /\ faults'[m] = 0 => RunsOn(m)' = {}
<1>1. m # NoMessage /\ w \notin RunsOn(m)'
  BY DEF AtWork, RunsOn
<1>2. faults'[m] = 0 => RunsOn(m)' = {}
  BY <1>1 DEF AtWork, Monotone
<1>3. RunOwnsJob(m)'
  BY <1>2 DEF RunOwnsJob
<1>4. RunFits(m)'
  <2> SUFFICES ASSUME NEW v \in RunsOn(m)', worker'[v].pc \in ScheduledSteps
               PROVE  m \in Scheduled
    BY DEF RunFits
  <2> QED BY <1>1 DEF AtWork, RunsOn, Outcome, RunFits
<1>5. ReadyIsDue(m)'
  <2>1. PICK j \in {job[m], Completed(job[m], w), AttemptFailed(job[m], w)} :
          job' = [job EXCEPT ![m] = j]
    BY DEF Leaves
  <2>2. job'[m] = j
    BY <2>1 DEF TypeOK
  <2>3. j.state \notin {"none", "delayed"} => job[m].state \notin {"none", "delayed"}
    BY <2>1 DEF AtWork, Completed, AttemptFailed
  <2> QED BY <2>2, <2>3 DEF AtWork, Outcome, ReadyIsDue
<1> QED BY <1>2, <1>3, <1>4, <1>5

\* The run returns: its job is completed.
LEMMA ReturnKeeps ==
  ASSUME TypeOK, NEW w \in Workers, NEW m \in Messages, Outcome(m), AtWork(w, m),
         Leaves(w, m), Return(w, m),
         RowFollows(m)', Monotone(m),
         Unharmed(m)' => IF m \in Scheduled
                         THEN row'[m].status \in {"sent", "failed", "cancelled", "deleted"}
                         ELSE message'[m].messageId
  PROVE  Outcome(m)'
<1>1. worker'[w].msg = NoMessage
  BY DEF Return, TypeOK, Idle
<1>2. /\ RunOwnsJob(m)' /\ RunFits(m)' /\ ReadyIsDue(m)'
      /\ faults'[m] = 0 => RunsOn(m)' = {}
  BY <1>1, LetGo
<1>3. faults'[m] = 0 => job'[m].state = "completed"
  BY ReturnEffect DEF AtWork, Monotone
<1>4. HasOutcome(m)'
  BY <1>3 DEF HasOutcome, Unharmed
<1>5. CountsAgree(m)'
  BY <1>3 DEF CountsAgree, Unharmed, Finished
<1>6. EndIsEnd(m)'
  BY <1>2, <1>3 DEF EndIsEnd, Unharmed, Finished
<1> QED BY <1>2, <1>4, <1>5, <1>6 DEF Outcome

\* The run throws: the row and the job have counted the failure.
LEMMA ThrowKeeps ==
  ASSUME TypeOK, NEW w \in Workers, NEW m \in Messages, Outcome(m), AtWork(w, m),
         Leaves(w, m), Throw(w, m), MaxRetries = Attempts,
         RowFollows(m)', Monotone(m),
         row'[m].status \in RowStates,
         Unharmed(m)' /\ RowExists(m)' =>
           /\ row'[m].retryCount = job[m].attemptsMade + 1
           /\ row'[m].status = IF job[m].attemptsMade + 1 >= MaxRetries THEN "failed"
                                                                     ELSE "pending"
  PROVE  Outcome(m)'
<1>1. worker'[w].msg = NoMessage
  BY DEF Throw, TypeOK, Idle
<1>2. /\ RunOwnsJob(m)' /\ RunFits(m)' /\ ReadyIsDue(m)'
      /\ faults'[m] = 0 => RunsOn(m)' = {}
  BY <1>1, LetGo
<1>3. faults'[m] = 0 =>
        /\ job'[m].attemptsMade = job[m].attemptsMade + 1
        /\ job'[m].state = IF job[m].attemptsMade + 1 < Attempts THEN "waiting"
                                                                ELSE "failed"
  BY ThrowEffect DEF AtWork, Monotone
<1>4. job[m].attemptsMade \in Nat /\ Attempts \in Nat
  BY QueueAssumption DEF AtWork, Jobs
<1>5. m \in Scheduled => row'[m].status # "none"
  BY DEF RowFollows, AtWork
<1>6. HasOutcome(m)'
  <2> SUFFICES ASSUME Finished(job'[m]), Unharmed(m)', m \in Scheduled
               PROVE  row'[m].status \in {"sent", "failed", "cancelled", "deleted"}
    BY <1>3 DEF HasOutcome, Finished, Unharmed
  <2>1. job[m].attemptsMade + 1 >= MaxRetries
    BY <1>3, <1>4 DEF Finished, Unharmed
  <2> QED BY <1>5, <2>1 DEF RowExists, RowStates
<1>7. CountsAgree(m)'
  BY <1>2, <1>3 DEF CountsAgree, Unharmed
<1>8. EndIsEnd(m)'
  <2> SUFFICES ASSUME Unharmed(m)'
               PROVE  /\ row'[m].status = "failed" => Finished(job'[m])
                      /\ row'[m].status # "sent"
    BY <1>2 DEF EndIsEnd, Unharmed
  <2>1. row'[m].status \in {"failed", "sent"} => RowExists(m)'
    BY DEF RowExists
  <2> QED BY <1>3, <1>4, <2>1 DEF Unharmed, Finished
<1> QED BY <1>2, <1>6, <1>7, <1>8 DEF Outcome

\* A step that leaves the row alone, or rewrites one that exists.
LEMMA RowFollowsStep ==
  ASSUME NEW m \in Messages, RowFollows(m), request' = request,
         message'[m].stored = message[m].stored,
         \/ row'[m].status = row[m].status
         \/ RowExists(m) /\ row'[m].status \in {"pending", "processing", "sent", "failed"}
  PROVE  RowFollows(m)'
  BY DEF RowFollows, RowExists

\* Going on without touching the row.
LEMMA GoOnKeeps ==
  ASSUME TypeOK, NEW w \in Workers, NEW m \in Messages, Outcome(m), AtWork(w, m),
         NEW step \in Steps, Go(w, step), UNCHANGED <<job, row>>,
         message'[m].stored = message[m].stored,
         step \in ScheduledSteps => m \in Scheduled, Monotone(m),
         worker[w].pc \notin {"readRow", "recur"}, step # "recur"
  PROVE  Outcome(m)'
<1>1. worker'[w].pc = step /\ worker'[w].msg = m
        /\ worker'[w].retryCount = worker[w].retryCount
  BY GoEffect DEF AtWork
<1>2. RowFollows(m)'
  BY RowFollowsStep DEF AtWork, Outcome
<1>3. RowExists(m)' <=> RowExists(m)
  BY DEF RowExists
<1>4. Unharmed(m)' => row[m].status # "sent"
  <2>1. w \in RunsOn(m)
    BY DEF AtWork, RunsOn
  <2> QED BY <2>1 DEF Outcome, EndIsEnd, Monotone
<1> QED BY <1>1, <1>2, <1>3, <1>4, GoKeeps

\* The delivery throws.
LEMMA DeliveryThrowsKeeps ==
  ASSUME TypeOK, NEW w \in Workers, NEW m \in Messages, Outcome(m), AtWork(w, m),
         Leaves(w, m), DeliveryThrows(w, m), MaxRetries = Attempts,
         UNCHANGED <<row, message>>, Monotone(m),
         worker[w].pc \notin {"readRow", "recur"}
  PROVE  Outcome(m)'
<1>1. CASE m \in Scheduled
  BY <1>1, GoOnKeeps DEF DeliveryThrows, Steps
<1>2. CASE m \notin Scheduled
  <2>1. RowFollows(m)'
    BY RowFollowsStep DEF AtWork, Outcome
  <2>2. row'[m].status = "none" /\ ~RowExists(m)'
    BY <1>2 DEF Outcome, RowFollows, RowExists
  <2> QED BY <1>2, <2>1, <2>2, ThrowKeeps DEF DeliveryThrows, RowStates
<1> QED BY <1>1, <1>2

\* Every step of a processor keeps what is known of its mail.
LEMMA DeliverOutcome ==
  ASSUME IInv, TypeOK', NEW w \in Workers, NEW m \in Messages, Outcome(m),
         Deliver(w, m), MaxRetries = Attempts
  PROVE  Outcome(m)'
<1>1. TypeOK /\ Known
  BY DEF IInv, Known
<1>2. AtWork(w, m)
  BY DeliverAtWork
<1>3. Leaves(w, m)
  BY <1>1, DeliverShape
<1>4. worker[w].pc \in ScheduledSteps => m \in Scheduled
  BY <1>2 DEF Outcome, RunFits, AtWork, RunsOn
<1>5. w \in RunsOn(m) /\ RowFollows(m)
  BY <1>2 DEF AtWork, RunsOn, Outcome
<1>6. m \in Scheduled => row[m].status \in RowStates \ {"none"}
  BY <1>1, <1>2, <1>5, RowTyped DEF RowFollows, AtWork
<1>7. CASE ReadRow(w, m)
  <2>1. Monotone(m) /\ RowFollows(m)'
    BY <1>2, <1>5, <1>7, RowFollowsStep
    DEF ReadRow, Monotone, Unharmed, histVars, storeVars, AtWork
  <2>2. m \in Scheduled
    BY <1>4, <1>7 DEF ReadRow, At, ScheduledSteps
  <2>3. Unharmed(m) => row[m].status # "sent"
    BY <1>5, <1>7 DEF ReadRow, At, Outcome, EndIsEnd
  <2>4. CASE Sendable(m)
    <3>1. /\ worker' = [worker EXCEPT ![w] = [worker[w] EXCEPT !.pc = "mark",
                                              !.retryCount = row[m].retryCount]]
          /\ UNCHANGED <<job, row>>
      BY <1>7, <2>4 DEF ReadRow, storeVars
    <3>2. worker[w] \in WorkerState /\ worker \in [Workers -> WorkerState]
      BY <1>1 DEF TypeOK
    <3>3. worker'[w] = [worker[w] EXCEPT !.pc = "mark", !.retryCount = row[m].retryCount]
      BY <3>1, <3>2
    <3>4. /\ worker'[w].pc = "mark" /\ worker'[w].msg = m
          /\ worker'[w].retryCount = row[m].retryCount
      BY <1>2, <3>2, <3>3 DEF WorkerState, AtWork
    <3>5. RowExists(m)' <=> RowExists(m)
      BY <3>1 DEF RowExists
    <3> QED BY <1>1, <1>2, <2>1, <2>2, <2>3, <3>1, <3>4, <3>5, GoKeeps DEF Monotone, Steps
  <2>5. CASE ~Sendable(m)
    <3>1. Return(w, m) /\ row' = row
      BY <1>7, <2>5 DEF ReadRow, storeVars
    <3>2. Unharmed(m) => due[m]
      BY <1>2, <2>2 DEF Unharmed, AtWork, Outcome, ReadyIsDue
    <3>3. Unharmed(m) => row[m].status \in {"cancelled", "deleted"}
      BY <1>6, <2>2, <2>5, <3>2 DEF Sendable, RowExists, RowStates
    <3> QED BY <1>1, <1>2, <1>3, <2>1, <2>2, <3>1, <3>3, ReturnKeeps DEF Monotone
  <2> QED BY <2>4, <2>5
<1>8. CASE MarkProcessing(w, m)
  <2>1. Monotone(m) /\ UNCHANGED message
    BY <1>1, <1>8 DEF MarkProcessing, Monotone, Unharmed, TypeOK
  <2>2. CASE RowExists(m) /\ (row' = [row EXCEPT ![m].status = "processing"])
             /\ Go(w, "deliver") /\ UNCHANGED job
    <3>1. row'[m].status = "processing" /\ row'[m].retryCount = row[m].retryCount
      BY <1>1, <1>2, <2>2 DEF AtWork, ScheduledRow, TypeOK
    <3>2. RowFollows(m)'
      BY <1>2, <1>5, <2>1, <2>2, <3>1, RowFollowsStep DEF AtWork
    <3>3. "deliver" \in Steps /\ "deliver" \notin ScheduledSteps
      BY DEF Steps, ScheduledSteps
    <3>4. worker[w].pc # "readRow"
      BY <1>8 DEF MarkProcessing, At
    <3>5. /\ worker'[w].pc = "deliver" /\ worker'[w].msg = m
          /\ worker'[w].retryCount = worker[w].retryCount
      BY <1>1, <1>2, <2>2, <3>3, GoEffect DEF AtWork
    <3> QED BY <1>1, <1>2, <2>1, <2>2, <3>1, <3>2, <3>3, <3>4, <3>5, GoKeeps
  <2>3. CASE Throw(w, m) /\ (hiccup' = [hiccup EXCEPT ![m] = @ \/ RowExists(m)])
             /\ UNCHANGED row
    <3>1. RowFollows(m)'
      BY <1>2, <1>5, <2>1, <2>3, RowFollowsStep DEF AtWork
    <3>2. Unharmed(m)' => ~RowExists(m)'
      BY <1>1, <2>3 DEF Unharmed, RowExists, TypeOK
    <3>3. row'[m].status \in RowStates
      BY <1>1, <2>3, RowTyped
    <3> QED BY <1>1, <1>2, <1>3, <2>1, <2>3, <3>1, <3>2, <3>3, ThrowKeeps
  <2> QED BY <1>8, <2>2, <2>3 DEF MarkProcessing
<1>9. CASE BeginDelivery(w, m)
  <2>1. Monotone(m) /\ UNCHANGED <<row, message>>
    BY <1>9 DEF BeginDelivery, Monotone, Unharmed, histVars, storeVars
  <2>2. worker[w].pc \notin {"readRow", "recur"}
    BY <1>9 DEF BeginDelivery, At
  <2>3. CASE DeliveryThrows(w, m)
    BY <1>1, <1>2, <1>3, <2>1, <2>2, <2>3, DeliveryThrowsKeeps
  <2>4. CASE Go(w, "confirm") /\ (UNCHANGED job) /\ m \in Scheduled
    BY <1>1, <1>2, <2>1, <2>2, <2>4, GoOnKeeps DEF Steps
  <2>5. CASE Go(w, "send") /\ UNCHANGED job
    BY <1>1, <1>2, <2>1, <2>2, <2>5, GoOnKeeps DEF Steps, ScheduledSteps
  <2>6. CASE Return(w, m) /\ m \notin Scheduled /\ Recorded(m)
    <3>1. RowFollows(m)'
      BY <1>2, <1>5, <2>1, RowFollowsStep DEF AtWork
    <3> QED BY <1>1, <1>2, <1>3, <2>1, <2>6, <3>1, ReturnKeeps DEF Recorded
  <2>7. \/ DeliveryThrows(w, m)
        \/ Return(w, m) /\ m \notin Scheduled /\ Recorded(m)
        \/ Go(w, "confirm") /\ (UNCHANGED job) /\ m \in Scheduled
        \/ Go(w, "send") /\ UNCHANGED job
    BY <1>9 DEF BeginDelivery, AlreadyDelivered
  <2> QED BY <2>3, <2>4, <2>5, <2>6, <2>7
<1>10. CASE ProviderAccepts(w, m)
  <2>1. Monotone(m) /\ UNCHANGED <<row, message, job>> /\ Go(w, "record")
    BY <1>10 DEF ProviderAccepts, Monotone, Unharmed, storeVars
  <2>2. worker[w].pc \notin {"readRow", "recur"}
    BY <1>10 DEF ProviderAccepts, At
  <2> QED BY <1>1, <1>2, <2>1, <2>2, GoOnKeeps DEF Steps, ScheduledSteps
<1>11. CASE ProviderRejects(w, m)
  <2>1. Monotone(m) /\ UNCHANGED <<row, message>>
    BY <1>11 DEF ProviderRejects, Monotone, Unharmed, histVars, storeVars
  <2>2. worker[w].pc \notin {"readRow", "recur"} /\ DeliveryThrows(w, m)
    BY <1>11 DEF ProviderRejects, At
  <2> QED BY <1>1, <1>2, <1>3, <2>1, <2>2, DeliveryThrowsKeeps
<1>12. CASE AnswerLost(w, m)
  <2>1. Monotone(m) /\ UNCHANGED <<row, message>>
    BY <1>1, <1>12 DEF AnswerLost, Monotone, Unharmed, storeVars, TypeOK
  <2>2. worker[w].pc \notin {"readRow", "recur"} /\ DeliveryThrows(w, m)
    BY <1>12 DEF AnswerLost, At
  <2> QED BY <1>1, <1>2, <1>3, <2>1, <2>2, DeliveryThrowsKeeps
<1>13. CASE RecordDelivery(w, m)
  <2>1. Monotone(m) /\ UNCHANGED <<row, job>> /\ Go(w, "respond")
    BY <1>13 DEF RecordDelivery, Monotone, Unharmed, histVars
  <2>2. worker[w].pc \notin {"readRow", "recur"}
    BY <1>13 DEF RecordDelivery, At
  <2>3. message'[m].stored = message[m].stored
    <3>1. message[m] \in MessageRow /\ message \in [Messages -> MessageRow]
      BY <1>1 DEF TypeOK
    <3> QED BY <1>13, <3>1 DEF RecordDelivery, MessageRow
  <2> QED BY <1>1, <1>2, <2>1, <2>2, <2>3, GoOnKeeps DEF Steps, ScheduledSteps
<1>14. CASE AnswerThread(w, m)
  <2>1. Monotone(m) /\ UNCHANGED <<row, message>>
    BY <1>14 DEF AnswerThread, Monotone, Unharmed, histVars
  <2>2. worker[w].pc \notin {"readRow", "recur"}
    BY <1>14 DEF AnswerThread, At
  <2>3. CASE m \in Scheduled
    <3>1. Go(w, "confirm") /\ UNCHANGED job
      BY <1>14, <2>3 DEF AnswerThread
    <3> QED BY <1>1, <1>2, <2>1, <2>2, <2>3, <3>1, GoOnKeeps DEF Steps
  <2>4. CASE m \notin Scheduled
    <3>1. Return(w, m)
      BY <1>14, <2>4 DEF AnswerThread
    <3>2. Recorded(m)
      BY <1>1, <1>2, <1>14 DEF Known, ProcessorsKnow, AnswerThread, At, AtWork
    <3>3. RowFollows(m)'
      BY <1>2, <1>5, <2>1, RowFollowsStep DEF AtWork
    <3> QED BY <1>1, <1>2, <1>3, <2>1, <2>4, <3>1, <3>2, <3>3, ReturnKeeps DEF Recorded
  <2> QED BY <2>3, <2>4
<1>15. CASE RecordFails(w, m)
  <2>1. Monotone(m) /\ UNCHANGED <<row, message>>
    BY <1>1, <1>15 DEF RecordFails, Monotone, Unharmed, storeVars, TypeOK
  <2>2. worker[w].pc \notin {"readRow", "recur"} /\ DeliveryThrows(w, m)
    BY <1>15 DEF RecordFails, At
  <2> QED BY <1>1, <1>2, <1>3, <2>1, <2>2, DeliveryThrowsKeeps
<1>16. CASE ConfirmDelivery(w, m)
  <2>1. Monotone(m) /\ UNCHANGED <<row, message, job>>
    BY <1>16 DEF ConfirmDelivery, Monotone, Unharmed, histVars, storeVars
  <2>2. worker[w].pc \notin {"readRow", "recur"} /\ m \in Scheduled
    BY <1>4, <1>16 DEF ConfirmDelivery, At, ScheduledSteps
  <2>3. Go(w, "status") \/ Go(w, "catch")
    BY <1>16 DEF ConfirmDelivery
  <2> QED BY <1>1, <1>2, <2>1, <2>2, <2>3, GoOnKeeps DEF Steps
<1>17. CASE SetThreadStatus(w, m)
  <2>1. Monotone(m) /\ UNCHANGED <<row, message, job>>
    BY <1>17 DEF SetThreadStatus, Monotone, Unharmed, histVars
  <2>2. worker[w].pc \notin {"readRow", "recur"} /\ m \in Scheduled
    BY <1>4, <1>17 DEF SetThreadStatus, At, ScheduledSteps
  <2>3. Go(w, "markSent") \/ Go(w, "catch")
    BY <1>17 DEF SetThreadStatus
  <2> QED BY <1>1, <1>2, <2>1, <2>2, <2>3, GoOnKeeps DEF Steps
<1>18. CASE MarkSent(w, m)
  <2>1. Monotone(m) /\ UNCHANGED message
    BY <1>1, <1>18 DEF MarkSent, Monotone, Unharmed, TypeOK
  <2>2. worker[w].pc \notin {"readRow", "recur"} /\ m \in Scheduled
    BY <1>4, <1>18 DEF MarkSent, At, ScheduledSteps
  <2>3. CASE RowExists(m) /\ (row' = [row EXCEPT ![m].status = "sent"])
    <3>1. row'[m].status = "sent" /\ row'[m].retryCount = row[m].retryCount
      BY <1>1, <1>2, <2>3 DEF AtWork, ScheduledRow, TypeOK
    <3>2. RowFollows(m)'
      BY <1>2, <1>5, <2>1, <2>3, <3>1, RowFollowsStep DEF AtWork
    <3>3. CASE Go(w, "recur") /\ UNCHANGED job
      <4>1. /\ worker'[w].pc = "recur" /\ worker'[w].msg = m
            /\ worker'[w].retryCount = worker[w].retryCount
        BY <1>1, <1>2, <3>3, GoEffect DEF AtWork, Steps
      <4> QED BY <1>1, <1>2, <2>1, <2>2, <2>3, <3>1, <3>2, <3>3, <4>1, GoKeeps
             DEF Steps
    <3>4. CASE Return(w, m)
      BY <1>1, <1>2, <1>3, <2>1, <2>2, <3>1, <3>2, <3>4, ReturnKeeps
    <3>5. CASE Go(w, "catch") /\ UNCHANGED <<row, job>>
      BY <1>1, <1>2, <2>1, <2>2, <3>5, GoOnKeeps DEF Steps
    <3> QED BY <1>18, <3>3, <3>4, <3>5 DEF MarkSent
  <2>4. CASE Go(w, "catch") /\ UNCHANGED <<row, job>>
    BY <1>1, <1>2, <2>1, <2>2, <2>4, GoOnKeeps DEF Steps
  <2> QED BY <1>18, <2>3, <2>4 DEF MarkSent
<1>19. CASE InsertNextRow(w, m)
  <2>1. Monotone(m) /\ UNCHANGED <<row, message>>
    BY <1>1, <1>19 DEF InsertNextRow, Monotone, Unharmed, TypeOK
  <2>2. m \in Scheduled
    BY <1>4, <1>19 DEF InsertNextRow, At, ScheduledSteps
  <2>3. Unharmed(m) => row[m].status \in {"sent", "cancelled", "deleted"}
    BY <1>5, <1>19 DEF InsertNextRow, At, Outcome, EndIsEnd
  <2>4. RowFollows(m)'
    BY <1>2, <1>5, <2>1, RowFollowsStep DEF AtWork
  <2>5. CASE Return(w, m)
    BY <1>1, <1>2, <1>3, <2>1, <2>2, <2>3, <2>4, <2>5, ReturnKeeps DEF Monotone
  <2>6. CASE Go(w, "catch") /\ (UNCHANGED job)
             /\ (hiccup' = [hiccup EXCEPT ![m] = @ \/ message[m].stored = "present"])
    <3>1. message[m].stored \in {"present", "deleted"}
      <4>1. message[m] \in MessageRow
        BY <1>1 DEF TypeOK
      <4> QED BY <1>2, <1>5, <4>1 DEF RowFollows, AtWork, MessageRow
    <3>2. Unharmed(m)' => ~RowExists(m) /\ ~RowExists(m)'
      BY <1>1, <1>5, <2>1, <2>6, <3>1 DEF Unharmed, RowFollows, TypeOK, RowExists
    <3>3. /\ worker'[w].pc = "catch" /\ worker'[w].msg = m
      BY <1>1, <1>2, <2>6, GoEffect DEF AtWork, Steps
    <3>4. Unharmed(m)' => row'[m].status \notin {"sent", "failed"}
      BY <3>2 DEF RowExists
    <3> QED BY <1>1, <1>2, <2>1, <2>2, <2>4, <2>6, <3>2, <3>3, <3>4, GoKeeps DEF Steps
  <2> QED BY <1>19, <2>5, <2>6 DEF InsertNextRow
<1>20. CASE CatchFailure(w, m)
  <2>1. Monotone(m) /\ UNCHANGED message
    BY <1>1, <1>20 DEF CatchFailure, Monotone, Unharmed, TypeOK
  <2> DEFINE retries == worker[w].retryCount + 1
             written == [status |-> IF retries >= MaxRetries THEN "failed" ELSE "pending",
                         retryCount |-> retries]
  <2>2. Throw(w, m)
    BY <1>20 DEF CatchFailure
  <2>3. CASE RowExists(m) /\ (row' = [row EXCEPT ![m] = written]) /\ (UNCHANGED hiccup)
    <3>1. row'[m] = written
      BY <1>1, <2>3, Zenon DEF TypeOK
    <3>2. /\ row'[m].retryCount = retries
          /\ row'[m].status = IF retries >= MaxRetries THEN "failed" ELSE "pending"
      BY <3>1
    <3>3. Unharmed(m)' => retries = job[m].attemptsMade + 1
      <4> SUFFICES ASSUME Unharmed(m)'
                   PROVE  worker[w].retryCount = job[m].attemptsMade
        OBVIOUS
      <4>1. job[m].state = "active" /\ Unharmed(m)
        BY <1>2, <2>1 DEF AtWork, Monotone, Unharmed
      <4>2. worker[w].pc # "readRow"
        BY <1>20 DEF CatchFailure, At
      <4> QED BY <1>5, <2>3, <4>1, <4>2 DEF Outcome, CountsAgree, Finished
    <3> HIDE DEF retries, written
    <3>4. RowFollows(m)'
      BY <1>2, <1>5, <2>1, <2>3, <3>2, RowFollowsStep DEF AtWork
    <3>5. row'[m].status \in RowStates
      BY <3>2 DEF RowStates
    <3> QED BY <1>1, <1>2, <1>3, <2>1, <2>2, <3>2, <3>3, <3>4, <3>5, ThrowKeeps
  <2>4. CASE (hiccup' = [hiccup EXCEPT ![m] = @ \/ RowExists(m)]) /\ (UNCHANGED row)
    <3>1. RowFollows(m)'
      BY <1>2, <1>5, <2>1, <2>4, RowFollowsStep DEF AtWork
    <3>2. Unharmed(m)' => ~RowExists(m)'
      BY <1>1, <2>4 DEF Unharmed, RowExists, TypeOK
    <3>3. row'[m].status \in RowStates
      BY <1>1, <2>4, RowTyped
    <3> QED BY <1>1, <1>2, <1>3, <2>1, <2>2, <3>1, <3>2, <3>3, ThrowKeeps
  <2> QED BY <1>20, <2>3, <2>4, Zenon DEF CatchFailure, Retries
<1> QED BY <1>7, <1>8, <1>9, <1>10, <1>11, <1>12, <1>13, <1>14, <1>15, <1>16, <1>17,
           <1>18, <1>19, <1>20 DEF Deliver

(***************************************************************************)
(* The other steps                                                          *)
(***************************************************************************)
\* The processors are as they were.
LEMMA UserOutcome ==
  ASSUME TypeOK, Known, TypeOK', NEW m \in Messages, UserStep(m), OutcomeInv
  PROVE  OutcomeInv'
<1>1. worker' = worker
  BY DEF UserStep, Compose, InsertRow, Enqueue, RequestFails, CancelRead, CancelWrite,
         DeleteThread
<1>2. ASSUME NEW n \in Messages, n # m
      PROVE  Untouched(n)
  <2> USE <1>2 DEF TypeOK, Untouched, userVars, storeVars, histVars
  <2>1. CASE Compose(m)
    BY <2>1 DEF Compose
  <2>2. CASE InsertRow(m)
    BY <2>2 DEF InsertRow
  <2>3. CASE Enqueue(m)
    BY <2>3 DEF Enqueue
  <2>4. CASE RequestFails(m)
    BY <2>4 DEF RequestFails
  <2>5. CASE CancelRead(m)
    BY <2>5 DEF CancelRead
  <2>6. CASE CancelWrite(m)
    BY <2>6 DEF CancelWrite
  <2>7. CASE DeleteThread(m)
    BY <2>7 DEF DeleteThread
  <2> QED BY <2>1, <2>2, <2>3, <2>4, <2>5, <2>6, <2>7 DEF UserStep
<1>3. Outcome(m)
  BY DEF OutcomeInv
<1>4. /\ RunsOn(m)' = RunsOn(m)
      /\ faults' = faults /\ hiccup' = hiccup /\ skipped' = skipped
  BY <1>1 DEF UserStep, Compose, InsertRow, Enqueue, RequestFails, CancelRead,
              CancelWrite, DeleteThread, RunsOn, histVars
<1>5. row[m] \in ScheduledRow /\ row'[m] \in ScheduledRow /\ message[m] \in MessageRow
  BY DEF TypeOK
<1>6. request[m] # "done" => job[m] = NoJob /\ RunsOn(m) = {}
  BY DEF Known, NotQueuedYet, RunsOn
<1>7. RunFits(m)'
  BY <1>1, <1>3, <1>4 DEF Outcome, RunFits
<1>8. Outcome(m)'
  <2>1. CASE Compose(m)
    <3>1. job' = job /\ row' = row /\ due' = due /\ message'[m].messageId \in BOOLEAN
      BY <2>1 DEF Compose, TypeOK, MessageRow
    <3>2. job[m] = NoJob /\ RunsOn(m) = {} /\ row[m].status = "none"
      BY <1>6, <2>1 DEF Compose, Known, NewIsUntouched
    <3>3. request'[m] = "composed" /\ message'[m].stored = "present"
      BY <2>1 DEF Compose, TypeOK
    <3>4. RowFollows(m)'
      BY <3>1, <3>2, <3>3 DEF RowFollows
    <3> QED BY <1>3, <1>4, <1>7, <3>1, <3>2, <3>4
            DEF Outcome, RunOwnsJob, ReadyIsDue, CountsAgree, EndIsEnd, HasOutcome,
                RowExists, NoJob, Finished
  <2>2. CASE InsertRow(m)
    <3>1. job' = job /\ message' = message /\ due' = due
      BY <2>2 DEF InsertRow
    <3>2. job[m] = NoJob /\ RunsOn(m) = {} /\ request'[m] = "rowed"
      BY <1>6, <2>2 DEF InsertRow, TypeOK
    <3>3. row'[m].status = "pending" /\ row'[m].retryCount = 0
      BY <2>2 DEF InsertRow, TypeOK
    <3>4. RowFollows(m)'
      BY <2>2, <3>1, <3>2, <3>3 DEF RowFollows, InsertRow
    <3> QED BY <1>3, <1>4, <1>7, <3>1, <3>2, <3>3, <3>4
            DEF Outcome, RunOwnsJob, ReadyIsDue, CountsAgree, EndIsEnd, HasOutcome,
                NoJob, Finished
  <2>3. CASE Enqueue(m)
    <3>1. row' = row /\ message' = message /\ due' = due
      BY <2>3 DEF Enqueue, storeVars
    <3>2. request[m] # "done" /\ request'[m] = "done"
      BY <2>3 DEF Enqueue, TypeOK
    <3>3. RunsOn(m) = {} /\ job[m] = NoJob
      BY <1>6, <3>2
    <3>4. RowFollows(m)'
      BY <1>3, <2>3, <3>1, <3>2 DEF Outcome, RowFollows, Enqueue, RowExists
    <3>5. job'[m] = Added(m \in Scheduled /\ ~due[m])
      BY <2>3 DEF Enqueue, TypeOK
    <3>6. /\ job'[m].state \in {"delayed", "waiting"}
          /\ m \in Scheduled /\ ~due[m] => job'[m].state = "delayed"
          /\ job'[m].attemptsMade = 0
      BY <3>5 DEF Added, NoJob
    <3>7. /\ row[m].status \notin {"failed", "sent"} \/ ~Unharmed(m)
          /\ RowExists(m) /\ Unharmed(m) => row[m].retryCount = 0
      BY <1>3, <3>3 DEF Outcome, EndIsEnd, CountsAgree, NoJob, Finished
    <3> QED BY <1>4, <1>7, <3>1, <3>3, <3>4, <3>6, <3>7
            DEF Outcome, RunOwnsJob, ReadyIsDue, CountsAgree, EndIsEnd, HasOutcome,
                Finished, Unharmed, RowExists
  <2>4. CASE RequestFails(m)
    <3>1. /\ job' = job /\ row' = row /\ message' = message /\ due' = due
          /\ request'[m] = "lost" /\ request[m] \in {"composed", "rowed"}
      BY <2>4 DEF RequestFails, storeVars, TypeOK
    <3>2. RowFollows(m)'
      BY <1>3, <3>1 DEF Outcome, RowFollows, RowExists
    <3> QED BY <1>1, <1>3, <1>4, <1>7, <3>1, <3>2
            DEF Outcome, RunOwnsJob, ReadyIsDue, CountsAgree, EndIsEnd, HasOutcome,
                Unharmed, RowExists
  <2>5. CASE CancelRead(m)
    <3>1. UNCHANGED <<job, row, message, due, request>>
      BY <2>5 DEF CancelRead, storeVars
    <3>2. Untouched(m)
      BY <1>1, <1>4, <3>1 DEF Untouched
    <3> QED BY <1>3, <3>2, UntouchedKeeps
  <2>6. CASE CancelWrite(m)
    <3>1. UNCHANGED <<job, message, due, request>>
      BY <2>6 DEF CancelWrite
    <3>2. CASE ~RowExists(m)
      <4>1. Untouched(m)
        BY <1>1, <1>4, <2>6, <3>1, <3>2 DEF Untouched, CancelWrite
      <4> QED BY <1>3, <4>1, UntouchedKeeps
    <3>3. CASE RowExists(m)
      <4>1. row' = [row EXCEPT ![m] = [row[m] EXCEPT !.status = "cancelled"]]
        BY <2>6, <3>3 DEF CancelWrite
      <4>2. row'[m].status = "cancelled" /\ row'[m].retryCount = row[m].retryCount
        BY <1>5, <4>1 DEF TypeOK, ScheduledRow
      <4>3. RowFollows(m)'
        BY <1>3, <3>1, <3>3, <4>2 DEF Outcome, RowFollows, RowExists
      <4> QED BY <1>1, <1>3, <1>4, <1>7, <3>1, <3>3, <4>2, <4>3
              DEF Outcome, RunOwnsJob, ReadyIsDue, CountsAgree, EndIsEnd, HasOutcome,
                  Unharmed
    <3> QED BY <3>2, <3>3
  <2>7. CASE DeleteThread(m)
    <3>1. UNCHANGED <<job, due, request>>
      BY <2>7 DEF DeleteThread, userVars
    <3>2. /\ message'[m].stored = "deleted"
          /\ message'[m].messageId = message[m].messageId
      BY <1>5, <2>7 DEF DeleteThread, TypeOK, MessageRow
    <3>3. row'[m].status = IF row[m].status = "none" THEN "none" ELSE "deleted"
      BY <1>5, <2>7 DEF DeleteThread, TypeOK, ScheduledRow
    <3>4. RowFollows(m)' /\ ~RowExists(m)'
      BY <1>3, <3>1, <3>2, <3>3 DEF Outcome, RowFollows, RowExists
    <3>5. HasOutcome(m)'
      BY <1>3, <1>4, <3>1, <3>2, <3>3 DEF Outcome, HasOutcome
    <3>6. EndIsEnd(m)'
      BY <1>1, <1>3, <1>4, <3>1, <3>3 DEF Outcome, EndIsEnd, Unharmed
    <3> QED BY <1>1, <1>3, <1>4, <1>7, <3>1, <3>4, <3>5, <3>6
            DEF Outcome, RunOwnsJob, ReadyIsDue, CountsAgree
  <2> QED BY <2>1, <2>2, <2>3, <2>4, <2>5, <2>6, <2>7 DEF UserStep
<1> QED BY <1>2, <1>8, UntouchedKeeps DEF OutcomeInv

\* A job that waits has no run, as long as no lock was lost.
LEMMA WaitingIsAlone ==
  ASSUME TypeOK, Known, NEW m \in Messages, Outcome(m), faults[m] = 0,
         job[m].state # "active"
  PROVE  RunsOn(m) = {}
<1>1. job[m].owner = NoWorker
  BY DEF Known, LockMeansActive
<1> QED BY <1>1, QueueAssumption DEF Outcome, RunOwnsJob, RunsOn

LEMMA QueueOutcome ==
  ASSUME TypeOK, Known, TypeOK', NEW m \in Messages, QueueStep(m), OutcomeInv
  PROVE  OutcomeInv'
<1>1. UNCHANGED <<worker, row, message, request, hiccup, skipped>>
  BY DEF QueueStep, BecomeDue, Promote, RecoverStalled, LoseLock, userVars, storeVars,
         histVars
<1>2. ASSUME NEW n \in Messages, n # m
      PROVE  Untouched(n)
  <2>1. job'[n] = job[n] /\ due'[n] = due[n] /\ faults'[n] = faults[n]
    BY <1>2 DEF QueueStep, BecomeDue, Promote, RecoverStalled, LoseLock, userVars,
                histVars, TypeOK
  <2> QED BY <1>1, <2>1 DEF Untouched
<1>3. Outcome(m) /\ job[m] \in Jobs /\ faults[m] \in Nat
  BY DEF OutcomeInv, TypeOK
<1>4. RunsOn(m)' = RunsOn(m) /\ RunFits(m)' /\ RowFollows(m)'
  BY <1>1, <1>3 DEF RunsOn, Outcome, RunFits, RowFollows, RowExists
<1>5. Outcome(m)'
  <2>1. CASE BecomeDue(m)
    <3>1. job' = job /\ faults' = faults /\ due'[m]
      BY <2>1 DEF BecomeDue, histVars, TypeOK
    <3> QED BY <1>1, <1>3, <1>4, <3>1
            DEF Outcome, RunOwnsJob, ReadyIsDue, CountsAgree, EndIsEnd, HasOutcome,
                Unharmed, RowExists
  <2>2. CASE Promote(m)
    <3>1. faults' = faults /\ due' = due /\ due[m] /\ job[m].state = "delayed"
      BY <2>2 DEF Promote, userVars, histVars
    <3>2. job'[m] = Promoted(job[m])
      BY <2>2 DEF Promote, TypeOK
    <3>3. /\ job'[m].state = "waiting" /\ job'[m].owner = job[m].owner
          /\ job'[m].attemptsMade = job[m].attemptsMade
      BY <1>3, <3>2 DEF Promoted, Jobs
    <3> QED BY <1>1, <1>3, <1>4, <3>1, <3>3
            DEF Outcome, RunOwnsJob, ReadyIsDue, CountsAgree, EndIsEnd, HasOutcome,
                Unharmed, RowExists, Finished
  <2>3. CASE RecoverStalled(m) \/ LoseLock(m)
    <3>1. due' = due /\ job[m].state = "active"
      BY <2>3 DEF RecoverStalled, LoseLock, userVars
    <3>2. faults'[m] = faults[m] + 1
      BY <2>3 DEF RecoverStalled, LoseLock, TypeOK
    <3>3. faults'[m] # 0
      BY <1>3, <3>2
    <3>4. ReadyIsDue(m)'
      BY <1>3, <3>1 DEF Outcome, ReadyIsDue
    <3> QED BY <1>4, <3>3, <3>4
            DEF Outcome, RunOwnsJob, CountsAgree, EndIsEnd, HasOutcome, Unharmed
  <2> QED BY <2>1, <2>2, <2>3 DEF QueueStep
<1> QED BY <1>2, <1>5, UntouchedKeeps DEF OutcomeInv

LEMMA SkipOutcome ==
  ASSUME TypeOK, Known, TypeOK', NEW w \in Workers, NEW m \in Messages,
         SkipByKillSwitch(w, m), OutcomeInv
  PROVE  OutcomeInv'
<1>1. UNCHANGED <<worker, row, message, request, due, faults, hiccup>>
  BY DEF SkipByKillSwitch, userVars, storeVars
<1>2. ASSUME NEW n \in Messages, n # m
      PROVE  Untouched(n)
  <2>1. job'[n] = job[n] /\ skipped'[n] = skipped[n]
    BY <1>2 DEF SkipByKillSwitch, TypeOK
  <2> QED BY <1>1, <2>1 DEF Untouched
<1>3. Outcome(m) /\ job[m] \in Jobs /\ job[m].state = "waiting"
  BY DEF OutcomeInv, TypeOK, SkipByKillSwitch
<1>4. job'[m] = Completed(Taken(job[m], w), w) /\ skipped'[m]
  BY DEF SkipByKillSwitch, TypeOK
<1>5. job'[m].state = "completed"
  BY <1>3, <1>4 DEF Taken, Completed, Jobs
<1>6. RunsOn(m)' = RunsOn(m) /\ (faults[m] = 0 => RunsOn(m) = {})
  BY <1>1, <1>3, WaitingIsAlone DEF RunsOn
<1>7. RunFits(m)' /\ RowFollows(m)' /\ ReadyIsDue(m)'
  BY <1>1, <1>3, <1>6 DEF Outcome, RunFits, RowFollows, RowExists, ReadyIsDue
<1>8. Outcome(m)'
  BY <1>1, <1>3, <1>4, <1>5, <1>6, <1>7
  DEF Outcome, RunOwnsJob, CountsAgree, EndIsEnd, HasOutcome, Unharmed, Finished
<1> QED BY <1>2, <1>8, UntouchedKeeps DEF OutcomeInv

LEMMA TakeOutcome ==
  ASSUME TypeOK, Known, TypeOK', NEW w \in Workers, NEW m \in Messages,
         Take(w, m), OutcomeInv
  PROVE  OutcomeInv'
<1>1. UNCHANGED <<row, message, request, due, faults, hiccup, skipped>>
  BY DEF Take, userVars, storeVars, histVars
<1>2. /\ worker'[w] = [pc |-> IF m \in Scheduled THEN "readRow" ELSE "deliver",
                       msg |-> m, retryCount |-> 0]
      /\ \A v \in Workers : v # w => worker'[v] = worker[v]
  BY DEF Take, TypeOK
<1>3. /\ worker'[w].msg = m
      /\ worker'[w].pc = IF m \in Scheduled THEN "readRow" ELSE "deliver"
  BY <1>2
<1>4. ASSUME NEW n \in Messages, n # m
      PROVE  Untouched(n)
  <2>1. job'[n] = job[n]
    BY <1>4 DEF Take, TypeOK
  <2> QED BY <1>1, <1>2, <1>3, <1>4, <2>1 DEF Untouched
<1>5. Outcome(m) /\ job[m] \in Jobs /\ job[m].state = "waiting"
  BY DEF OutcomeInv, TypeOK, Take
<1>6. job'[m] = Taken(job[m], w)
  BY DEF Take, TypeOK
<1>7. /\ job'[m].state = "active" /\ job'[m].owner = w
      /\ job'[m].attemptsMade = job[m].attemptsMade
  BY <1>5, <1>6 DEF Taken, Jobs
<1>8. faults[m] = 0 => RunsOn(m)' \subseteq {w}
  BY <1>2, <1>5, WaitingIsAlone DEF RunsOn
<1>9. RunFits(m)'
  <2> SUFFICES ASSUME NEW v \in RunsOn(m)', worker'[v].pc \in ScheduledSteps
               PROVE  m \in Scheduled
    BY DEF RunFits
  <2>1. CASE v = w
    BY <1>3, <2>1 DEF ScheduledSteps
  <2>2. CASE v # w
    BY <1>2, <1>5, <2>2 DEF RunsOn, Outcome, RunFits
  <2> QED BY <2>1, <2>2
<1>10. RowFollows(m)' /\ ReadyIsDue(m)' /\ RunOwnsJob(m)' /\ HasOutcome(m)'
  BY <1>1, <1>5, <1>7, <1>8
  DEF Outcome, RowFollows, RowExists, ReadyIsDue, RunOwnsJob, HasOutcome, Finished
<1>11. CountsAgree(m)'
  <2>1. RowExists(m) => m \in Scheduled
    BY <1>5 DEF Outcome, RowFollows, RowExists
  <2> QED BY <1>1, <1>3, <1>5, <1>7, <1>8, <2>1
          DEF Outcome, CountsAgree, Unharmed, RowExists, Finished
<1>12. EndIsEnd(m)'
  BY <1>1, <1>3, <1>5, <1>7, <1>8 DEF Outcome, EndIsEnd, Unharmed, Finished
<1>13. Outcome(m)'
  BY <1>9, <1>10, <1>11, <1>12 DEF Outcome
<1> QED BY <1>4, <1>13, UntouchedKeeps DEF OutcomeInv

LEMMA CrashOutcome ==
  ASSUME TypeOK, Known, TypeOK', Crash, OutcomeInv
  PROVE  OutcomeInv'
<1> SUFFICES ASSUME NEW m \in Messages
             PROVE  Outcome(m)'
  BY DEF OutcomeInv
<1>1. UNCHANGED <<row, message, due, job, faults, hiccup, skipped>>
  BY DEF Crash, storeVars, histVars
<1>2. RunsOn(m)' = {}
  <2>1. \A v \in Workers : worker'[v].msg = NoMessage
    BY DEF Crash, Idle
  <2> QED BY <2>1, DeliveryAssumption DEF RunsOn
<1>3. request'[m] = IF request[m] \in {"composed", "rowed"} THEN "lost" ELSE request[m]
  BY DEF Crash, TypeOK
<1>4. Outcome(m)
  BY DEF OutcomeInv
<1>5. RowFollows(m)'
  BY <1>1, <1>3, <1>4 DEF Outcome, RowFollows, RowExists
<1> QED BY <1>1, <1>2, <1>4, <1>5
        DEF Outcome, RunOwnsJob, RunFits, ReadyIsDue, CountsAgree, EndIsEnd, HasOutcome,
            Unharmed, RowExists

LEMMA InitOutcome == Init => OutcomeInv
<1> SUFFICES ASSUME Init, NEW m \in Messages
             PROVE  Outcome(m)
  BY DEF OutcomeInv
<1>1. RunsOn(m) = {}
  BY DeliveryAssumption DEF Init, Idle, RunsOn
<1>2. /\ job[m].state = "none" /\ row[m].status = "none" /\ request[m] = "none"
      /\ message[m].stored = "none"
  BY DEF Init, NoJob
<1> QED BY <1>1, <1>2
        DEF Outcome, RunOwnsJob, RunFits, ReadyIsDue, RowFollows, CountsAgree, EndIsEnd,
            HasOutcome, RowExists, Finished

LEMMA NextOutcome ==
  ASSUME MaxRetries = Attempts
  PROVE  IInv /\ OutcomeInv /\ [Next]_vars => OutcomeInv'
<1> SUFFICES ASSUME IInv, OutcomeInv, [Next]_vars
             PROVE  OutcomeInv'
  OBVIOUS
<1>1. TypeOK /\ Known /\ TypeOK'
  BY NextTypeOK DEF IInv, Known
<1>2. ASSUME NEW w \in Workers, NEW m \in Messages, Deliver(w, m)
      PROVE  OutcomeInv'
  <2>1. Outcome(m)'
    BY <1>1, <1>2, DeliverOutcome DEF OutcomeInv
  <2>2. \A n \in Messages : n # m => Outcome(n)'
    BY <1>2, DeliverElsewhere, UntouchedKeeps DEF OutcomeInv
  <2> QED BY <2>1, <2>2 DEF OutcomeInv
<1>3. CASE ToggleKillSwitch
  <2>1. \A m \in Messages : Untouched(m)
    BY <1>3 DEF ToggleKillSwitch, Untouched, storeVars, histVars
  <2> QED BY <2>1, UntouchedKeeps DEF OutcomeInv
<1>4. CASE UNCHANGED vars
  <2>1. \A m \in Messages : Untouched(m)
    BY <1>4 DEF vars, Untouched, userVars, storeVars, histVars
  <2> QED BY <2>1, UntouchedKeeps DEF OutcomeInv
<1> QED BY <1>1, <1>2, <1>3, <1>4, UserOutcome, QueueOutcome, SkipOutcome, TakeOutcome,
           CrashOutcome DEF Next

LEMMA OutcomeHolds ==
  ASSUME MaxRetries = Attempts
  PROVE  Spec => [](IInv /\ OutcomeInv)
<1>1. IInv /\ OutcomeInv /\ [Next]_vars => OutcomeInv'
  BY NextOutcome
<1> QED BY <1>1, InitOutcome, IInvHolds, PTL DEF Spec

\* When the job of a mail has ended and nothing broke on the way, its row or its
\* message says how it ended: the failures the row counts (schema.prisma:705) and
\* the attempts the job was given (messages.service.ts:323) run out together.
THEOREM NothingIsStranded ==
  ASSUME MaxRetries = Attempts
  PROVE  Spec => []NothingStranded
<1>1. OutcomeInv => NothingStranded
  BY DEF OutcomeInv, Outcome, NothingStranded
<1> QED BY <1>1, OutcomeHolds, PTL

(***************************************************************************)
(* Steps that may never be taken                                            *)
(***************************************************************************)
\* A run that is past its check has a mail whose row is not final.
LEMMA WritersAreEarly ==
  ASSUME IInv, TypeOK', NEW w \in Workers, NEW m \in Messages, Outcome(m),
         Deliver(w, m), Unharmed(m), row[m].status \in {"sent", "failed"}
  PROVE  worker[w].pc = "recur"
<1>1. AtWork(w, m)
  BY DeliverAtWork
<1>2. job[m].state = "active" /\ w \in RunsOn(m)
  BY <1>1 DEF AtWork, Unharmed
<1> QED BY <1>2 DEF Outcome, EndIsEnd, Finished

\* A row that says 'sent' or 'failed' is changed by a cancellation under way or
\* by the deletion of its thread, and by nothing else, as long as no lock was lost
\* and no write failed (ScheduledMessagesProcessor writes it after its check only).
THEOREM FinalRowsStay ==
  ASSUME MaxRetries = Attempts
  PROVE  Spec => FinalRows
<1>1. IInv /\ OutcomeInv /\ [Next]_vars =>
        [\A m \in Messages :
           row[m].status \in {"sent", "failed"} /\ faults[m] = 0 /\ ~hiccup[m]
           => row'[m].status \in {row[m].status, "cancelled", "deleted"}]_vars
  <2> SUFFICES ASSUME IInv, OutcomeInv, Next, NEW m \in Messages,
                      row[m].status \in {"sent", "failed"}, Unharmed(m)
               PROVE  row'[m].status \in {row[m].status, "cancelled", "deleted"}
    BY DEF Unharmed
  <2>1. TypeOK /\ Known /\ TypeOK' /\ Outcome(m)
    BY NextTypeOK DEF IInv, Known, OutcomeInv
  <2>2. row[m] \in ScheduledRow /\ row \in [Messages -> ScheduledRow]
    BY <2>1 DEF TypeOK
  <2>3. ASSUME NEW n \in Messages, UserStep(n)
        PROVE  row'[m].status \in {row[m].status, "cancelled", "deleted"}
    <3>1. CASE n # m
      BY <2>1, <2>3, <3>1
      DEF UserStep, Compose, InsertRow, Enqueue, RequestFails, CancelRead, CancelWrite,
          DeleteThread, storeVars, TypeOK
    <3>2. CASE InsertRow(m)
      BY <2>1, <3>2 DEF InsertRow, Outcome, RowFollows
    <3>3. CASE CancelWrite(m)
      BY <2>2, <3>3 DEF CancelWrite, ScheduledRow
    <3>4. CASE DeleteThread(m)
      BY <2>2, <3>4 DEF DeleteThread, ScheduledRow
    <3>5. CASE Compose(m) \/ Enqueue(m) \/ RequestFails(m) \/ CancelRead(m)
      BY <3>5 DEF Compose, Enqueue, RequestFails, CancelRead, storeVars
    <3> QED BY <2>3, <3>1, <3>2, <3>3, <3>4, <3>5 DEF UserStep
  <2>4. ASSUME NEW w \in Workers, NEW n \in Messages, Deliver(w, n)
        PROVE  row'[m].status \in {row[m].status, "cancelled", "deleted"}
    <3>1. CASE n # m
      BY <2>4, <3>1, DeliverElsewhere DEF Untouched
    <3>2. CASE n = m
      <4>1. worker[w].pc = "recur"
        BY <2>1, <2>4, <3>2, WritersAreEarly
      <4>2. InsertNextRow(w, m)
        BY <2>4, <3>2, <4>1
        DEF Deliver, ReadRow, MarkProcessing, BeginDelivery, ProviderAccepts,
            ProviderRejects, AnswerLost, RecordDelivery, AnswerThread, RecordFails,
            ConfirmDelivery, SetThreadStatus, MarkSent, CatchFailure, At
      <4> QED BY <4>2 DEF InsertNextRow
    <3> QED BY <3>1, <3>2
  <2>5. ASSUME \/ \E n \in Messages : QueueStep(n)
               \/ \E w \in Workers, n \in Messages : SkipByKillSwitch(w, n) \/ Take(w, n)
               \/ ToggleKillSwitch \/ Crash
        PROVE  row' = row
    BY <2>5 DEF QueueStep, BecomeDue, Promote, RecoverStalled, LoseLock,
                SkipByKillSwitch, Take, ToggleKillSwitch, Crash, storeVars
  <2> QED BY <2>3, <2>4, <2>5 DEF Next
<1> QED BY <1>1, OutcomeHolds, PTL DEF FinalRows, Spec

\* A cancellation that finds no processor past its check of the row is effective:
\* whatever follows, the mail is not handed to the provider and the row stays
\* cancelled until its thread is deleted (ScheduledMessagesService.cancel).
THEOREM CancellationIsEffective ==
  ASSUME MaxRetries = Attempts
  PROVE  Spec => CancelIsEffective
<1>1. IInv /\ OutcomeInv /\ [Next]_vars =>
        [\A m \in Messages :
           row[m].status = "cancelled" /\ ~InFlight(m)
           => /\ copies'[m] = copies[m]
              /\ row'[m].status \in {"cancelled", "deleted"}
              /\ ~InFlight(m)']_vars
  <2> SUFFICES ASSUME IInv, OutcomeInv, Next, NEW m \in Messages,
                      row[m].status = "cancelled", ~InFlight(m)
               PROVE  /\ copies'[m] = copies[m]
                      /\ row'[m].status \in {"cancelled", "deleted"}
                      /\ ~InFlight(m)'
    OBVIOUS
  <2>1. TypeOK /\ Known /\ TypeOK' /\ Outcome(m)
    BY NextTypeOK DEF IInv, Known, OutcomeInv
  <2>2. /\ row[m] \in ScheduledRow /\ row \in [Messages -> ScheduledRow]
        /\ copies \in [Messages -> Nat] /\ worker \in [Workers -> WorkerState]
    BY <2>1 DEF TypeOK
  <2>3. m \in Scheduled /\ request[m] \notin {"none", "composed"}
    BY <2>1 DEF Outcome, RowFollows
  <2>4. ASSUME NEW n \in Messages, UserStep(n)
        PROVE  /\ UNCHANGED <<copies, worker>>
               /\ row'[m].status \in {"cancelled", "deleted"}
    <3>1. UNCHANGED <<copies, worker>>
      BY <2>4 DEF UserStep, Compose, InsertRow, Enqueue, RequestFails, CancelRead,
                  CancelWrite, DeleteThread, histVars
    <3>2. CASE n # m
      BY <2>1, <2>4, <3>1, <3>2
      DEF UserStep, Compose, InsertRow, Enqueue, RequestFails, CancelRead, CancelWrite,
          DeleteThread, storeVars, TypeOK
    <3>3. CASE InsertRow(m)
      BY <2>3, <3>1, <3>3 DEF InsertRow
    <3>4. CASE CancelWrite(m)
      BY <2>2, <3>1, <3>4 DEF CancelWrite, ScheduledRow
    <3>5. CASE DeleteThread(m)
      BY <2>2, <3>1, <3>5 DEF DeleteThread, ScheduledRow
    <3>6. CASE Compose(m) \/ Enqueue(m) \/ RequestFails(m) \/ CancelRead(m)
      BY <3>1, <3>6 DEF Compose, Enqueue, RequestFails, CancelRead, storeVars
    <3> QED BY <2>4, <3>1, <3>2, <3>3, <3>4, <3>5, <3>6 DEF UserStep
  <2>5. ASSUME NEW w \in Workers, NEW n \in Messages, Deliver(w, n)
        PROVE  /\ copies'[m] = copies[m] /\ row'[m] = row[m]
               /\ ~InFlight(m)'
    <3>1. worker[w].msg = n /\ Leaves(w, n) /\ UNCHANGED userVars
      BY <2>1, <2>5, DeliverShape
    <3>2. /\ \A v \in Workers : v # w => worker'[v] = worker[v]
          /\ worker'[w].msg \in {n, NoMessage}
      BY <2>1, <3>1, LeavesKnown
    <3>3. CASE n # m
      <4>1. row'[m] = row[m]
        BY <2>5, <3>3, DeliverElsewhere DEF Untouched
      <4>2. copies'[m] = copies[m]
        BY <2>2, <2>5, <3>3
        DEF Deliver, ReadRow, MarkProcessing, BeginDelivery, ProviderAccepts,
            ProviderRejects, AnswerLost, RecordDelivery, AnswerThread, RecordFails,
            ConfirmDelivery, SetThreadStatus, MarkSent, InsertNextRow, CatchFailure,
            histVars
      <4> QED BY <3>2, <3>3, <4>1, <4>2, DeliveryAssumption DEF InFlight
    <3>4. CASE n = m
      <4>1. worker[w].pc = "readRow"
        BY <3>1, <3>4 DEF InFlight
      <4>2. ReadRow(w, m)
        BY <2>5, <3>4, <4>1
        DEF Deliver, MarkProcessing, BeginDelivery, ProviderAccepts, ProviderRejects,
            AnswerLost, RecordDelivery, AnswerThread, RecordFails, ConfirmDelivery,
            SetThreadStatus, MarkSent, InsertNextRow, CatchFailure, At
      <4>3. Return(w, m) /\ row' = row /\ copies' = copies
        BY <4>2 DEF ReadRow, Sendable, storeVars, histVars
      <4>4. worker'[w].msg = NoMessage
        BY <2>2, <4>3 DEF Return, Idle
      <4> QED BY <3>2, <4>3, <4>4, DeliveryAssumption DEF InFlight
    <3> QED BY <3>3, <3>4
  <2>6. ASSUME NEW w \in Workers, NEW n \in Messages, Take(w, n)
        PROVE  /\ copies' = copies /\ row' = row /\ ~InFlight(m)'
    <3>1. copies' = copies /\ row' = row
      BY <2>6 DEF Take, storeVars, histVars
    <3>2. /\ \A v \in Workers : v # w => worker'[v] = worker[v]
          /\ worker'[w] = [pc |-> IF n \in Scheduled THEN "readRow" ELSE "deliver",
                           msg |-> n, retryCount |-> 0]
      BY <2>2, <2>6 DEF Take
    <3>3. worker'[w].msg = m => worker'[w].pc = "readRow"
      BY <2>3, <3>2
    <3> QED BY <3>1, <3>2, <3>3 DEF InFlight
  <2>7. ASSUME \/ \E n \in Messages : QueueStep(n)
               \/ \E w \in Workers, n \in Messages : SkipByKillSwitch(w, n)
               \/ ToggleKillSwitch
        PROVE  UNCHANGED <<copies, row, worker>>
    BY <2>7 DEF QueueStep, BecomeDue, Promote, RecoverStalled, LoseLock,
                SkipByKillSwitch, ToggleKillSwitch, storeVars, histVars
  <2>8. CASE Crash
    <3>1. copies' = copies /\ row' = row
      BY <2>8 DEF Crash, storeVars, histVars
    <3>2. \A v \in Workers : worker'[v].msg = NoMessage
      BY <2>8 DEF Crash, Idle
    <3> QED BY <3>1, <3>2, DeliveryAssumption DEF InFlight
  <2> QED BY <2>4, <2>5, <2>6, <2>7, <2>8 DEF Next, InFlight
<1> QED BY <1>1, OutcomeHolds, PTL DEF CancelIsEffective, Spec
=============================================================================
