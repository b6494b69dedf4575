-------------------------- MODULE MailboxSyncProofs --------------------------
(***************************************************************************)
(* What is synchronised with a provider: mailboxes, for any workers,        *)
(* requests, jobs, attempts, stalls and restarts, and calendars, for any     *)
(* events, rows and runs.                                                    *)
(***************************************************************************)
EXTENDS MailboxSync, FiniteSetTheorems, TLAPS

\* The parameters of CalendarSync; the provider of the calendar is its Service here.
CONSTANTS Rows, Objects, Syncs, Service, Forms, MaxStamp, None

VARIABLES rows, objects, shown, sync, push, made, raced, late

Cal == INSTANCE CalendarSync WITH Provider <- Service

(***************************************************************************)
(* The operations of the queue keep jobs jobs.                               *)
(***************************************************************************)
LEMMA NoJobTyped ==
  /\ Retried!NoJob \in Retried!Jobs
  /\ Single!NoJob = Retried!NoJob
BY DEF Retried!Jobs, Retried!JobStates, Retried!NoJob, Single!NoJob

LEMMA AddedTyped ==
  Single!Added(FALSE) \in Retried!Jobs /\ Retried!Added(FALSE) \in Retried!Jobs
<1>1. Single!Added(FALSE) = [Single!NoJob EXCEPT !.state = "waiting"]
  BY Zenon DEF Single!Added
<1>2. Retried!Added(FALSE) = [Retried!NoJob EXCEPT !.state = "waiting"]
  BY Zenon DEF Retried!Added
<1> QED BY <1>1, <1>2, NoJobTyped
        DEF Retried!Jobs, Retried!JobStates, Retried!NoJob, Single!NoJob

LEMMA QueueTyped ==
  ASSUME NEW j \in Retried!Jobs, NEW w
  PROVE  /\ w \in Processors => Retried!Taken(j, w) \in Retried!Jobs
         /\ Retried!Stalled(j) \in Retried!Jobs
         /\ Retried!Completed(j, w) \in Retried!Jobs
         /\ Retried!AttemptFailed(j, w) \in Retried!Jobs
         /\ Single!AttemptFailed(j, w) \in Retried!Jobs
<1> USE SyncAssumption DEF Retried!Jobs, Retried!JobStates
<1>1. w \in Processors => Retried!Taken(j, w) \in Retried!Jobs
  BY DEF Retried!Taken
<1>2. j.attemptsMade + 1 \in Nat /\ j.stalled + 1 \in Nat
  OBVIOUS
<1>3. Retried!Stalled(j) \in Retried!Jobs
  BY <1>2 DEF Retried!Stalled
<1>4. Retried!Completed(j, w) \in Retried!Jobs
  BY DEF Retried!Completed
<1>5. Retried!AttemptFailed(j, w) \in Retried!Jobs
  BY <1>2 DEF Retried!AttemptFailed
<1>6. Single!AttemptFailed(j, w) \in Retried!Jobs
  BY <1>2 DEF Single!AttemptFailed
<1> QED BY <1>1, <1>3, <1>4, <1>5, <1>6

(***************************************************************************)
(* How a run moves                                                           *)
(***************************************************************************)
LEMMA IdleTyped == Idle \in RunState
BY DEF Idle, RunState, Steps

\* A run that goes on changes its place, one that ends becomes idle, and jobs
\* stay jobs.
LEMMA GoTyped ==
  ASSUME TypeOK, NEW r \in Runs, NEW step \in Steps, Go(r, step)
  PROVE  /\ run' \in [Runs -> RunState]
         /\ run'[r].pc = step
         /\ run'[r].marked = run[r].marked
         /\ run'[r].job = run[r].job
         /\ \A x \in Runs : x # r => run'[x] = run[x]
<1>1. run \in [Runs -> RunState]
  BY DEF TypeOK
<1>2. [run[r] EXCEPT !.pc = step] \in RunState
  BY <1>1 DEF RunState
<1>3. run' = [run EXCEPT ![r] = [run[r] EXCEPT !.pc = step]]
  BY DEF Go
<1>4. run'[r] = [run[r] EXCEPT !.pc = step]
  BY <1>1, <1>3
<1>5. run[r] \in RunState
  BY <1>1
<1>6. run'[r].pc = step /\ run'[r].marked = run[r].marked /\ run'[r].job = run[r].job
  BY <1>4, <1>5 DEF RunState
<1> QED BY <1>1, <1>2, <1>3, <1>6

LEMMA LeaveTyped ==
  ASSUME TypeOK, NEW r \in Runs, Return(r) \/ Throw(r)
  PROVE  /\ job' \in [JobIds -> Retried!Jobs]
         /\ run' \in [Runs -> RunState]
         /\ run' = [run EXCEPT ![r] = Idle]
<1>1. run \in [Runs -> RunState] /\ job \in [JobIds -> Retried!Jobs]
  BY DEF TypeOK
<1>2. run' = [run EXCEPT ![r] = Idle]
  BY DEF Return, Throw, Leave
<1>3. \A j \in JobIds : /\ Done(r, j) \in Retried!Jobs
                        /\ Broken(r, j) \in Retried!Jobs
  BY <1>1, QueueTyped, NoJobTyped DEF Done, Broken
<1>4. job' \in [JobIds -> Retried!Jobs]
  BY <1>1, <1>3, AddedTyped DEF Return, Throw
<1> QED BY <1>1, <1>2, <1>4, IdleTyped

(***************************************************************************)
(* What a moving run keeps of the invariant                                  *)
(***************************************************************************)
Early == {"idle", "start", "lookup", "unusable", "mark"}

\* A run that goes on keeps its mark and its job.
LEMMA GoKeeps ==
  ASSUME IInv, NEW r \in Runs, NEW step \in Steps, Go(r, step),
         run[r].pc # "idle", step \in Early => ~run[r].marked
  PROVE  /\ run' \in [Runs -> RunState]
         /\ EarlyIsUnmarked'
         /\ RunsKnowTheirJob'
         /\ \A x \in Runs : run'[x].marked = run[x].marked
<1> USE DEF IInv
<1>1. /\ run' \in [Runs -> RunState]
      /\ run'[r].pc = step
      /\ run'[r].marked = run[r].marked
      /\ run'[r].job = run[r].job
      /\ \A x \in Runs : x # r => run'[x] = run[x]
  BY GoTyped
<1>2. EarlyIsUnmarked'
  BY <1>1 DEF EarlyIsUnmarked, Early
<1>3. \A x \in Processors : run'[x].pc # "idle" => run'[x].job \in JobIds
  BY <1>1 DEF RunsKnowTheirJob, Runs
<1>4. \A x \in Requests : run'[x].job = NoJobId
  BY <1>1 DEF RunsKnowTheirJob, Runs
<1> QED BY <1>1, <1>2, <1>3, <1>4 DEF RunsKnowTheirJob

\* One that ends takes only its own mark away.
LEMMA IdleKeeps ==
  ASSUME IInv, NEW r \in Runs, run' = [run EXCEPT ![r] = Idle]
  PROVE  /\ run' \in [Runs -> RunState]
         /\ EarlyIsUnmarked'
         /\ RunsKnowTheirJob'
         /\ \A x \in Runs : x # r => run'[x].marked = run[x].marked
<1> USE DEF IInv
<1>1. run \in [Runs -> RunState]
  BY DEF TypeOK
<1>2. /\ run'[r] = Idle
      /\ \A x \in Runs : x # r => run'[x] = run[x]
  BY <1>1
<1>3. run' \in [Runs -> RunState]
  BY <1>1, IdleTyped
<1>4. EarlyIsUnmarked'
  BY <1>2 DEF EarlyIsUnmarked, Idle
<1>5. \A x \in Processors : run'[x].pc # "idle" => run'[x].job \in JobIds
  BY <1>2 DEF RunsKnowTheirJob, Runs, Idle
<1>6. \A x \in Requests : run'[x].job = NoJobId
  BY <1>2 DEF RunsKnowTheirJob, Runs, Idle
<1> QED BY <1>2, <1>3, <1>4, <1>5, <1>6 DEF RunsKnowTheirJob

\* Nothing is left SYNCING as long as every mark that goes away leaves the
\* trace, or a result, behind.
LEMMA NoNewOrphan ==
  ASSUME NotLeftSyncing,
         status' = "SYNCING" => status = "SYNCING",
         orphaned => orphaned',
         \A x \in Runs : run[x].marked => run'[x].marked \/ orphaned'
  PROVE  NotLeftSyncing'
BY DEF NotLeftSyncing

\* A run that only goes on.
LEMMA OnlyGoes ==
  ASSUME IInv, NEW r \in Runs, NEW step \in Steps, Go(r, step),
         run[r].pc # "idle", step \in Early => ~run[r].marked,
         UNCHANGED <<world, mailbox, asking, job, history>>
  PROVE  IInv'
<1> USE DEF IInv, world, mailbox, asking, history
<1>1. /\ run' \in [Runs -> RunState]
      /\ EarlyIsUnmarked'
      /\ RunsKnowTheirJob'
      /\ \A x \in Runs : run'[x].marked = run[x].marked
  BY GoKeeps
<1>2. TypeOK'
  BY <1>1 DEF TypeOK
<1>3. NotLeftSyncing'
  BY <1>1, NoNewOrphan
<1>4. TokenIsWanted'
  BY DEF TokenIsWanted
<1> QED BY <1>1, <1>2, <1>3, <1>4

\* A run that ends without writing anything, not having written SYNCING or by an
\* error that leaves the trace.
LEMMA OnlyEnds ==
  ASSUME IInv, NEW r \in Runs, Return(r) \/ Throw(r),
         orphaned' \in BOOLEAN, orphaned => orphaned',
         run[r].marked => orphaned',
         UNCHANGED <<world, mailbox, asking, revived>>
  PROVE  IInv'
<1> USE DEF IInv, world, mailbox, asking
<1>1. job' \in [JobIds -> Retried!Jobs] /\ run' = [run EXCEPT ![r] = Idle]
  BY LeaveTyped
<1>2. /\ run' \in [Runs -> RunState]
      /\ EarlyIsUnmarked'
      /\ RunsKnowTheirJob'
      /\ \A x \in Runs : x # r => run'[x].marked = run[x].marked
  BY <1>1, IdleKeeps
<1>3. TypeOK'
  BY <1>1, <1>2 DEF TypeOK
<1>4. NotLeftSyncing'
  BY <1>2, NoNewOrphan
<1>5. TokenIsWanted'
  BY DEF TokenIsWanted
<1> QED BY <1>2, <1>3, <1>4, <1>5

\* A run that ends and writes a result.
LEMMA EndsWithResult ==
  ASSUME IInv, NEW r \in Runs, run' = [run EXCEPT ![r] = Idle],
         job' \in [JobIds -> Retried!Jobs],
         status' \in {"SUCCESS", "FAILED"},
         retry' \in {"none", "waiting"},
         stale' \in BOOLEAN,
         UNCHANGED <<world, token, linked, deleted, asking, history>>
  PROVE  IInv'
<1> USE DEF IInv, world, asking, history
<1>1. /\ run' \in [Runs -> RunState]
      /\ EarlyIsUnmarked'
      /\ RunsKnowTheirJob'
  BY IdleKeeps
<1>2. TypeOK'
  BY <1>1 DEF TypeOK
<1>3. NotLeftSyncing'
  BY DEF NotLeftSyncing
<1>4. TokenIsWanted'
  BY DEF TokenIsWanted
<1> QED BY <1>1, <1>2, <1>3, <1>4

(***************************************************************************)
(* The steps of a run                                                        *)
(***************************************************************************)
LEMMA RunKeepsIInv ==
  ASSUME IInv, NEW r \in Runs, RunStep(r)
  PROVE  IInv'
<1> USE DEF At
<1>0. /\ run \in [Runs -> RunState]
      /\ run[r].marked \in BOOLEAN
      /\ orphaned \in BOOLEAN
      /\ run[r].pc \in Early => ~run[r].marked
  BY DEF IInv, TypeOK, RunState, EarlyIsUnmarked, Early
<1>1. CASE Start(r)
  <2>1. PICK step \in {"skip", "lookup"} : Go(r, step)
    BY <1>1 DEF Start
  <2>2. step \in Steps /\ run[r].pc # "idle" /\ (step \in Early => ~run[r].marked)
    BY <1>0, <1>1 DEF Start, Steps, Early
  <2> QED BY <1>1, <2>1, <2>2, OnlyGoes DEF Start
<1>2. CASE Skip(r)
  <2>1. job' \in [JobIds -> Retried!Jobs] /\ run' = [run EXCEPT ![r] = Idle]
    BY <1>2, LeaveTyped DEF IInv, Skip
  <2>2. CASE status' = "FAILED" /\ retry' = "none" /\ UNCHANGED orphaned
    <3>1. stale' \in BOOLEAN
      BY <1>2 DEF Skip, IInv, TypeOK
    <3> QED BY <1>2, <2>1, <2>2, <3>1, EndsWithResult DEF Skip, history
  <2>3. CASE /\ orphaned' = (orphaned \/ run[r].marked)
             /\ UNCHANGED <<status, retry>>
    BY <1>0, <1>2, <2>3, OnlyEnds DEF Skip, mailbox
  <2> QED BY <1>2, <2>2, <2>3 DEF Skip
<1>3. CASE Lookup(r)
  <2>1. ~run[r].marked
    BY <1>0, <1>3 DEF Lookup, Early
  <2>2. CASE deleted
    BY <1>0, <1>3, <2>1, <2>2, OnlyEnds DEF Lookup, history
  <2>3. CASE ~deleted
    <3>1. PICK step \in {"unusable", "mark", "refresh"} : Go(r, step)
      BY <1>3, <2>3 DEF Lookup
    <3>2. step \in Steps /\ run[r].pc # "idle"
      BY <1>3 DEF Lookup, Steps
    <3> QED BY <1>3, <2>1, <2>3, <3>1, <3>2, OnlyGoes DEF Lookup
  <2> QED BY <2>2, <2>3
<1>4. CASE LookupFails(r)
  <2>1. ~run[r].marked
    BY <1>0, <1>4 DEF LookupFails, Early
  <2> QED BY <1>0, <1>4, <2>1, OnlyEnds DEF LookupFails, history
<1>5. CASE Unusable(r)
  <2>1. ~run[r].marked
    BY <1>0, <1>5 DEF Unusable, Early
  <2>2. CASE Return(r) /\ status' = "FAILED" /\ retry' = "waiting"
    <3>1. job' \in [JobIds -> Retried!Jobs] /\ run' = [run EXCEPT ![r] = Idle]
      BY <2>2, LeaveTyped DEF IInv
    <3>2. stale' \in BOOLEAN
      BY <1>5 DEF Unusable, IInv, TypeOK
    <3> QED BY <1>5, <2>2, <3>1, <3>2, EndsWithResult DEF Unusable
  <2>3. CASE Throw(r) /\ UNCHANGED <<status, retry>>
    BY <1>0, <1>5, <2>1, <2>3, OnlyEnds DEF Unusable, mailbox, history
  <2> QED BY <1>5, <2>2, <2>3 DEF Unusable
<1>6. CASE RefreshToken(r)
  <2>1. PICK step \in {"persist", "graph", "mark"} :
           Go(r, step) /\ (step = "mark" => ~run[r].marked)
    BY <1>6 DEF RefreshToken, AfterToken
  <2>2. step \in Steps /\ run[r].pc # "idle" /\ (step \in Early => ~run[r].marked)
    BY <1>6, <2>1 DEF RefreshToken, Steps, Early
  <2> QED BY <1>6, <2>1, <2>2, OnlyGoes DEF RefreshToken
<1>7. CASE PersistToken(r)
  <2>1. AfterToken(r) \in Steps /\ (AfterToken(r) \in Early => ~run[r].marked)
    BY DEF AfterToken, Steps, Early
  <2>2. /\ run' \in [Runs -> RunState]
        /\ EarlyIsUnmarked'
        /\ RunsKnowTheirJob'
        /\ \A x \in Runs : run'[x].marked = run[x].marked
    BY <1>7, <2>1, GoKeeps DEF PersistToken
  <2>3. token' \in BOOLEAN /\ revived' \in BOOLEAN
    BY <1>7 DEF PersistToken, IInv, TypeOK
  <2>4. TypeOK'
    BY <1>7, <2>2, <2>3 DEF PersistToken, IInv, TypeOK, world, asking
  <2>5. NotLeftSyncing'
    BY <1>7, <2>2, NoNewOrphan DEF PersistToken, IInv
  <2>6. TokenIsWanted'
    <3>1. token => linked \/ revived
      BY DEF IInv, TokenIsWanted
    <3>2. linked' = linked
      BY <1>7 DEF PersistToken
    <3>3. revived' = (revived \/ ~linked) \/ (token' = token /\ revived' = revived)
      BY <1>7 DEF PersistToken
    <3> QED BY <3>1, <3>2, <3>3, Zenon DEF TokenIsWanted
  <2> QED BY <2>2, <2>4, <2>5, <2>6 DEF IInv
<1>8. CASE MarkSyncing(r)
  <2>1. ~run[r].marked
    BY <1>0, <1>8 DEF MarkSyncing, Early
  <2>2. CASE Throw(r) /\ UNCHANGED status
    BY <1>0, <1>8, <2>1, <2>2, OnlyEnds DEF MarkSyncing, mailbox, history
  <2>3. CASE ~(Throw(r) /\ UNCHANGED status)
    <3>1. PICK next \in {"refresh", "slot"} :
             run' = [run EXCEPT ![r].marked = TRUE, ![r].pc = next]
      BY <1>8, <2>3 DEF MarkSyncing
    <3>2. status' = "SYNCING" /\ UNCHANGED job
      BY <1>8, <2>3 DEF MarkSyncing
    <3>3. run[r] \in RunState /\ next \in Steps
      BY <1>0 DEF Steps
    <3>4. DEFINE new == [run[r] EXCEPT !.marked = TRUE, !.pc = next]
    <3>5. run' = [run EXCEPT ![r] = new]
      BY <3>1, <1>0
    <3>6. new \in RunState /\ new.marked /\ new.pc = next /\ new.job = run[r].job
      BY <3>3 DEF RunState
    <3> HIDE DEF new
    <3>7. /\ run' \in [Runs -> RunState]
          /\ run'[r] = new
          /\ \A x \in Runs : x # r => run'[x] = run[x]
      BY <1>0, <3>5, <3>6
    <3>8. TypeOK'
      BY <1>8, <3>2, <3>7
      DEF MarkSyncing, IInv, TypeOK, world, asking, history
    <3>9. EarlyIsUnmarked'
      BY <3>1, <3>6, <3>7 DEF EarlyIsUnmarked, IInv
    <3>10. \A x \in Processors : run'[x].pc # "idle" => run'[x].job \in JobIds
      BY <1>8, <3>6, <3>7 DEF MarkSyncing, IInv, RunsKnowTheirJob, Runs
    <3>11. \A x \in Requests : run'[x].job = NoJobId
      BY <3>6, <3>7 DEF IInv, RunsKnowTheirJob, Runs
    <3>12. NotLeftSyncing'
      BY <3>6, <3>7 DEF NotLeftSyncing
    <3>13. TokenIsWanted'
      BY <1>8 DEF MarkSyncing, IInv, TokenIsWanted, history
    <3> QED BY <3>8, <3>9, <3>10, <3>11, <3>12, <3>13 DEF IInv, RunsKnowTheirJob
  <2> QED BY <2>2, <2>3
<1>9. CASE GraphSlot(r)
  <2>1. PICK step \in {"graphFetch"} : Go(r, step)
    BY <1>9 DEF GraphSlot
  <2>2. step \in Steps /\ run[r].pc # "idle" /\ (step \in Early => ~run[r].marked)
    BY <1>0, <1>9 DEF GraphSlot, Steps, Early
  <2> QED BY <1>9, <2>1, <2>2, OnlyGoes DEF GraphSlot
<1>10. CASE GraphStopped(r)
  BY <1>0, <1>10, OnlyEnds DEF GraphStopped, EscapesUncaught
<1>11. CASE GraphPage(r)
  <2>1. PICK step \in {"graph", "graphFinish", "slot"} : Go(r, step)
    BY <1>11 DEF GraphPage
  <2>2. step \in Steps /\ run[r].pc # "idle" /\ (step \in Early => ~run[r].marked)
    BY <1>0, <1>11 DEF GraphPage, Steps, Early
  <2> QED BY <1>11, <2>1, <2>2, OnlyGoes DEF GraphPage
<1>12. CASE GraphFails(r)
  BY <1>0, <1>12, OnlyEnds DEF GraphFails, EscapesUncaught
<1>13. CASE ConnectSlot(r)
  <2>1. PICK step \in {"connect"} : Go(r, step)
    BY <1>13 DEF ConnectSlot
  <2>2. step \in Steps /\ run[r].pc # "idle" /\ (step \in Early => ~run[r].marked)
    BY <1>0, <1>13 DEF ConnectSlot, Steps, Early
  <2> QED BY <1>13, <2>1, <2>2, OnlyGoes DEF ConnectSlot
<1>14. CASE ConnectStopped(r)
  BY <1>0, <1>14, OnlyEnds DEF ConnectStopped, EscapesUncaught
<1>15. CASE Connect(r)
  <2>1. PICK step \in {"folders"} : Go(r, step)
    BY <1>15 DEF Connect
  <2>2. step \in Steps /\ run[r].pc # "idle" /\ (step \in Early => ~run[r].marked)
    BY <1>0, <1>15 DEF Connect, Steps, Early
  <2> QED BY <1>15, <2>1, <2>2, OnlyGoes DEF Connect
<1>16. CASE ConnectFails(r)
  BY <1>0, <1>16, OnlyEnds DEF ConnectFails, EscapesUncaught
<1>17. CASE FolderSlot(r)
  <2>1. PICK step \in {"skip", "fetch"} : Go(r, step)
    BY <1>17 DEF FolderSlot
  <2>2. step \in Steps /\ run[r].pc # "idle" /\ (step \in Early => ~run[r].marked)
    BY <1>0, <1>17 DEF FolderSlot, Steps, Early
  <2> QED BY <1>17, <2>1, <2>2, OnlyGoes DEF FolderSlot
<1>18. CASE FetchMore(r)
  <2>1. PICK step \in {"folders"} : Go(r, step)
    BY <1>18 DEF FetchMore
  <2>2. step \in Steps /\ run[r].pc # "idle" /\ (step \in Early => ~run[r].marked)
    BY <1>0, <1>18 DEF FetchMore, Steps, Early
  <2> QED BY <1>18, <2>1, <2>2, OnlyGoes DEF FetchMore
<1>19. CASE FetchEnds(r)
  <2>1. PICK step \in {"finish", "failed"} : Go(r, step)
    BY <1>19 DEF FetchEnds
  <2>2. step \in Steps /\ run[r].pc # "idle" /\ (step \in Early => ~run[r].marked)
    BY <1>0, <1>19 DEF FetchEnds, Steps, Early
  <2> QED BY <1>19, <2>1, <2>2, OnlyGoes DEF FetchEnds
<1>20. CASE Finish(r)
  <2>1. job' \in [JobIds -> Retried!Jobs] /\ run' = [run EXCEPT ![r] = Idle]
    BY <1>20, LeaveTyped DEF IInv, Finish
  <2> QED BY <1>20, <2>1, EndsWithResult DEF Finish, Succeeded
<1>21. CASE FinishFails(r)
  <2>1. PICK step \in {"failed"} : Go(r, step)
    BY <1>21 DEF FinishFails
  <2>2. step \in Steps /\ run[r].pc # "idle" /\ (step \in Early => ~run[r].marked)
    BY <1>0, <1>21 DEF FinishFails, Steps, Early
  <2> QED BY <1>21, <2>1, <2>2, OnlyGoes DEF FinishFails
<1>22. CASE Fail(r)
  <2>1. job' \in [JobIds -> Retried!Jobs] /\ run' = [run EXCEPT ![r] = Idle]
    BY <1>22, LeaveTyped DEF IInv, Fail
  <2>2. stale' \in BOOLEAN
    BY <1>22 DEF Fail, IInv, TypeOK
  <2>3. CASE status' = "FAILED" /\ retry' = "waiting" /\ UNCHANGED orphaned
    BY <1>22, <2>1, <2>2, <2>3, EndsWithResult DEF Fail, history
  <2>4. CASE orphaned' = TRUE /\ UNCHANGED <<status, retry>>
    BY <1>0, <1>22, <2>4, OnlyEnds DEF Fail, mailbox
  <2> QED BY <1>22, <2>3, <2>4 DEF Fail
<1> QED BY <1>1, <1>2, <1>3, <1>4, <1>5, <1>6, <1>7, <1>8, <1>9, <1>10, <1>11,
           <1>12, <1>13, <1>14, <1>15, <1>16, <1>17, <1>18, <1>19, <1>20, <1>21, <1>22 DEF RunStep

(***************************************************************************)
(* The other steps                                                           *)
(***************************************************************************)
\* A step that lets the runs alone, and does not write SYNCING.
LEMMA RunsUntouched ==
  ASSUME IInv, UNCHANGED <<run, orphaned>>,
         status' = "SYNCING" => status = "SYNCING"
  PROVE  EarlyIsUnmarked' /\ RunsKnowTheirJob' /\ NotLeftSyncing'
<1> USE DEF IInv
<1>1. EarlyIsUnmarked'
  BY DEF EarlyIsUnmarked
<1>2. RunsKnowTheirJob'
  BY DEF RunsKnowTheirJob
<1>3. NotLeftSyncing'
  BY NoNewOrphan
<1> QED BY <1>1, <1>2, <1>3

LEMMA ClockKeepsIInv ==
  ASSUME IInv, ClockStep
  PROVE  IInv'
<1> USE DEF world, mailbox, asking, history
<1>0. TypeOK /\ TokenIsWanted
  BY DEF IInv
<1>1. CASE BecomeStale
  <2>1. TypeOK' /\ TokenIsWanted'
    BY <1>0, <1>1 DEF BecomeStale, TypeOK, TokenIsWanted
  <2> QED BY <1>1, <2>1, RunsUntouched DEF BecomeStale, IInv
<1>2. CASE RetryTime
  <2>1. TypeOK' /\ TokenIsWanted'
    BY <1>0, <1>2 DEF RetryTime, TypeOK, TokenIsWanted
  <2> QED BY <1>2, <2>1, RunsUntouched DEF RetryTime, IInv
<1>3. CASE ToggleKillSwitch
  <2>1. TypeOK' /\ TokenIsWanted'
    BY <1>0, <1>3 DEF ToggleKillSwitch, TypeOK, TokenIsWanted
  <2> QED BY <1>3, <2>1, RunsUntouched DEF ToggleKillSwitch, IInv
<1>4. CASE Crash
  <2>1. \A x \in Runs : run'[x] = Idle
    BY <1>4 DEF Crash
  <2>2. run' \in [Runs -> RunState]
    BY <1>4, IdleTyped DEF Crash
  <2>3. crashes' \in 0..MaxCrashes
    BY <1>0, <1>4, SyncAssumption DEF Crash, TypeOK
  <2>4. orphaned' \in BOOLEAN
    BY <1>4 DEF Crash
  <2>5. TypeOK'
    BY <1>0, <1>4, <2>2, <2>3, <2>4 DEF Crash, TypeOK
  <2>6. EarlyIsUnmarked' /\ RunsKnowTheirJob'
    BY <2>1 DEF EarlyIsUnmarked, RunsKnowTheirJob, Runs, Idle
  <2>7. orphaned => orphaned'
    BY <1>4 DEF Crash
  <2>8. \A x \in Runs : run[x].marked => orphaned'
    BY <1>4 DEF Crash
  <2>9. NotLeftSyncing'
    BY <1>4, <2>7, <2>8, NoNewOrphan DEF Crash, IInv
  <2>10. TokenIsWanted'
    BY <1>0, <1>4 DEF Crash, TokenIsWanted
  <2> QED BY <2>5, <2>6, <2>9, <2>10 DEF IInv
<1> QED BY <1>1, <1>2, <1>3, <1>4 DEF ClockStep

LEMMA SchedulerKeepsIInv ==
  ASSUME IInv, SchedulerStep
  PROVE  IInv'
<1> USE DEF world, mailbox, history
<1>0. TypeOK /\ TokenIsWanted
  BY DEF IInv
<1>1. CASE TickSelect
  <2>1. TypeOK' /\ TokenIsWanted'
    BY <1>0, <1>1 DEF TickSelect, TypeOK, TokenIsWanted
  <2> QED BY <1>1, <2>1, RunsUntouched DEF TickSelect, IInv
<1>2. CASE TickAdd
  <2>1. job' \in [JobIds -> Retried!Jobs]
    BY <1>0, <1>2, AddedTyped DEF TickAdd, TypeOK
  <2>2. tick' = "idle" /\ UNCHANGED <<world, mailbox, asked, revoking, run, history>>
    BY <1>2 DEF TickAdd
  <2>3. TypeOK' /\ TokenIsWanted'
    BY <1>0, <2>1, <2>2 DEF TypeOK, TokenIsWanted
  <2> QED BY <2>2, <2>3, RunsUntouched DEF IInv
<1>3. CASE TickFails
  <2>1. TypeOK' /\ TokenIsWanted'
    BY <1>0, <1>3 DEF TickFails, TypeOK, TokenIsWanted
  <2> QED BY <1>3, <2>1, RunsUntouched DEF TickFails, IInv
<1> QED BY <1>1, <1>2, <1>3 DEF SchedulerStep

LEMMA RequestKeepsIInv ==
  ASSUME IInv, RequestStep
  PROVE  IInv'
<1> USE DEF world, mailbox, asking, history
<1>0. TypeOK /\ TokenIsWanted
  BY DEF IInv
<1>1. CASE TriggerSync
  <2>1. TypeOK' /\ TokenIsWanted'
    BY <1>0, <1>1 DEF TriggerSync, TypeOK, TokenIsWanted
  <2> QED BY <1>1, <2>1, RunsUntouched DEF TriggerSync, IInv
<1>2. CASE Link
  <2>1. TypeOK' /\ TokenIsWanted'
    BY <1>0, <1>2 DEF Link, TypeOK, TokenIsWanted
  <2> QED BY <1>2, <2>1, RunsUntouched DEF Link, IInv
<1>3. CASE AddRequested
  <2>1. job' \in [JobIds -> Retried!Jobs]
    BY <1>0, <1>3, AddedTyped DEF AddRequested, TypeOK
  <2>2. TypeOK' /\ TokenIsWanted'
    BY <1>0, <1>3, <2>1 DEF AddRequested, TypeOK, TokenIsWanted
  <2> QED BY <1>3, <2>2, RunsUntouched DEF AddRequested, IInv
<1>4. CASE RevokeStart
  <2>1. TypeOK' /\ TokenIsWanted'
    BY <1>0, <1>4 DEF RevokeStart, TypeOK, TokenIsWanted
  <2> QED BY <1>4, <2>1, RunsUntouched DEF RevokeStart, IInv
<1>5. CASE CancelQueuedSyncJobs
  <2>1. job' \in [JobIds -> Retried!Jobs]
    BY <1>0, <1>5, NoJobTyped DEF CancelQueuedSyncJobs, TypeOK
  <2>2. revoking' \in {"no", "jobs", "write"}
    BY <1>5 DEF CancelQueuedSyncJobs
  <2>3. TypeOK' /\ TokenIsWanted'
    BY <1>0, <1>5, <2>1, <2>2 DEF CancelQueuedSyncJobs, TypeOK, TokenIsWanted
  <2> QED BY <1>5, <2>3, RunsUntouched DEF CancelQueuedSyncJobs, IInv
<1>6. CASE RevokeWrite
  <2>1. TypeOK' /\ TokenIsWanted'
    BY <1>0, <1>6 DEF RevokeWrite, TypeOK, TokenIsWanted
  <2> QED BY <1>6, <2>1, RunsUntouched DEF RevokeWrite, IInv
<1>7. CASE RevokeFails
  <2>1. TypeOK' /\ TokenIsWanted'
    BY <1>0, <1>7 DEF RevokeFails, TypeOK, TokenIsWanted
  <2> QED BY <1>7, <2>1, RunsUntouched DEF RevokeFails, IInv
<1>8. CASE Remove
  <2>1. TypeOK' /\ TokenIsWanted'
    BY <1>0, <1>8 DEF Remove, TypeOK, TokenIsWanted
  <2> QED BY <1>8, <2>1, RunsUntouched DEF Remove, IInv
<1>9. ASSUME NEW r \in Requests, StartRefresh(r)
      PROVE  IInv'
  <2>1. r \in Runs /\ "start" \in Steps
    BY DEF Runs, Steps
  <2>2. /\ run' \in [Runs -> RunState]
        /\ run'[r].pc = "start"
        /\ run'[r].marked = run[r].marked
        /\ run'[r].job = run[r].job
        /\ \A x \in Runs : x # r => run'[x] = run[x]
    <3>1. Go(r, "start")
      BY <1>9 DEF StartRefresh, Go
    <3> QED BY <1>0, <2>1, <3>1, GoTyped
  <2>3. run[r].pc = "idle" /\ ~run[r].marked
    BY <1>9, <2>1 DEF StartRefresh, IInv, EarlyIsUnmarked
  <2>4. EarlyIsUnmarked'
    BY <2>2, <2>3 DEF EarlyIsUnmarked, IInv
  <2>5. \A x \in Processors : run'[x].pc # "idle" => run'[x].job \in JobIds
    BY <1>9, <2>2, SyncAssumption DEF RunsKnowTheirJob, IInv, Runs
  <2>6. \A x \in Requests : run'[x].job = NoJobId
    BY <2>2 DEF RunsKnowTheirJob, IInv, Runs
  <2>7. TypeOK' /\ TokenIsWanted'
    BY <1>0, <1>9, <2>2 DEF StartRefresh, TypeOK, TokenIsWanted
  <2>8. NotLeftSyncing'
    BY <1>9, <2>2, NoNewOrphan DEF StartRefresh, IInv
  <2> QED BY <2>4, <2>5, <2>6, <2>7, <2>8 DEF IInv, RunsKnowTheirJob
<1> QED BY <1>1, <1>2, <1>3, <1>4, <1>5, <1>6, <1>7, <1>8, <1>9 DEF RequestStep

LEMMA QueueKeepsIInv ==
  ASSUME IInv, QueueStep
  PROVE  IInv'
<1> USE DEF world, mailbox, asking, history
<1>0. TypeOK /\ TokenIsWanted
  BY DEF IInv
<1>1. ASSUME NEW w \in Processors, NEW j \in JobIds, Take(w, j)
      PROVE  IInv'
  <2>1. w \in Runs /\ run \in [Runs -> RunState]
    BY <1>0 DEF Runs, TypeOK
  <2>2. [pc |-> "start", job |-> j, marked |-> FALSE] \in RunState
    BY DEF RunState, Steps
  <2>3. /\ run' \in [Runs -> RunState]
        /\ run'[w] = [pc |-> "start", job |-> j, marked |-> FALSE]
        /\ \A x \in Runs : x # w => run'[x] = run[x]
    BY <1>1, <2>1, <2>2 DEF Take
  <2>4. ~run[w].marked
    BY <1>1, <2>1 DEF Take, IInv, EarlyIsUnmarked
  <2>5. job' \in [JobIds -> Retried!Jobs]
    BY <1>0, <1>1, QueueTyped DEF Take, TypeOK
  <2>6. TypeOK' /\ TokenIsWanted'
    BY <1>0, <1>1, <2>3, <2>5 DEF Take, TypeOK, TokenIsWanted
  <2>7. EarlyIsUnmarked'
    BY <2>3 DEF EarlyIsUnmarked, IInv
  <2>8. \A x \in Processors : run'[x].pc # "idle" => run'[x].job \in JobIds
    BY <2>3 DEF RunsKnowTheirJob, IInv, Runs
  <2>9. \A x \in Requests : run'[x].job = NoJobId
    BY <2>3, SyncAssumption DEF RunsKnowTheirJob, IInv, Runs
  <2>10. NotLeftSyncing'
    BY <1>1, <2>3, <2>4, NoNewOrphan DEF Take, IInv
  <2> QED BY <2>6, <2>7, <2>8, <2>9, <2>10 DEF IInv, RunsKnowTheirJob
<1>2. ASSUME NEW j \in JobIds, Stall(j)
      PROVE  IInv'
  <2>1. job' \in [JobIds -> Retried!Jobs]
    BY <1>0, <1>2, QueueTyped DEF Stall, TypeOK
  <2>2. TypeOK' /\ TokenIsWanted'
    BY <1>0, <1>2, <2>1 DEF Stall, TypeOK, TokenIsWanted
  <2> QED BY <1>2, <2>2, RunsUntouched DEF Stall, IInv
<1>3. CASE ForgetFailed
  <2>1. job' \in [JobIds -> Retried!Jobs]
    BY <1>0, <1>3, NoJobTyped DEF ForgetFailed, TypeOK
  <2>2. TypeOK' /\ TokenIsWanted'
    BY <1>0, <1>3, <2>1 DEF ForgetFailed, TypeOK, TokenIsWanted
  <2> QED BY <1>3, <2>2, RunsUntouched DEF ForgetFailed, IInv
<1> QED BY <1>1, <1>2, <1>3 DEF QueueStep, RecoverStalled, LoseLock

(***************************************************************************)
(* The inductive invariant                                                   *)
(***************************************************************************)
LEMMA InitIInv ==
  ASSUME Init
  PROVE  IInv
<1>1. run \in [Runs -> RunState] /\ (\A x \in Runs : run[x] = Idle)
  BY IdleTyped DEF Init
<1>2. job \in [JobIds -> Retried!Jobs]
  BY NoJobTyped DEF Init
<1>3. TypeOK
  <2>1. crashes \in 0..MaxCrashes
    BY SyncAssumption DEF Init
  <2>2. /\ killSwitch \in BOOLEAN
        /\ status \in {"PENDING", "SYNCING", "SUCCESS", "FAILED"}
        /\ retry \in {"none", "waiting", "due"}
        /\ stale \in BOOLEAN
        /\ token \in BOOLEAN
        /\ linked \in BOOLEAN
        /\ deleted \in BOOLEAN
        /\ tick \in {"idle", "selected"}
        /\ asked \in {"none", "trigger", "link"}
        /\ revoking \in {"no", "jobs", "write"}
        /\ orphaned \in BOOLEAN
        /\ revived \in BOOLEAN
    BY DEF Init
  <2> QED BY <1>1, <1>2, <2>1, <2>2 DEF TypeOK
<1>4. EarlyIsUnmarked /\ RunsKnowTheirJob
  BY <1>1 DEF EarlyIsUnmarked, RunsKnowTheirJob, Runs, Idle
<1>5. NotLeftSyncing /\ TokenIsWanted
  BY DEF Init, NotLeftSyncing, TokenIsWanted
<1> QED BY <1>3, <1>4, <1>5 DEF IInv

LEMMA NextKeepsIInv ==
  ASSUME IInv, [Next]_vars
  PROVE  IInv'
<1>1. CASE Next
  BY <1>1, ClockKeepsIInv, SchedulerKeepsIInv, RequestKeepsIInv, QueueKeepsIInv,
     RunKeepsIInv DEF Next
<1>2. CASE UNCHANGED vars
  <2>1. TypeOK' /\ TokenIsWanted'
    BY <1>2 DEF vars, world, mailbox, asking, history, IInv, TypeOK, TokenIsWanted
  <2> QED BY <1>2, <2>1, RunsUntouched DEF vars, mailbox, history, IInv
<1> QED BY <1>1, <1>2

LEMMA IInvHolds == Spec => []IInv
<1>1. Init => IInv
  BY InitIInv
<1>2. IInv /\ [Next]_vars => IInv'
  BY NextKeepsIInv
<1> QED BY <1>1, <1>2, PTL DEF Spec

\* Every variable keeps its type.
THEOREM TypeCorrect == Spec => []TypeOK
<1>1. IInv => TypeOK
  BY DEF IInv
<1> QED BY <1>1, IInvHolds, PTL

\* However runs, requests, crashes and lost locks interleave, a mailbox whose row
\* says SYNCING is being synchronised by a run that will write its result, unless
\* a run ended without one.
THEOREM NeverLeftSyncing == Spec => []NotLeftSyncing
<1>1. IInv => NotLeftSyncing
  BY DEF IInv
<1> QED BY <1>1, IInvHolds, PTL

(***************************************************************************)
(* The three gates                                                           *)
(***************************************************************************)
\* Only runs get anywhere: every other step leaves each run where it is, ends it
\* or starts it.
LEMMA OthersStart ==
  ASSUME TypeOK, ClockStep \/ SchedulerStep \/ RequestStep \/ QueueStep
  PROVE  \A x \in Runs : run'[x] = run[x] \/ run'[x].pc \in {"idle", "start"}
<1>0. run \in [Runs -> RunState]
  BY DEF TypeOK
<1>1. CASE ClockStep
  BY <1>1 DEF ClockStep, BecomeStale, RetryTime, ToggleKillSwitch, Crash, Idle
<1>2. CASE SchedulerStep
  BY <1>2 DEF SchedulerStep, TickSelect, TickAdd, TickFails
<1>3. CASE RequestStep
  <2>1. ASSUME NEW r \in Requests, StartRefresh(r)
        PROVE  \A x \in Runs : run'[x] = run[x] \/ run'[x].pc \in {"idle", "start"}
    <3>1. r \in Runs /\ "start" \in Steps /\ Go(r, "start")
      BY <2>1 DEF StartRefresh, Go, Runs, Steps
    <3> QED BY <3>1, GoTyped
  <2> QED BY <1>3, <2>1
          DEF RequestStep, TriggerSync, Link, AddRequested, RevokeStart,
              CancelQueuedSyncJobs, RevokeWrite, RevokeFails, Remove
<1>4. CASE QueueStep
  <2>1. ASSUME NEW w \in Processors, NEW j \in JobIds, Take(w, j)
        PROVE  \A x \in Runs : run'[x] = run[x] \/ run'[x].pc \in {"idle", "start"}
    BY <1>0, <2>1 DEF Take, Runs
  <2> QED BY <1>4, <2>1 DEF QueueStep, RecoverStalled, LoseLock, Stall, ForgetFailed
<1> QED BY <1>1, <1>2, <1>3, <1>4

\* A run moves alone; it comes to a provider behind a look at the kill switch,
\* and to the use of a credential behind a look at the row.
LEMMA RunsMoveAlone ==
  ASSUME TypeOK, NEW r \in Runs, RunStep(r)
  PROVE  /\ UNCHANGED <<killSwitch, deleted, linked>>
         /\ \A x \in Runs : x # r => run'[x] = run[x]
         /\ r \in AtProvider' => r \in AtProvider \/ ~killSwitch
         /\ r \in Connected' =>
              r \in Connected \/ (~deleted /\ token /\ revived' = revived)
<1> USE DEF At, world, mailbox, asking, history, AtProvider, Connected
<1>1. CASE Start(r)
  <2>1. PICK step \in {"skip", "lookup"} : Go(r, step)
    BY <1>1 DEF Start
  <2>2. step \in Steps
    BY DEF Steps
  <2>3. run'[r].pc = step /\ \A x \in Runs : x # r => run'[x] = run[x]
    BY <2>1, <2>2, GoTyped
  <2> QED BY <1>1, <2>1, <2>3 DEF Start
<1>2. CASE Skip(r)
  <2>1. run' = [run EXCEPT ![r] = Idle]
    BY <1>2 DEF Skip, Return, Throw, Leave
  <2>2. run'[r].pc = "idle" /\ \A x \in Runs : x # r => run'[x] = run[x]
    BY <2>1 DEF TypeOK, Idle
  <2> QED BY <1>2, <2>2 DEF Skip
<1>3. CASE Lookup(r)
  <2>1. CASE deleted
    <3>1. run' = [run EXCEPT ![r] = Idle]
      BY <1>3, <2>1 DEF Lookup, Return, Leave
    <3>2. run'[r].pc = "idle" /\ \A x \in Runs : x # r => run'[x] = run[x]
      BY <3>1 DEF TypeOK, Idle
    <3> QED BY <1>3, <3>2 DEF Lookup
  <2>2. CASE ~deleted
    <3>1. PICK step \in {"unusable", "mark", "refresh"} :
             Go(r, step) /\ (step # "unusable" => token)
      BY <1>3, <2>2 DEF Lookup
    <3>2. step \in Steps
      BY DEF Steps
    <3>3. run'[r].pc = step /\ \A x \in Runs : x # r => run'[x] = run[x]
      BY <3>1, <3>2, GoTyped
    <3> QED BY <1>3, <2>2, <3>1, <3>3 DEF Lookup
  <2> QED BY <2>1, <2>2
<1>4. CASE LookupFails(r)
  <2>1. run' = [run EXCEPT ![r] = Idle]
    BY <1>4 DEF LookupFails, Return, Throw, Leave
  <2>2. run'[r].pc = "idle" /\ \A x \in Runs : x # r => run'[x] = run[x]
    BY <2>1 DEF TypeOK, Idle
  <2> QED BY <1>4, <2>2 DEF LookupFails
<1>5. CASE Unusable(r)
  <2>1. run' = [run EXCEPT ![r] = Idle]
    BY <1>5 DEF Unusable, Return, Throw, Leave
  <2>2. run'[r].pc = "idle" /\ \A x \in Runs : x # r => run'[x] = run[x]
    BY <2>1 DEF TypeOK, Idle
  <2> QED BY <1>5, <2>2 DEF Unusable
<1>6. CASE RefreshToken(r)
  <2>1. PICK step \in {"persist", "graph", "mark"} : Go(r, step)
    BY <1>6 DEF RefreshToken, AfterToken
  <2>2. step \in Steps
    BY DEF Steps
  <2>3. run'[r].pc = step /\ \A x \in Runs : x # r => run'[x] = run[x]
    BY <2>1, <2>2, GoTyped
  <2> QED BY <1>6, <2>1, <2>3 DEF RefreshToken
<1>7. CASE PersistToken(r)
  <2>1. PICK step \in {"graph", "mark"} : Go(r, step)
    BY <1>7 DEF PersistToken, AfterToken
  <2>2. step \in Steps
    BY DEF Steps
  <2>3. run'[r].pc = step /\ \A x \in Runs : x # r => run'[x] = run[x]
    BY <2>1, <2>2, GoTyped
  <2> QED BY <1>7, <2>1, <2>3 DEF PersistToken
<1>8. CASE MarkSyncing(r)
  <2>1. run \in [Runs -> RunState]
    BY DEF TypeOK
  <2>2. \A x \in Runs : x # r => run'[x] = run[x]
    BY <1>8, <2>1 DEF MarkSyncing, Throw, Leave
  <2>3. run'[r].pc \in {"idle", "refresh", "slot"}
    <3>1. CASE Throw(r)
      BY <2>1, <3>1 DEF Throw, Leave, Idle
    <3>2. CASE ~Throw(r)
      <4>1. PICK next \in {"refresh", "slot"} :
               run' = [run EXCEPT ![r].marked = TRUE, ![r].pc = next]
        BY <1>8, <3>2 DEF MarkSyncing
      <4>2. run' = [run EXCEPT ![r] = [run[r] EXCEPT !.marked = TRUE, !.pc = next]]
        BY <2>1, <4>1
      <4>3. run'[r] = [run[r] EXCEPT !.marked = TRUE, !.pc = next]
        BY <2>1, <4>2
      <4>4. run[r] \in RunState
        BY <2>1
      <4> QED BY <4>3, <4>4 DEF RunState
    <3> QED BY <3>1, <3>2
  <2> QED BY <1>8, <2>2, <2>3 DEF MarkSyncing
<1>9. CASE GraphSlot(r)
  <2>1. PICK step \in {"graphFetch"} : Go(r, step)
    BY <1>9 DEF GraphSlot
  <2>2. step \in Steps
    BY DEF Steps
  <2>3. run'[r].pc = step /\ \A x \in Runs : x # r => run'[x] = run[x]
    BY <2>1, <2>2, GoTyped
  <2> QED BY <1>9, <2>1, <2>3 DEF GraphSlot
<1>10. CASE GraphStopped(r)
  <2>1. run' = [run EXCEPT ![r] = Idle]
    BY <1>10 DEF GraphStopped, EscapesUncaught, Return, Throw, Leave
  <2>2. run'[r].pc = "idle" /\ \A x \in Runs : x # r => run'[x] = run[x]
    BY <2>1 DEF TypeOK, Idle
  <2> QED BY <1>10, <2>2 DEF GraphStopped, EscapesUncaught
<1>11. CASE GraphPage(r)
  <2>1. PICK step \in {"graph", "graphFinish", "slot"} : Go(r, step)
    BY <1>11 DEF GraphPage
  <2>2. step \in Steps
    BY DEF Steps
  <2>3. run'[r].pc = step /\ \A x \in Runs : x # r => run'[x] = run[x]
    BY <2>1, <2>2, GoTyped
  <2> QED BY <1>11, <2>1, <2>3 DEF GraphPage
<1>12. CASE GraphFails(r)
  <2>1. run' = [run EXCEPT ![r] = Idle]
    BY <1>12 DEF GraphFails, EscapesUncaught, Return, Throw, Leave
  <2>2. run'[r].pc = "idle" /\ \A x \in Runs : x # r => run'[x] = run[x]
    BY <2>1 DEF TypeOK, Idle
  <2> QED BY <1>12, <2>2 DEF GraphFails, EscapesUncaught
<1>13. CASE ConnectSlot(r)
  <2>1. PICK step \in {"connect"} : Go(r, step)
    BY <1>13 DEF ConnectSlot
  <2>2. step \in Steps
    BY DEF Steps
  <2>3. run'[r].pc = step /\ \A x \in Runs : x # r => run'[x] = run[x]
    BY <2>1, <2>2, GoTyped
  <2> QED BY <1>13, <2>1, <2>3 DEF ConnectSlot
<1>14. CASE ConnectStopped(r)
  <2>1. run' = [run EXCEPT ![r] = Idle]
    BY <1>14 DEF ConnectStopped, EscapesUncaught, Return, Throw, Leave
  <2>2. run'[r].pc = "idle" /\ \A x \in Runs : x # r => run'[x] = run[x]
    BY <2>1 DEF TypeOK, Idle
  <2> QED BY <1>14, <2>2 DEF ConnectStopped, EscapesUncaught
<1>15. CASE Connect(r)
  <2>1. PICK step \in {"folders"} : Go(r, step)
    BY <1>15 DEF Connect
  <2>2. step \in Steps
    BY DEF Steps
  <2>3. run'[r].pc = step /\ \A x \in Runs : x # r => run'[x] = run[x]
    BY <2>1, <2>2, GoTyped
  <2> QED BY <1>15, <2>1, <2>3 DEF Connect
<1>16. CASE ConnectFails(r)
  <2>1. run' = [run EXCEPT ![r] = Idle]
    BY <1>16 DEF ConnectFails, EscapesUncaught, Return, Throw, Leave
  <2>2. run'[r].pc = "idle" /\ \A x \in Runs : x # r => run'[x] = run[x]
    BY <2>1 DEF TypeOK, Idle
  <2> QED BY <1>16, <2>2 DEF ConnectFails, EscapesUncaught
<1>17. CASE FolderSlot(r)
  <2>1. PICK step \in {"skip", "fetch"} : Go(r, step) /\ (step = "fetch" => ~killSwitch)
    BY <1>17 DEF FolderSlot
  <2>2. step \in Steps
    BY DEF Steps
  <2>3. run'[r].pc = step /\ \A x \in Runs : x # r => run'[x] = run[x]
    BY <2>1, <2>2, GoTyped
  <2> QED BY <1>17, <2>1, <2>3 DEF FolderSlot
<1>18. CASE FetchMore(r)
  <2>1. PICK step \in {"folders"} : Go(r, step)
    BY <1>18 DEF FetchMore
  <2>2. step \in Steps
    BY DEF Steps
  <2>3. run'[r].pc = step /\ \A x \in Runs : x # r => run'[x] = run[x]
    BY <2>1, <2>2, GoTyped
  <2> QED BY <1>18, <2>1, <2>3 DEF FetchMore
<1>19. CASE FetchEnds(r)
  <2>1. PICK step \in {"finish", "failed"} : Go(r, step)
    BY <1>19 DEF FetchEnds
  <2>2. step \in Steps
    BY DEF Steps
  <2>3. run'[r].pc = step /\ \A x \in Runs : x # r => run'[x] = run[x]
    BY <2>1, <2>2, GoTyped
  <2> QED BY <1>19, <2>1, <2>3 DEF FetchEnds
<1>20. CASE Finish(r)
  <2>1. run' = [run EXCEPT ![r] = Idle]
    BY <1>20 DEF Finish, Succeeded, Return, Throw, Leave
  <2>2. run'[r].pc = "idle" /\ \A x \in Runs : x # r => run'[x] = run[x]
    BY <2>1 DEF TypeOK, Idle
  <2> QED BY <1>20, <2>2 DEF Finish, Succeeded
<1>21. CASE FinishFails(r)
  <2>1. PICK step \in {"failed"} : Go(r, step)
    BY <1>21 DEF FinishFails
  <2>2. step \in Steps
    BY DEF Steps
  <2>3. run'[r].pc = step /\ \A x \in Runs : x # r => run'[x] = run[x]
    BY <2>1, <2>2, GoTyped
  <2> QED BY <1>21, <2>1, <2>3 DEF FinishFails
<1>22. CASE Fail(r)
  <2>1. run' = [run EXCEPT ![r] = Idle]
    BY <1>22 DEF Fail, Return, Throw, Leave
  <2>2. run'[r].pc = "idle" /\ \A x \in Runs : x # r => run'[x] = run[x]
    BY <2>1 DEF TypeOK, Idle
  <2> QED BY <1>22, <2>2 DEF Fail
<1> QED BY <1>1, <1>2, <1>3, <1>4, <1>5, <1>6, <1>7, <1>8, <1>9, <1>10, <1>11,
           <1>12, <1>13, <1>14, <1>15, <1>16, <1>17, <1>18, <1>19, <1>20, <1>21, <1>22 DEF RunStep

LEMMA KillSwitchGateStep ==
  ASSUME IInv, IInv', [Next]_vars
  PROVE  [KillSwitchGate!Next]_(KillSwitchGate!vars)
<1> USE DEF AtProvider
<1>0. TypeOK /\ (~killSwitch)' \in BOOLEAN
  BY DEF IInv, TypeOK
<1>1. ASSUME AtProvider' \subseteq AtProvider
      PROVE  KillSwitchGate!Next
  BY <1>0, <1>1 DEF KillSwitchGate!Next, KillSwitchGate!Change
<1>2. CASE UNCHANGED vars
  BY <1>2 DEF vars, world, mailbox, history, KillSwitchGate!vars
<1>3. CASE ClockStep \/ SchedulerStep \/ RequestStep \/ QueueStep
  BY <1>0, <1>1, <1>3, OthersStart
<1>4. ASSUME NEW r \in Runs, RunStep(r)
      PROVE  KillSwitchGate!Next
  <2>1. \A x \in Runs : x # r => run'[x] = run[x]
    BY <1>0, <1>4, RunsMoveAlone
  <2>2. CASE r \notin AtProvider' \/ r \in AtProvider
    BY <1>1, <2>1, <2>2
  <2>3. CASE r \in AtProvider' /\ r \notin AtProvider
    <3>1. AtProvider' = AtProvider \cup {r}
      BY <2>1, <2>3
    <3>2. ~killSwitch /\ UNCHANGED killSwitch
      BY <1>0, <1>4, <2>3, RunsMoveAlone
    <3> QED BY <3>1, <3>2 DEF KillSwitchGate!Next, KillSwitchGate!Enter
  <2> QED BY <2>2, <2>3
<1> QED BY <1>2, <1>3, <1>4 DEF Next

LEMMA DeletionGateStep ==
  ASSUME IInv, IInv', [Next]_vars
  PROVE  [DeletionGate!Next]_(DeletionGate!vars)
<1> USE DEF Connected
<1>0. TypeOK /\ (~deleted)' \in BOOLEAN
  BY DEF IInv, TypeOK
<1>1. ASSUME Connected' \subseteq Connected
      PROVE  DeletionGate!Next
  BY <1>0, <1>1 DEF DeletionGate!Next, DeletionGate!Change
<1>2. CASE UNCHANGED vars
  BY <1>2 DEF vars, world, mailbox, history, DeletionGate!vars
<1>3. CASE ClockStep \/ SchedulerStep \/ RequestStep \/ QueueStep
  BY <1>0, <1>1, <1>3, OthersStart
<1>4. ASSUME NEW r \in Runs, RunStep(r)
      PROVE  DeletionGate!Next
  <2>1. \A x \in Runs : x # r => run'[x] = run[x]
    BY <1>0, <1>4, RunsMoveAlone
  <2>2. CASE r \notin Connected' \/ r \in Connected
    BY <1>1, <2>1, <2>2
  <2>3. CASE r \in Connected' /\ r \notin Connected
    <3>1. Connected' = Connected \cup {r}
      BY <2>1, <2>3
    <3>2. ~deleted /\ UNCHANGED deleted
      BY <1>0, <1>4, <2>3, RunsMoveAlone
    <3> QED BY <3>1, <3>2 DEF DeletionGate!Next, DeletionGate!Enter
  <2> QED BY <2>2, <2>3
<1> QED BY <1>2, <1>3, <1>4 DEF Next

LEMMA DisconnectGateStep ==
  ASSUME IInv, IInv', [Next]_vars
  PROVE  [DisconnectGate!Next]_(DisconnectGate!vars)
<1> USE DEF Connected
<1>0. TypeOK /\ (linked \/ revived)' \in BOOLEAN
  BY DEF IInv, TypeOK
<1>1. ASSUME Connected' \subseteq Connected
      PROVE  DisconnectGate!Next
  BY <1>0, <1>1 DEF DisconnectGate!Next, DisconnectGate!Change
<1>2. CASE UNCHANGED vars
  BY <1>2 DEF vars, world, mailbox, history, DisconnectGate!vars
<1>3. CASE ClockStep \/ SchedulerStep \/ RequestStep \/ QueueStep
  BY <1>0, <1>1, <1>3, OthersStart
<1>4. ASSUME NEW r \in Runs, RunStep(r)
      PROVE  DisconnectGate!Next
  <2>1. \A x \in Runs : x # r => run'[x] = run[x]
    BY <1>0, <1>4, RunsMoveAlone
  <2>2. CASE r \notin Connected' \/ r \in Connected
    BY <1>1, <2>1, <2>2
  <2>3. CASE r \in Connected' /\ r \notin Connected
    <3>1. Connected' = Connected \cup {r}
      BY <2>1, <2>3
    <3>2. (linked \/ revived) /\ UNCHANGED <<linked, revived>>
      <4>1. token /\ UNCHANGED <<linked, revived>>
        BY <1>0, <1>4, <2>3, RunsMoveAlone
      <4> QED BY <4>1 DEF IInv, TokenIsWanted
    <3> QED BY <3>1, <3>2 DEF DisconnectGate!Next, DisconnectGate!Enter
  <2> QED BY <2>2, <2>3
<1> QED BY <1>2, <1>3, <1>4 DEF Next

\* While the kill switch is on no run gets to a provider, whatever it was doing
\* when the switch was flipped.
THEOREM KillSwitchIsObeyed == Spec => KillSwitchStops
<1>1. Init => KillSwitchGate!Init
  <2>1. Init => (~killSwitch) \in BOOLEAN
    BY DEF Init
  <2>2. Init => AtProvider = {}
    BY DEF Init, AtProvider, Idle
  <2> QED BY <2>1, <2>2 DEF KillSwitchGate!Init
<1>2. IInv /\ IInv' /\ [Next]_vars => [KillSwitchGate!Next]_(KillSwitchGate!vars)
  BY KillSwitchGateStep
<1> QED BY <1>1, <1>2, IInvHolds, PTL DEF Spec, KillSwitchStops, KillSwitchGate!Spec

\* Once the mailbox is deleted no run reads its credential any more.
THEOREM DeletionIsObeyed == Spec => DeletionStops
<1>1. Init => DeletionGate!Init
  <2>1. Init => (~deleted) \in BOOLEAN
    BY DEF Init
  <2>2. Init => Connected = {}
    BY DEF Init, Connected, Idle
  <2> QED BY <2>1, <2>2 DEF DeletionGate!Init
<1>2. IInv /\ IInv' /\ [Next]_vars => [DeletionGate!Next]_(DeletionGate!vars)
  BY DeletionGateStep
<1> QED BY <1>1, <1>2, IInvHolds, PTL DEF Spec, DeletionStops, DeletionGate!Spec

\* Once the mailbox is disconnected no run reads its credential any more, unless
\* a refresh that was under way has stored one after the fact.
THEOREM DisconnectIsObeyed == Spec => DisconnectStops
<1>1. Init => DisconnectGate!Init
  <2>1. Init => (linked \/ revived) \in BOOLEAN
    BY DEF Init
  <2>2. Init => Connected = {}
    BY DEF Init, Connected, Idle
  <2> QED BY <2>1, <2>2 DEF DisconnectGate!Init
<1>2. IInv /\ IInv' /\ [Next]_vars => [DisconnectGate!Next]_(DisconnectGate!vars)
  BY DisconnectGateStep
<1> QED BY <1>1, <1>2, IInvHolds, PTL DEF Spec, DisconnectStops, DisconnectGate!Spec

(***************************************************************************)
(* Calendars                                                                *)
(*                                                                          *)
(* A row that an event was made for has noted the event's id, or a push     *)
(* has it in hand and will; a run that takes the event in meanwhile writes  *)
(* it among the raced ones.  So nobody else names an event that is not      *)
(* among them, and a row that is given one is the first.                    *)
(***************************************************************************)
\* The counts of CalendarSync are the library's.
LEMMA SameCounts == \A S : Cal!Cardinality(S) = Cardinality(S)
PROOF BY DEF Cal!Cardinality, Cardinality

CalendarKnown == Cal!CalendarAssumption /\ Cal!CalendarInv

RowState == [at : {"absent", "live", "cancelled"}, ext : Objects \cup {None},
             seen : 0..MaxStamp]
ObjectState == [there : BOOLEAN, stamp : 0..MaxStamp, form : Forms]
SyncState == [at : {"idle", "items", "write", "push"}, got : [Objects -> 0..MaxStamp],
              off : SUBSET Objects, todo : SUBSET (Objects \cup Rows), item : Objects \cup {None},
              found : Rows \cup {None}]
PushState == [at : {"idle", "call", "link", "remove"}, ext : Objects \cup {None},
              stamp : 0..MaxStamp]

(***************************************************************************)
(* Types                                                                    *)
(***************************************************************************)
LEMMA Types ==
  Cal!TypeOK <=> /\ rows \in [Rows -> RowState] /\ objects \in [Objects -> ObjectState]
                 /\ shown \subseteq Objects /\ raced \subseteq Objects
                 /\ made \in [Objects -> Rows \cup {None}]
                 /\ late \in [Syncs -> SUBSET Objects]
                 /\ sync \in [Syncs -> SyncState] /\ push \in [Rows -> PushState]
PROOF BY DEF Cal!TypeOK, RowState, ObjectState, SyncState, PushState

LEMMA TypesNext ==
  Cal!TypeOK' <=> /\ rows' \in [Rows -> RowState] /\ objects' \in [Objects -> ObjectState]
                  /\ shown' \subseteq Objects /\ raced' \subseteq Objects
                  /\ made' \in [Objects -> Rows \cup {None}]
                  /\ late' \in [Syncs -> SUBSET Objects]
                  /\ sync' \in [Syncs -> SyncState] /\ push' \in [Rows -> PushState]
PROOF BY DEF Cal!TypeOK, RowState, ObjectState, SyncState, PushState

LEMMA Parts ==
  ASSUME CalendarKnown
  PROVE  /\ rows \in [Rows -> RowState] /\ objects \in [Objects -> ObjectState]
         /\ shown \subseteq Objects /\ raced \subseteq Objects
         /\ made \in [Objects -> Rows \cup {None}]
         /\ late \in [Syncs -> SUBSET Objects]
         /\ sync \in [Syncs -> SyncState] /\ push \in [Rows -> PushState]
         /\ None \notin Rows /\ None \notin Objects /\ Syncs \cap Rows = {}
         /\ MaxStamp \in Nat /\ "plain" \in Forms
         /\ Service = "caldav" => Rows \subseteq Objects
PROOF
<1>1. Cal!TypeOK  BY DEF CalendarKnown, Cal!CalendarInv
<1>2. QED  BY <1>1, Types DEF CalendarKnown, Cal!CalendarAssumption

LEMMA Fields ==
  ASSUME CalendarKnown
  PROVE  /\ \A r \in Rows : /\ rows[r].at \in {"absent", "live", "cancelled"}
                            /\ rows[r].ext \in Objects \cup {None}
                            /\ rows[r].seen \in 0..MaxStamp
         /\ \A o \in Objects : /\ objects[o].there \in BOOLEAN
                               /\ objects[o].stamp \in 0..MaxStamp
                               /\ made[o] \in Rows \cup {None}
         /\ \A s \in Syncs : /\ sync[s].at \in {"idle", "items", "write", "push"}
                             /\ sync[s].got \in [Objects -> 0..MaxStamp]
                             /\ sync[s].todo \subseteq Objects \cup Rows
                             /\ sync[s].item \in Objects \cup {None}
                             /\ sync[s].found \in Rows \cup {None}
         /\ \A r \in Rows : /\ push[r].at \in {"idle", "call", "link", "remove"}
                            /\ push[r].ext \in Objects \cup {None}
                            /\ push[r].stamp \in 0..MaxStamp
PROOF
<1>1. \A r \in Rows : rows[r] \in RowState /\ push[r] \in PushState  BY Parts
<1>2. \A o \in Objects : objects[o] \in ObjectState /\ made[o] \in Rows \cup {None}
  BY Parts
<1>3. \A s \in Syncs : sync[s] \in SyncState  BY Parts
<1>4. \A r \in Rows : /\ rows[r].at \in {"absent", "live", "cancelled"}
                      /\ rows[r].ext \in Objects \cup {None}
                      /\ rows[r].seen \in 0..MaxStamp
  BY <1>1 DEF RowState
<1>5. \A o \in Objects : objects[o].there \in BOOLEAN /\ objects[o].stamp \in 0..MaxStamp
  BY <1>2 DEF ObjectState
<1>6. \A s \in Syncs : /\ sync[s].at \in {"idle", "items", "write", "push"}
                       /\ sync[s].got \in [Objects -> 0..MaxStamp]
                       /\ sync[s].todo \subseteq Objects \cup Rows
                       /\ sync[s].item \in Objects \cup {None}
                       /\ sync[s].found \in Rows \cup {None}
  BY <1>3 DEF SyncState
<1>7. \A r \in Rows : /\ push[r].at \in {"idle", "call", "link", "remove"}
                      /\ push[r].ext \in Objects \cup {None}
                      /\ push[r].stamp \in 0..MaxStamp
  BY <1>1 DEF PushState
<1>8. QED  BY <1>2, <1>4, <1>5, <1>6, <1>7

LEMMA CalendarHolds ==
  ASSUME CalendarKnown
  PROVE  /\ \A o \in Objects : Cal!BornObject(o) /\ Cal!OneRow(o) /\ Cal!Kept(o)
         /\ \A r \in Rows : /\ Cal!BornRow(r) /\ Cal!BornPush(r) /\ Cal!Claimed(r) /\ Cal!LinkFits(r)
                            /\ Cal!Reached(r)
         /\ \A s \in Syncs : Cal!BornSync(s) /\ Cal!Waits(s) /\ Cal!Sees(s)
PROOF BY DEF CalendarKnown, Cal!CalendarInv

LEMMA NoneTyped ==
  ASSUME Cal!CalendarAssumption
  PROVE  /\ Cal!NoRow \in RowState /\ Cal!NoRow.at = "absent"
         /\ Cal!NoPush \in PushState /\ Cal!NoPush.at = "idle"
         /\ Cal!NoSync \in SyncState /\ Cal!NoSync.at = "idle"
PROOF
<1>1. 0 \in 0..MaxStamp  BY DEF Cal!CalendarAssumption
<1>2. Cal!NoSync \in SyncState /\ Cal!NoSync.at = "idle"
  <2>1. [o \in Objects |-> 0] \in [Objects -> 0..MaxStamp]  BY <1>1
  <2>2. QED  BY <2>1 DEF Cal!NoSync, SyncState
<1>3. QED  BY <1>1, <1>2 DEF Cal!NoRow, RowState, Cal!NoPush, PushState

(***************************************************************************)
(* Those who stand by                                                       *)
(***************************************************************************)
\* No row is given an event it did not have.
RowsShrink ==
  \A r \in Rows : rows'[r].at # "absent" /\ rows'[r].ext # None =>
    rows[r].at # "absent" /\ rows'[r].ext = rows[r].ext
SameRow(r) ==
  /\ rows'[r].at = "absent" <=> rows[r].at = "absent"
  /\ rows'[r].ext = rows[r].ext
Grown == \A o \in Objects : objects[o].stamp > 0 => objects'[o].stamp > 0
SightKept(s) ==
  sync[s].at \in {"items", "write"} =>
    \A o \in Objects :
      o \in Cal!Noted' /\ o \notin late'[s] => o \in Cal!Noted /\ o \notin late[s]

\* The row an object was made for stays that, and keeps what it has or has in hand.
MadeStays(o) ==
  /\ made'[o] = made[o]
  /\ made[o] # None =>
       /\ SameRow(made[o])
       /\ push'[made[o]] = push[made[o]] \/ push[made[o]].at # "link"
PushStays(r) ==
  /\ SameRow(r) /\ push'[r] = push[r]
  /\ \A o \in Objects : made[o] = r => made'[o] = r

LEMMA Shrink ==
  ASSUME CalendarKnown, RowsShrink, NEW o \in Objects PROVE Cal!RowsOf(o)' \subseteq Cal!RowsOf(o)
PROOF BY Parts DEF RowsShrink, Cal!RowsOf

LEMMA RowsStandBy ==
  ASSUME CalendarKnown, RowsShrink, Grown, NEW r \in Rows
  PROVE  Cal!BornRow(r)'
PROOF
<1>1. rows[r].ext \in Objects \cup {None}  BY Fields
<1>2. Cal!BornRow(r)  BY CalendarHolds
<1>3. QED  BY <1>1, <1>2 DEF Cal!BornRow, RowsShrink, Grown

LEMMA MadeStandsBy ==
  ASSUME CalendarKnown, RowsShrink, raced \subseteq raced', Grown, NEW o \in Objects,
         MadeStays(o) \/ made'[o] = None
  PROVE  Cal!OneRow(o)' /\ Cal!Kept(o)'
PROOF
<1>1. Cal!OneRow(o) /\ Cal!Kept(o)  BY CalendarHolds
<1>2. Cal!RowsOf(o)' \subseteq Cal!RowsOf(o)  BY Shrink
<1>3. made'[o] \in {made[o], None} /\ made[o] \in Rows \cup {None} /\ None \notin Rows
  BY Fields, Parts DEF MadeStays
<1>4. Cal!ShownBy(o)' \subseteq Cal!ShownBy(o)  BY <1>2, <1>3 DEF Cal!ShownBy
<1>5. Cal!OneRow(o)'  BY <1>1, <1>4 DEF Cal!OneRow
<1>6. CASE made'[o] = None  BY <1>5, <1>6 DEF Cal!Kept
<1>7. CASE made'[o] # None
  <2>1. PICK r \in Rows : r = made[o]  BY <1>3, <1>7
  <2>2. /\ made'[o] = r /\ SameRow(r)
        /\ push'[r] = push[r] \/ push[r].at # "link"
    BY <1>7, <2>1 DEF MadeStays
  <2>3. /\ rows[r].at # "absent" /\ objects[o].stamp > 0
        /\ o \notin raced => rows[r].ext = o \/ r \in Cal!InHand(o)
    BY <1>1, <1>3, <1>7, <2>1, <2>2 DEF Cal!Kept
  <2>4. rows'[r].at # "absent" /\ objects'[o].stamp > 0
    BY <2>2, <2>3 DEF SameRow, Grown
  <2>5. ASSUME o \notin raced' PROVE rows'[r].ext = o \/ r \in Cal!InHand(o)'
    BY <2>2, <2>3, <2>5 DEF SameRow, Cal!InHand
  <2>6. QED  BY <1>5, <2>2, <2>4, <2>5 DEF Cal!Kept
<1>8. QED  BY <1>6, <1>7

LEMMA PushStandsBy ==
  ASSUME CalendarKnown, raced \subseteq raced', Grown, NEW r \in Rows, PushStays(r)
  PROVE  Cal!BornPush(r)' /\ Cal!Claimed(r)'
PROOF
<1>1. Cal!BornPush(r) /\ Cal!Claimed(r)  BY CalendarHolds
<1>2. Cal!BornPush(r)'  BY <1>1 DEF Cal!BornPush, Grown, PushStays
<1>3. CASE push[r].at = "link"
  <2>1. PICK o \in Objects : o = push[r].ext  BY <1>1, <1>3 DEF Cal!BornPush
  <2>2. o \in raced \/ rows[r].ext = o \/ made[o] = r  BY <1>1, <1>3, <2>1 DEF Cal!Claimed
  <2>3. o \in raced' \/ rows'[r].ext = o \/ made'[o] = r
    BY <2>2 DEF PushStays, SameRow
  <2>4. push'[r].ext = o  BY <2>1 DEF PushStays
  <2>5. QED  BY <1>2, <2>3, <2>4 DEF Cal!Claimed
<1>4. CASE push[r].at # "link"  BY <1>2, <1>4 DEF Cal!Claimed, PushStays
<1>5. QED  BY <1>3, <1>4

LEMMA PushesStandBy ==
  ASSUME CalendarKnown, raced \subseteq raced', NEW r \in Rows, SameRow(r), push'[r] = push[r]
  PROVE  /\ Cal!LinkFits(r)'
         /\ objects'[r].stamp = objects[r].stamp => Cal!Reached(r)'
PROOF
<1>1. Cal!LinkFits(r) /\ Cal!Reached(r)  BY CalendarHolds
<1>2. Cal!LinkFits(r)'  BY <1>1 DEF Cal!LinkFits, SameRow
<1>3. ASSUME objects'[r].stamp = objects[r].stamp PROVE Cal!Reached(r)'
  BY <1>1, <1>3 DEF Cal!Reached, SameRow
<1>4. QED  BY <1>2, <1>3

LEMMA SyncKept ==
  ASSUME CalendarKnown, Grown, NEW s \in Syncs, sync'[s] = sync[s]
  PROVE  Cal!BornSync(s)' /\ (SightKept(s) => Cal!Sees(s)')
PROOF
<1>1. Cal!BornSync(s) /\ Cal!Sees(s)  BY CalendarHolds
<1>2. Cal!BornSync(s)'
  <2>1. CASE sync[s].at \in {"items", "write"}
    <3>1. sync[s].todo \subseteq Objects /\ \A o \in sync[s].todo : objects'[o].stamp > 0
      BY <1>1, <2>1 DEF Cal!BornSync, Grown
    <3>2. QED  BY <1>1, <3>1 DEF Cal!BornSync
  <2>2. CASE sync[s].at \notin {"items", "write"}  BY <2>2 DEF Cal!BornSync
  <2>3. QED  BY <2>1, <2>2
<1>3. SightKept(s) => Cal!Sees(s)'  BY <1>1 DEF Cal!Sees, SightKept
<1>4. QED  BY <1>2, <1>3

LEMMA SyncStandsBy ==
  ASSUME CalendarKnown, RowsShrink, Grown, NEW s \in Syncs, sync'[s] = sync[s]
  PROVE  /\ Cal!BornSync(s)' /\ Cal!Waits(s)'
         /\ SightKept(s) => Cal!Sees(s)'
PROOF
<1>1. Cal!Waits(s)  BY CalendarHolds
<1>2. Cal!Waits(s)'
  <2>1. CASE sync[s].at = "push"
    <3>1. /\ Service = "caldav" /\ sync[s].todo \subseteq Rows
          /\ \A r \in sync[s].todo : rows[r].at = "absent" \/ rows[r].ext \in {None, r}
      BY <1>1, <2>1 DEF Cal!Waits
    <3>2. \A r \in sync[s].todo : rows'[r].at = "absent" \/ rows'[r].ext \in {None, r}
      BY <3>1 DEF RowsShrink
    <3>3. QED  BY <3>1, <3>2 DEF Cal!Waits
  <2>2. CASE sync[s].at # "push"  BY <2>2 DEF Cal!Waits
  <2>3. QED  BY <2>1, <2>2
<1>3. QED  BY <1>2, SyncKept

(***************************************************************************)
(* A row that is given an event                                             *)
(***************************************************************************)
\* Row r is given the event o, which no other row names; o was made for r, or for
\* nobody, or was raced for.
Takes(r, o) ==
  /\ rows'[r].at # "absent" /\ rows'[r].ext = o
  /\ rows[r].at = "absent" \/ rows[r].ext \in {None, o}
  /\ \A q \in Rows \ {r} : rows'[q] = rows[q] /\ push'[q] = push[q]
  /\ push'[r] = push[r] \/ (push[r].at = "link" /\ push[r].ext = o)
  /\ Cal!RowsOf(o) \subseteq {r}
  /\ \A e \in Objects \ {o} : made'[e] = made[e]
  /\ made'[o] = made[o] \/ (Service = "caldav" /\ o = r /\ made'[o] = r)
  /\ raced \subseteq raced'
  /\ o \in raced' \/ made'[o] \in {None, r}
  /\ Grown /\ objects'[o].stamp > 0

LEMMA Taken ==
  ASSUME CalendarKnown, NEW r \in Rows, NEW o \in Objects, Takes(r, o)
  PROVE  /\ \A e \in Objects : Cal!OneRow(e)' /\ Cal!Kept(e)'
         /\ \A q \in Rows : Cal!BornRow(q)'
         /\ \A q \in Rows \ {r} : Cal!BornPush(q)' /\ Cal!Claimed(q)'
PROOF
<1>1. Cal!RowsOf(o)' \subseteq {r}
  BY Parts DEF Takes, Cal!RowsOf
<1>2. ASSUME NEW e \in Objects \ {o} PROVE Cal!RowsOf(e)' \subseteq Cal!RowsOf(e)
  BY Parts DEF Takes, Cal!RowsOf
<1>3. ASSUME NEW e \in Objects PROVE Cal!OneRow(e)'
  <2>1. CASE e = o
    <3>1. ASSUME o \notin raced' PROVE Cal!ShownBy(o)' \subseteq {r}
      BY <1>1, <3>1, Parts DEF Cal!ShownBy, Takes
    <3>2. QED  BY <2>1, <3>1 DEF Cal!OneRow
  <2>2. CASE e # o
    <3>1. Cal!OneRow(e) /\ raced \subseteq raced' /\ made'[e] = made[e]
      BY <2>2, CalendarHolds DEF Takes
    <3>2. Cal!ShownBy(e)' \subseteq Cal!ShownBy(e)  BY <1>2, <2>2, <3>1 DEF Cal!ShownBy
    <3>3. QED  BY <3>1, <3>2 DEF Cal!OneRow
  <2>3. QED  BY <2>1, <2>2
<1>4. ASSUME NEW e \in Objects, made'[e] # None PROVE Cal!Kept(e)'
  <2>1. Cal!Kept(e) /\ made[e] \in Rows \cup {None}  BY CalendarHolds, Fields
  <2>2. PICK q \in Rows : q = made'[e]
    BY <1>4, <2>1 DEF Takes
  <2>3. /\ made[e] = q => rows[q].at # "absent" /\ objects[e].stamp > 0
        /\ made[e] = q /\ e \notin raced => rows[q].ext = e \/ q \in Cal!InHand(e)
    BY <2>1, Parts DEF Cal!Kept
  <2>4. rows'[q].at # "absent" /\ objects'[e].stamp > 0
    <3>1. CASE e = o  BY <2>2, <2>3, <3>1 DEF Takes
    <3>2. CASE e # o
      <4>1. made[e] = q  BY <2>2, <3>2 DEF Takes
      <4>2. QED  BY <2>3, <4>1 DEF Takes, Grown
    <3>3. QED  BY <3>1, <3>2
  <2>5. ASSUME e \notin raced' PROVE rows'[q].ext = e \/ q \in Cal!InHand(e)'
    <3>1. CASE e = o  BY <1>4, <2>2, <2>5, <3>1 DEF Takes
    <3>2. CASE e # o
      <4>1. made[e] = q /\ e \notin raced  BY <2>2, <2>5, <3>2 DEF Takes
      <4>2. rows[q].at # "absent" /\ (rows[q].ext = e \/ q \in Cal!InHand(e))
        BY <2>3, <4>1
      <4>3. CASE q # r  BY <4>2, <4>3 DEF Takes, Cal!InHand
      <4>4. CASE q = r
        <5>1. e # None /\ rows[r].ext # e  BY <3>2, <4>2, <4>4, Parts DEF Takes
        <5>2. push[r].at = "link" /\ push[r].ext = e  BY <4>2, <4>4, <5>1 DEF Cal!InHand
        <5>3. push'[r] = push[r]  BY <3>2, <5>2 DEF Takes
        <5>4. QED  BY <4>4, <5>2, <5>3 DEF Cal!InHand
      <4>5. QED  BY <4>3, <4>4
    <3>3. QED  BY <3>1, <3>2
  <2>6. QED  BY <2>2, <2>4, <2>5 DEF Cal!Kept
<1>5. \A e \in Objects : Cal!Kept(e)'  BY <1>4 DEF Cal!Kept
<1>6. ASSUME NEW q \in Rows PROVE Cal!BornRow(q)'
  <2>1. CASE q = r  BY <2>1 DEF Cal!BornRow, Takes
  <2>2. CASE q # r
    <3>1. rows'[q] = rows[q] /\ Grown /\ rows[q].ext \in Objects \cup {None}
      BY <2>2, Fields DEF Takes
    <3>2. Cal!BornRow(q)  BY CalendarHolds
    <3>3. QED  BY <3>1, <3>2 DEF Cal!BornRow, Grown
  <2>3. QED  BY <2>1, <2>2
<1>7. ASSUME NEW q \in Rows \ {r} PROVE Cal!BornPush(q)' /\ Cal!Claimed(q)'
  <2>1. Cal!BornPush(q) /\ Cal!Claimed(q) /\ Cal!LinkFits(q)  BY CalendarHolds
  <2>2. push'[q] = push[q] /\ rows'[q] = rows[q]  BY DEF Takes
  <2>3. Cal!BornPush(q)'  BY <2>1, <2>2 DEF Cal!BornPush, Grown, Takes
  <2>4. CASE push[q].at = "link"
    <3>1. PICK e \in Objects : e = push[q].ext  BY <2>1, <2>4 DEF Cal!BornPush
    <3>2. e \in raced \/ rows[q].ext = e \/ made[e] = q
      BY <2>1, <2>4, <3>1 DEF Cal!Claimed
    <3>3. e \in raced' \/ rows'[q].ext = e \/ made'[e] = q
      <4>1. CASE made'[e] = made[e]  BY <2>2, <3>2, <4>1 DEF Takes
      <4>2. CASE made'[e] # made[e]
        <5>1. e = r /\ Service = "caldav"  BY <4>2 DEF Takes
        <5>2. rows[q].ext \in {None, e} /\ (rows[q].ext = None => e = q)
          BY <2>1, <2>4, <3>1, <5>1 DEF Cal!LinkFits
        <5>3. QED  BY <2>2, <5>1, <5>2
      <4>3. QED  BY <4>1, <4>2
    <3>4. Cal!Claimed(q)'  BY <2>2, <3>1, <3>3 DEF Cal!Claimed
    <3>5. QED  BY <2>3, <3>4
  <2>5. CASE push[q].at # "link"  BY <2>2, <2>3, <2>5 DEF Cal!Claimed
  <2>6. QED  BY <2>4, <2>5
<1>8. QED  BY <1>3, <1>5, <1>6, <1>7

LEMMA SyncBeside ==
  ASSUME CalendarKnown, NEW r \in Rows, NEW o \in Objects, Takes(r, o),
         NEW s \in Syncs, sync'[s] = sync[s],
         sync[s].at = "push" /\ r \in sync[s].todo => o = r
  PROVE  Cal!BornSync(s)' /\ Cal!Waits(s)' /\ (SightKept(s) => Cal!Sees(s)')
PROOF
<1>1. Cal!Waits(s)  BY CalendarHolds
<1>2. Cal!BornSync(s)' /\ (SightKept(s) => Cal!Sees(s)')  BY SyncKept DEF Takes
<1>3. Cal!Waits(s)'
  <2>1. CASE sync[s].at = "push"
    <3>1. /\ Service = "caldav" /\ sync[s].todo \subseteq Rows
          /\ \A q \in sync[s].todo : rows[q].at = "absent" \/ rows[q].ext \in {None, q}
      BY <1>1, <2>1 DEF Cal!Waits
    <3>2. \A q \in sync[s].todo : rows'[q].at = "absent" \/ rows'[q].ext \in {None, q}
      BY <2>1, <3>1 DEF Takes
    <3>3. QED  BY <3>1, <3>2 DEF Cal!Waits
  <2>2. CASE sync[s].at # "push"  BY <2>2 DEF Cal!Waits
  <2>3. QED  BY <2>1, <2>2
<1>4. QED  BY <1>2, <1>3

(***************************************************************************)
(* Initially                                                                *)
(***************************************************************************)
LEMMA CalendarInitKnown == Cal!CalendarAssumption /\ Cal!Init => CalendarKnown
PROOF
<1>1. SUFFICES ASSUME Cal!CalendarAssumption, Cal!Init PROVE Cal!CalendarInv
  BY DEF CalendarKnown
<1>2. /\ \A r \in Rows : rows[r] = Cal!NoRow /\ push[r] = Cal!NoPush
      /\ \A s \in Syncs : sync[s] = Cal!NoSync
      /\ \A o \in Objects :
           objects[o] = [there |-> FALSE, stamp |-> 0, form |-> "plain"] /\ made[o] = None
  BY <1>1 DEF Cal!Init
<1>3. Cal!TypeOK
  <2>1. [there |-> FALSE, stamp |-> 0, form |-> "plain"] \in ObjectState
    BY <1>1 DEF ObjectState, Cal!CalendarAssumption
  <2>2. QED  BY <1>1, <2>1, NoneTyped, Types DEF Cal!Init
<1>4. ASSUME NEW o \in Objects PROVE Cal!BornObject(o) /\ Cal!OneRow(o) /\ Cal!Kept(o)
  <2>1. Cal!RowsOf(o) = {}  BY <1>1, <1>2, NoneTyped DEF Cal!RowsOf
  <2>2. Cal!ShownBy(o) = {}
    BY <1>1, <1>2, <2>1 DEF Cal!ShownBy, Cal!CalendarAssumption
  <2>3. QED  BY <1>2, <2>2 DEF Cal!BornObject, Cal!OneRow, Cal!Kept
<1>5. ASSUME NEW r \in Rows
      PROVE  Cal!BornRow(r) /\ Cal!BornPush(r) /\ Cal!Claimed(r) /\ Cal!LinkFits(r) /\ Cal!Reached(r)
  BY <1>1, <1>2, NoneTyped DEF Cal!BornRow, Cal!BornPush, Cal!Claimed, Cal!LinkFits, Cal!Reached
<1>6. ASSUME NEW s \in Syncs
      PROVE  Cal!BornSync(s) /\ Cal!Waits(s) /\ Cal!Sees(s)
  BY <1>1, <1>2, NoneTyped DEF Cal!BornSync, Cal!Waits, Cal!Sees
<1>7. QED  BY <1>3, <1>4, <1>5, <1>6 DEF Cal!CalendarInv

(***************************************************************************)
(* Steps that give no row an event                                          *)
(***************************************************************************)
SyncOwes(s) == Cal!BornSync(s) /\ Cal!Waits(s) /\ Cal!Sees(s)

LEMMA ShrinkStep ==
  ASSUME CalendarKnown, Cal!TypeOK', RowsShrink, raced \subseteq raced', Grown,
         \A o \in Objects : Cal!BornObject(o)',
         \A o \in Objects : MadeStays(o) \/ made'[o] = None \/ (Cal!OneRow(o)' /\ Cal!Kept(o)'),
         \A s \in Syncs : (sync'[s] = sync[s] /\ SightKept(s)) \/ SyncOwes(s)',
         \A r \in Rows : PushStays(r) \/ (Cal!BornPush(r)' /\ Cal!Claimed(r)'),
         \A r \in Rows : (SameRow(r) /\ push'[r] = push[r]) \/ Cal!LinkFits(r)',
         \A r \in Rows : \/ /\ SameRow(r) /\ push'[r] = push[r]
                            /\ objects'[r].stamp = objects[r].stamp
                         \/ Cal!Reached(r)'
  PROVE  Cal!CalendarInv'
PROOF
<1>1. ASSUME NEW o \in Objects PROVE Cal!BornObject(o)' /\ Cal!OneRow(o)' /\ Cal!Kept(o)'
  BY MadeStandsBy
<1>2. ASSUME NEW s \in Syncs PROVE Cal!BornSync(s)' /\ Cal!Waits(s)' /\ Cal!Sees(s)'
  BY SyncStandsBy DEF SyncOwes
<1>3. ASSUME NEW r \in Rows
      PROVE  Cal!BornRow(r)' /\ Cal!BornPush(r)' /\ Cal!Claimed(r)' /\ Cal!LinkFits(r)' /\ Cal!Reached(r)'
  <2>1. Cal!BornRow(r)'  BY RowsStandBy
  <2>2. Cal!BornPush(r)' /\ Cal!Claimed(r)'  BY PushStandsBy
  <2>3. Cal!LinkFits(r)' /\ Cal!Reached(r)'  BY PushesStandBy
  <2>4. QED  BY <2>1, <2>2, <2>3
<1>4. QED  BY <1>1, <1>2, <1>3 DEF Cal!CalendarInv

LEMMA RowsAlone ==
  ASSUME UNCHANGED rows PROVE RowsShrink /\ \A r \in Rows : SameRow(r)
PROOF BY DEF RowsShrink, SameRow

\* Nothing is made for a row, and no event in hand is let go.
LEMMA MadeAlone ==
  ASSUME CalendarKnown, UNCHANGED made,
         \A r \in Rows : rows[r].at # "absent" =>
           SameRow(r) /\ (push'[r] = push[r] \/ push[r].at # "link")
  PROVE  /\ \A o \in Objects : MadeStays(o)
         /\ \A r \in Rows : SameRow(r) /\ push'[r] = push[r] => PushStays(r)
PROOF
<1>1. ASSUME NEW o \in Objects PROVE MadeStays(o)
  <2>1. Cal!Kept(o) /\ made[o] \in Rows \cup {None}  BY CalendarHolds, Fields
  <2>2. made[o] # None => made[o] \in Rows /\ rows[made[o]].at # "absent"
    BY <2>1 DEF Cal!Kept
  <2>3. QED  BY <2>2 DEF MadeStays
<1>2. QED  BY <1>1 DEF PushStays

LEMMA ObjectsAlone ==
  ASSUME CalendarKnown, UNCHANGED objects PROVE Grown /\ \A o \in Objects : Cal!BornObject(o)'
PROOF BY CalendarHolds DEF Grown, Cal!BornObject

LEMMA SightAlone ==
  ASSUME UNCHANGED <<objects, shown>>, NEW s \in Syncs, late'[s] = late[s]
  PROVE  SightKept(s)
PROOF BY DEF SightKept, Cal!Noted, Cal!Legible, Cal!Visible

\* A step of one run that touches nothing else.
LEMMA SyncMoves ==
  ASSUME CalendarKnown, NEW s \in Syncs, NEW x \in SyncState, sync' = [sync EXCEPT ![s] = x],
         UNCHANGED <<rows, objects, shown, push, made, raced>>,
         late' \in [Syncs -> SUBSET Objects], \A t \in Syncs \ {s} : late'[t] = late[t],
         SyncOwes(s)'
  PROVE  Cal!CalendarInv'
PROOF
<1>1. Cal!TypeOK'  BY Parts, TypesNext
<1>2. \A t \in Syncs \ {s} : sync'[t] = sync[t]  BY Parts
<1>3. \A t \in Syncs : (sync'[t] = sync[t] /\ SightKept(t)) \/ SyncOwes(t)'
  BY <1>2, SightAlone
<1>4. \A r \in Rows : SameRow(r) /\ push'[r] = push[r]  BY RowsAlone
<1>5. (\A o \in Objects : MadeStays(o)) /\ \A r \in Rows : PushStays(r)  BY <1>4, MadeAlone
<1>6. QED  BY <1>1, <1>3, <1>4, <1>5, RowsAlone, ObjectsAlone, ShrinkStep

LEMMA FetchStep == ASSUME CalendarKnown, NEW s \in Syncs, Cal!Fetch(s) PROVE Cal!CalendarInv'
PROOF
<1>1. PICK got, off : /\ got = [o \in Objects |-> IF o \in Cal!Noted THEN objects[o].stamp ELSE 0]
                      /\ off = {o \in Cal!Legible : objects[o].form = "cancelled"}
  OBVIOUS
<1>2. PICK x1, x2, x3, x :
        /\ x1 = [Cal!NoSync EXCEPT !.at = "items"] /\ x2 = [x1 EXCEPT !.todo = Cal!Legible]
        /\ x3 = [x2 EXCEPT !.got = got] /\ x = [x3 EXCEPT !.off = off]
  OBVIOUS
<1>3. /\ Cal!Legible \subseteq Objects /\ Cal!Noted \subseteq Objects
      /\ \A o \in Cal!Legible \cup Cal!Noted : objects[o].there
  BY Parts DEF Cal!Noted, Cal!Legible, Cal!Visible
<1>4. got \in [Objects -> 0..MaxStamp] /\ off \subseteq Objects
  <2>1. 0 \in 0..MaxStamp /\ \A o \in Objects : objects[o].stamp \in 0..MaxStamp
    BY Parts, Fields
  <2>2. QED  BY <1>1, <1>3, <2>1
<1>5. /\ x3 \in SyncState /\ x3.at = "items" /\ x3.todo = Cal!Legible /\ x3.got = got
  BY <1>2, <1>3, <1>4, NoneTyped DEF CalendarKnown, SyncState
<1>6. /\ x \in SyncState /\ x.at = "items" /\ x.todo = Cal!Legible /\ x.got = got
  BY <1>2, <1>4, <1>5 DEF SyncState
<1>7. /\ sync' = [sync EXCEPT ![s] = x] /\ late' = [late EXCEPT ![s] = {}]
      /\ UNCHANGED <<rows, objects, shown, push, made, raced>>
  BY <1>1, <1>2 DEF Cal!Fetch
<1>8. sync'[s] = x  BY <1>7, Parts
<1>9. \A o \in Cal!Legible \cup Cal!Noted : objects[o].stamp > 0
  BY <1>3, CalendarHolds DEF Cal!BornObject
<1>10. SyncOwes(s)'
  <2>1. Cal!BornSync(s)'  BY <1>3, <1>6, <1>7, <1>8, <1>9 DEF Cal!BornSync
  <2>2. Cal!Waits(s)'  BY <1>6, <1>8 DEF Cal!Waits
  <2>3. Cal!Sees(s)'
    <3>1. \A o \in Objects : got[o] = 0 => o \notin Cal!Noted  BY <1>1, <1>9
    <3>2. Cal!Noted' = Cal!Noted  BY <1>7 DEF Cal!Noted, Cal!Legible, Cal!Visible
    <3>3. QED  BY <1>6, <1>8, <3>1, <3>2 DEF Cal!Sees
  <2>4. QED  BY <2>1, <2>2, <2>3 DEF SyncOwes
<1>11. late' \in [Syncs -> SUBSET Objects] /\ \A t \in Syncs \ {s} : late'[t] = late[t]
  BY <1>7, Parts
<1>12. QED  BY <1>6, <1>7, <1>10, <1>11, SyncMoves

LEMMA LookStep == ASSUME CalendarKnown, NEW s \in Syncs, Cal!Look(s) PROVE Cal!CalendarInv'
PROOF
<1>0. PICK o \in sync[s].todo :
        \E r \in Cal!Existing(o) :
          IF r # None /\ rows[r].seen >= sync[s].got[o]
          THEN sync' = [sync EXCEPT ![s] = [sync[s] EXCEPT !.todo = @ \ {o}]]
          ELSE sync' = [sync EXCEPT ![s] =
                 [@ EXCEPT !.at = "write", !.item = o, !.found = r]]
  BY DEF Cal!Look
<1>1. PICK r \in Cal!Existing(o) :
        IF r # None /\ rows[r].seen >= sync[s].got[o]
        THEN sync' = [sync EXCEPT ![s] = [sync[s] EXCEPT !.todo = @ \ {o}]]
        ELSE sync' = [sync EXCEPT ![s] =
               [@ EXCEPT !.at = "write", !.item = o, !.found = r]]
  BY <1>0
<1>2. sync[s].at = "items" /\ UNCHANGED <<rows, objects, shown, push, made, raced, late>>
  BY DEF Cal!Look
<1>3. /\ sync[s].todo \subseteq Objects /\ o \in Objects
      /\ \A e \in sync[s].todo : objects[e].stamp > 0
      /\ sync[s] \in SyncState
  BY <1>2, CalendarHolds, Parts DEF Cal!BornSync
<1>4. r \in Rows \cup {None}  BY DEF Cal!Existing, Cal!RowsOf
<1>5. late' \in [Syncs -> SUBSET Objects] /\ \A t \in Syncs \ {s} : late'[t] = late[t]
  BY <1>2, Parts
<1>6. Cal!Sees(s)  BY CalendarHolds
<1>7. CASE r # None /\ rows[r].seen >= sync[s].got[o]
  <2>1. PICK x : x = [sync[s] EXCEPT !.todo = sync[s].todo \ {o}]  OBVIOUS
  <2>2. /\ x \in SyncState /\ x.at = "items" /\ x.got = sync[s].got
        /\ x.todo = sync[s].todo \ {o}
    BY <1>2, <1>3, <2>1 DEF SyncState
  <2>3. sync' = [sync EXCEPT ![s] = x]  BY <1>1, <1>7, <2>1
  <2>4. sync'[s] = x  BY <2>3, Parts
  <2>5. Cal!BornSync(s)'  BY <1>2, <1>3, <2>2, <2>4 DEF Cal!BornSync
  <2>6. Cal!Waits(s)'  BY <2>2, <2>4 DEF Cal!Waits
  <2>7. Cal!Sees(s)'
    <3>1. Cal!Noted' = Cal!Noted /\ late' = late
      BY <1>2 DEF Cal!Noted, Cal!Legible, Cal!Visible
    <3>2. QED  BY <1>2, <1>6, <2>2, <2>4, <3>1 DEF Cal!Sees
  <2>8. QED  BY <1>2, <1>5, <2>2, <2>3, <2>5, <2>6, <2>7, SyncMoves DEF SyncOwes
<1>8. CASE ~(r # None /\ rows[r].seen >= sync[s].got[o])
  <2>1. PICK x1, x2, x : /\ x1 = [sync[s] EXCEPT !.at = "write"]
                         /\ x2 = [x1 EXCEPT !.item = o] /\ x = [x2 EXCEPT !.found = r]
    OBVIOUS
  <2>2. /\ x \in SyncState /\ x.at = "write" /\ x.got = sync[s].got
        /\ x.todo = sync[s].todo /\ x.item = o /\ x.found = r
    BY <1>3, <1>4, <2>1 DEF SyncState
  <2>3. sync' = [sync EXCEPT ![s] = x]  BY <1>1, <1>8, <2>1
  <2>4. sync'[s] = x  BY <2>3, Parts
  <2>5. Cal!BornSync(s)'  BY <1>2, <1>3, <2>2, <2>4 DEF Cal!BornSync
  <2>6. Cal!Waits(s)'  BY <2>2, <2>4 DEF Cal!Waits
  <2>8. Cal!Sees(s)'
    <3>1. Cal!Noted' = Cal!Noted /\ late' = late
      BY <1>2 DEF Cal!Noted, Cal!Legible, Cal!Visible
    <3>2. QED  BY <1>2, <1>6, <2>2, <2>4, <3>1 DEF Cal!Sees
  <2>9. QED  BY <1>2, <1>5, <2>2, <2>3, <2>5, <2>6, <2>8, SyncMoves DEF SyncOwes
<1>9. QED  BY <1>7, <1>8

LEMMA IdleOwes ==
  ASSUME CalendarKnown, NEW s \in Syncs, sync'[s] = Cal!NoSync PROVE SyncOwes(s)'
PROOF BY NoneTyped DEF CalendarKnown, SyncOwes, Cal!BornSync, Cal!Waits, Cal!Sees

LEMMA SyncFailsStep ==
  ASSUME CalendarKnown, NEW s \in Syncs, Cal!SyncFails(s)
  PROVE  Cal!CalendarInv'
PROOF
<1>1. /\ sync' = [sync EXCEPT ![s] = Cal!NoSync]
      /\ UNCHANGED <<rows, objects, shown, push, made, raced, late>>
  BY DEF Cal!SyncFails
<1>2. sync'[s] = Cal!NoSync /\ Cal!NoSync \in SyncState
  BY <1>1, Parts, NoneTyped DEF CalendarKnown
<1>3. late' \in [Syncs -> SUBSET Objects] /\ \A t \in Syncs \ {s} : late'[t] = late[t]
  BY <1>1, Parts
<1>4. QED  BY <1>1, <1>2, <1>3, IdleOwes, SyncMoves

LEMMA Appears ==
  ASSUME CalendarKnown, Cal!Appear, shown' \subseteq Objects
  PROVE  late' \in [Syncs -> SUBSET Objects] /\ \A s \in Syncs : SightKept(s)
PROOF
<1>1. Cal!Noted' \subseteq Objects  BY DEF Cal!Noted, Cal!Legible, Cal!Visible
<1>2. \A s \in Syncs : late[s] \subseteq Objects  BY Parts
<1>3. late' \in [Syncs -> SUBSET Objects]  BY <1>1, <1>2 DEF Cal!Appear
<1>4. ASSUME NEW s \in Syncs, sync[s].at \in {"items", "write"}
      PROVE  late'[s] = late[s] \cup (Cal!Noted' \ Cal!Noted)
  BY <1>4 DEF Cal!Appear
<1>5. \A s \in Syncs : SightKept(s)  BY <1>4 DEF SightKept
<1>6. QED  BY <1>3, <1>5

LEMMA CancelAbsentStep ==
  ASSUME CalendarKnown, NEW s \in Syncs, Cal!CancelAbsent(s) PROVE Cal!CalendarInv'
PROOF
<1>1. UNCHANGED <<objects, shown, push, made, raced, late>>  BY DEF Cal!CancelAbsent
<1>2. ASSUME NEW r \in Rows
      PROVE  rows'[r] \in RowState /\ SameRow(r)
  <2>1. rows'[r] = rows[r] \/ rows'[r] = [rows[r] EXCEPT !.at = "cancelled"]
    BY DEF Cal!CancelAbsent
  <2>2. rows[r] \in RowState  BY Parts
  <2>3. CASE rows'[r] = rows[r]  BY <2>2, <2>3 DEF SameRow
  <2>4. CASE rows'[r] # rows[r]
    <3>1. r \in Cal!Absent(s)  BY <2>4 DEF Cal!CancelAbsent
    <3>2. rows[r].at = "live"  BY <3>1 DEF Cal!Absent
    <3>3. rows'[r] \in RowState /\ rows'[r].at = "cancelled" /\ rows'[r].ext = rows[r].ext
      BY <2>1, <2>2, <2>4 DEF RowState
    <3>4. QED  BY <3>2, <3>3 DEF SameRow
  <2>5. QED  BY <2>3, <2>4
<1>3. rows' \in [Rows -> RowState]
  <2>1. rows' = [r \in Rows |-> rows'[r]]  BY DEF Cal!CancelAbsent
  <2>2. QED  BY <1>2, <2>1
<1>4. RowsShrink  BY <1>2 DEF RowsShrink, SameRow
<1>5. PICK x : x = IF Service = "caldav" /\ Cal!Unsynced # {}
                   THEN [Cal!NoSync EXCEPT !.at = "push", !.todo = Cal!Unsynced] ELSE Cal!NoSync
  OBVIOUS
<1>6. sync' = [sync EXCEPT ![s] = x]  BY <1>5 DEF Cal!CancelAbsent
<1>7. sync'[s] = x /\ \A t \in Syncs \ {s} : sync'[t] = sync[t]  BY <1>6, Parts
<1>8. x \in SyncState /\ SyncOwes(s)'
  <2>1. CASE Service = "caldav" /\ Cal!Unsynced # {}
    <3>1. Cal!Unsynced \subseteq Rows /\ \A r \in Cal!Unsynced : rows[r].ext = None
      BY DEF Cal!Unsynced
    <3>2. PICK x1 : x1 = [Cal!NoSync EXCEPT !.at = "push"]  OBVIOUS
    <3>3. x = [x1 EXCEPT !.todo = Cal!Unsynced]  BY <1>5, <2>1, <3>2
    <3>4. x \in SyncState /\ x.at = "push" /\ x.todo = Cal!Unsynced
      BY <3>1, <3>2, <3>3, NoneTyped DEF CalendarKnown, SyncState
    <3>5. \A r \in Cal!Unsynced : rows'[r].ext = None  BY <1>2, <3>1 DEF SameRow
    <3>6. Cal!Waits(s)'  BY <1>7, <2>1, <3>1, <3>4, <3>5 DEF Cal!Waits
    <3>7. Cal!BornSync(s)' /\ Cal!Sees(s)'
      BY <1>7, <3>4 DEF Cal!BornSync, Cal!Sees
    <3>8. QED  BY <3>4, <3>6, <3>7 DEF SyncOwes
  <2>2. CASE ~(Service = "caldav" /\ Cal!Unsynced # {})
    <3>1. x = Cal!NoSync  BY <1>5, <2>2
    <3>2. QED  BY <1>7, <3>1, IdleOwes, NoneTyped DEF CalendarKnown
  <2>3. QED  BY <2>1, <2>2
<1>9. Cal!TypeOK'  BY <1>1, <1>3, <1>6, <1>8, Parts, TypesNext
<1>10. \A t \in Syncs : (sync'[t] = sync[t] /\ SightKept(t)) \/ SyncOwes(t)'
  BY <1>1, <1>7, <1>8, SightAlone
<1>11. (\A o \in Objects : MadeStays(o)) /\ \A r \in Rows : PushStays(r)
  BY <1>1, <1>2, MadeAlone
<1>12. QED  BY <1>1, <1>2, <1>4, <1>9, <1>10, <1>11, ObjectsAlone, ShrinkStep

\* A run goes on to the next event of its answer.
LEMMA GoesOn ==
  ASSUME CalendarKnown, NEW s \in Syncs, sync[s].at = "write",
         NEW x, x = [sync[s] EXCEPT !.at = "items", !.todo = sync[s].todo \ {sync[s].item},
                                    !.item = None, !.found = None],
         sync' = [sync EXCEPT ![s] = x], UNCHANGED <<objects, shown, late>>
  PROVE  x \in SyncState /\ sync'[s] = x /\ SyncOwes(s)'
PROOF
<1>1. PICK x1, x2, x3, x4 :
        /\ x1 = [sync[s] EXCEPT !.at = "items"]
        /\ x2 = [x1 EXCEPT !.todo = sync[s].todo \ {sync[s].item}]
        /\ x3 = [x2 EXCEPT !.item = None] /\ x4 = [x3 EXCEPT !.found = None]
  OBVIOUS
<1>2. sync[s] \in SyncState /\ sync'[s] = x  BY Parts
<1>3. x = x4  BY <1>1
<1>4. /\ x \in SyncState /\ x.at = "items" /\ x.got = sync[s].got
      /\ x.todo = sync[s].todo \ {sync[s].item}
  <2>1. /\ x2 \in SyncState /\ x2.at = "items" /\ x2.got = sync[s].got
        /\ x2.todo = sync[s].todo \ {sync[s].item}
    BY <1>1, <1>2 DEF SyncState
  <2>2. QED  BY <1>1, <1>3, <2>1 DEF SyncState
<1>5. Cal!BornSync(s) /\ Cal!Sees(s)  BY CalendarHolds
<1>6. Cal!BornSync(s)'  BY <1>2, <1>4, <1>5 DEF Cal!BornSync
<1>7. Cal!Waits(s)'  BY <1>2, <1>4 DEF Cal!Waits
<1>8. Cal!Sees(s)'
  <2>1. Cal!Noted' = Cal!Noted /\ late' = late
    BY DEF Cal!Noted, Cal!Legible, Cal!Visible
  <2>2. QED  BY <1>2, <1>4, <1>5, <2>1 DEF Cal!Sees
<1>9. QED  BY <1>2, <1>4, <1>6, <1>7, <1>8 DEF SyncOwes

LEMMA StoreStep == ASSUME CalendarKnown, NEW s \in Syncs, Cal!Store(s) PROVE Cal!CalendarInv'
PROOF
<1>1. sync[s].at = "write" /\ UNCHANGED <<objects, shown, push, made, late>>  BY DEF Cal!Store
<1>2. PICK o, at : o = sync[s].item /\ at = Cal!Status(s)  OBVIOUS
<1>3. PICK x : x = [sync[s] EXCEPT !.at = "items", !.todo = sync[s].todo \ {sync[s].item},
                                   !.item = None, !.found = None]
  OBVIOUS
<1>4. Cal!BornSync(s) /\ at \in {"live", "cancelled"}  BY <1>2, CalendarHolds DEF Cal!Status
<1>5. o \in Objects /\ objects[o].stamp > 0  BY <1>1, <1>2, <1>4 DEF Cal!BornSync
<1>6. sync[s].got[o] \in 0..MaxStamp  BY <1>5, Fields
<1>7. \A t \in Syncs : late'[t] = late[t] /\ SightKept(t)  BY <1>1, SightAlone
<1>8. late' \in [Syncs -> SUBSET Objects]  BY <1>1, Parts
<1>9. CASE sync[s].found = None /\ Cal!RowsOf(o) = {}
  <2>1. PICK r \in Rows :
          /\ Cal!Free(r)
          /\ rows' = [rows EXCEPT ![r] =
               [at |-> at, ext |-> o, seen |-> sync[s].got[o]]]
          /\ raced' = IF Cal!InHand(o) # {} THEN raced \cup {o} ELSE raced
          /\ sync' = [sync EXCEPT ![s] = x]
    BY <1>2, <1>3, <1>9 DEF Cal!Store
  <2>2. /\ rows[r].at = "absent" /\ push[r].at = "idle"
        /\ \A t \in Syncs : ~(sync[t].at = "push" /\ r \in sync[t].todo)
    BY <2>1 DEF Cal!Free
  <2>3. PICK y : y = [at |-> at, ext |-> o, seen |-> sync[s].got[o]]  OBVIOUS
  <2>4. y \in RowState /\ y.at # "absent" /\ y.ext = o
    BY <1>4, <1>5, <1>6, <2>3 DEF RowState
  <2>5. rows' = [rows EXCEPT ![r] = y]  BY <2>1, <2>3
  <2>6. rows'[r] = y /\ \A q \in Rows \ {r} : rows'[q] = rows[q]  BY <2>5, Parts
  <2>7. raced \subseteq raced' /\ raced' \subseteq Objects  BY <1>5, <2>1, Parts
  <2>8. o \in raced' \/ made[o] = None
    <3>1. Cal!Kept(o) /\ made[o] \in Rows \cup {None}  BY <1>5, CalendarHolds, Fields
    <3>2. ASSUME o \notin raced', made[o] # None PROVE FALSE
      <4>1. o \notin raced /\ Cal!InHand(o) = {}  BY <2>1, <3>2
      <4>2. made[o] \in Cal!RowsOf(o)  BY <3>1, <3>2, <4>1 DEF Cal!Kept, Cal!RowsOf
      <4>3. QED  BY <1>9, <4>2
    <3>3. QED  BY <3>2
  <2>9. Takes(r, o)
    BY <1>1, <1>5, <1>9, <2>2, <2>4, <2>6, <2>7, <2>8, ObjectsAlone DEF Takes
  <2>10. x \in SyncState /\ sync'[s] = x /\ SyncOwes(s)'  BY <1>1, <1>3, <2>1, GoesOn
  <2>11. ASSUME NEW t \in Syncs PROVE SyncOwes(t)'
    <3>1. CASE t = s  BY <2>10, <3>1
    <3>2. CASE t # s
      <4>1. sync'[t] = sync[t]  BY <2>1, <3>2, Parts
      <4>2. QED  BY <1>5, <1>7, <2>2, <2>9, <4>1, SyncBeside DEF SyncOwes
    <3>3. QED  BY <3>1, <3>2
  <2>12. ASSUME NEW q \in Rows
         PROVE  Cal!BornRow(q)' /\ Cal!BornPush(q)' /\ Cal!Claimed(q)' /\ Cal!LinkFits(q)' /\ Cal!Reached(q)'
    <3>1. push'[q] = push[q] /\ Cal!BornRow(q)'  BY <1>1, <1>5, <2>9, Taken
    <3>2. CASE q = r
      <4>1. rows'[r].ext # None  BY <1>5, <2>4, <2>6, Parts
      <4>2. push'[r].at = "idle"  BY <2>2, <3>1, <3>2
      <4>3. QED  BY <3>1, <3>2, <4>1, <4>2
                 DEF Cal!BornPush, Cal!Claimed, Cal!LinkFits, Cal!Reached
    <3>3. CASE q # r
      <4>1. Cal!BornPush(q)' /\ Cal!Claimed(q)'  BY <1>5, <2>9, <3>3, Taken
      <4>2. SameRow(q)  BY <2>6, <3>3 DEF SameRow
      <4>3. Cal!LinkFits(q)' /\ Cal!Reached(q)'  BY <1>1, <2>7, <3>1, <4>2, PushesStandBy
      <4>4. QED  BY <3>1, <4>1, <4>3
    <3>4. QED  BY <3>2, <3>3
  <2>13. Cal!TypeOK'
    <3>1. rows' \in [Rows -> RowState]  BY <2>4, <2>5, Parts
    <3>2. sync' \in [Syncs -> SyncState]  BY <2>1, <2>10, Parts
    <3>3. QED  BY <1>1, <1>8, <2>7, <3>1, <3>2, Parts, TypesNext
  <2>14. \A e \in Objects : Cal!BornObject(e)' /\ Cal!OneRow(e)' /\ Cal!Kept(e)'
    BY <1>1, <1>5, <2>9, ObjectsAlone, Taken
  <2>15. QED  BY <2>11, <2>12, <2>13, <2>14 DEF Cal!CalendarInv, SyncOwes
<1>10. CASE \/ sync[s].found = None /\ Cal!RowsOf(o) # {}
            \/ sync[s].found # None /\ rows[sync[s].found].at = "absent"
  <2>1. rows' = rows /\ raced' = raced /\ sync' = [sync EXCEPT ![s] = Cal!NoSync]
    BY <1>2, <1>10 DEF Cal!Store
  <2>2. sync'[s] = Cal!NoSync /\ Cal!NoSync \in SyncState
    BY <2>1, Parts, NoneTyped DEF CalendarKnown
  <2>3. SyncOwes(s)'  BY <2>2, IdleOwes
  <2>4. QED  BY <1>1, <1>7, <1>8, <2>1, <2>2, <2>3, SyncMoves
<1>11. CASE sync[s].found # None /\ rows[sync[s].found].at # "absent"
  <2>1. PICK r \in Rows : r = sync[s].found  BY <1>11, Fields
  <2>2. /\ rows' = [rows EXCEPT ![r] = [@ EXCEPT !.at = at, !.seen = sync[s].got[o]]]
        /\ raced' = raced /\ sync' = [sync EXCEPT ![s] = x]
    BY <1>2, <1>3, <1>11, <2>1 DEF Cal!Store
  <2>3. PICK y1, y : /\ y1 = [rows[r] EXCEPT !.at = at]
                     /\ y = [y1 EXCEPT !.seen = sync[s].got[o]]
    OBVIOUS
  <2>4. rows[r] \in RowState /\ rows[r].at # "absent"  BY <1>11, <2>1, Parts
  <2>5. y \in RowState /\ y.at # "absent" /\ y.ext = rows[r].ext
    BY <1>4, <1>6, <2>3, <2>4 DEF RowState
  <2>6. rows' = [rows EXCEPT ![r] = y]  BY <2>2, <2>3
  <2>7. rows' \in [Rows -> RowState] /\ \A q \in Rows : SameRow(q)
    BY <2>4, <2>5, <2>6, Parts DEF SameRow
  <2>8. RowsShrink  BY <2>7 DEF RowsShrink, SameRow
  <2>9. x \in SyncState /\ sync'[s] = x /\ SyncOwes(s)'  BY <1>1, <1>3, <2>2, GoesOn
  <2>10. \A t \in Syncs : (sync'[t] = sync[t] /\ SightKept(t)) \/ SyncOwes(t)'
    BY <1>7, <2>2, <2>9, Parts
  <2>11. Cal!TypeOK'
    <3>1. sync' \in [Syncs -> SyncState]  BY <2>2, <2>9, Parts
    <3>2. QED  BY <1>1, <1>8, <2>2, <2>7, <3>1, Parts, TypesNext
  <2>12. (\A e \in Objects : MadeStays(e)) /\ \A q \in Rows : PushStays(q)
    BY <1>1, <2>7, MadeAlone
  <2>13. QED  BY <1>1, <2>2, <2>7, <2>8, <2>10, <2>11, <2>12, ObjectsAlone, ShrinkStep
<1>12. QED  BY <1>9, <1>10, <1>11

\* Nobody names an event that was never written.
LEMMA Unborn ==
  ASSUME CalendarKnown, NEW o \in Objects, ~(objects[o].stamp > 0)
  PROVE  /\ Cal!RowsOf(o) = {} /\ made[o] = None
         /\ \A q \in Rows : push[q].at = "link" => push[q].ext # o
PROOF
<1>1. Cal!RowsOf(o) = {}
  <2>1. ASSUME NEW q \in Rows, rows[q].at # "absent", rows[q].ext = o PROVE FALSE
    <3>1. o # None  BY Parts
    <3>2. QED  BY <2>1, <3>1, CalendarHolds DEF Cal!BornRow
  <2>2. QED  BY <2>1 DEF Cal!RowsOf
<1>2. made[o] = None  BY CalendarHolds DEF Cal!Kept
<1>3. \A q \in Rows : push[q].at = "link" => push[q].ext # o
  BY CalendarHolds DEF Cal!BornPush
<1>4. QED  BY <1>1, <1>2, <1>3

\* A push of a row with no event yet writes one that nobody holds.
LEMMA TargetUnborn ==
  ASSUME CalendarKnown, NEW r \in Rows, push[r].at = "call", rows[r].at # "absent",
         rows[r].ext = None, NEW o \in Objects, o \in Cal!Target(r), o \notin raced
  PROVE  ~(objects[o].stamp > 0)
PROOF
<1>1. CASE Service = "caldav"
  <2>1. o = r /\ Cal!Reached(r)  BY <1>1, CalendarHolds DEF Cal!Target
  <2>2. QED  BY <1>1, <2>1 DEF Cal!Reached
<1>2. CASE Service # "caldav"  BY <1>2 DEF Cal!Target
<1>3. QED  BY <1>1, <1>2

\* When event r is noted for row r, a push that has event r in hand for another row
\* works on a row that has noted it already.
LEMMA OthersClaim ==
  ASSUME CalendarKnown, Service = "caldav", NEW r \in Rows, NEW q \in Rows \ {r},
         SameRow(q), push'[q] = push[q], raced \subseteq raced', Grown,
         \A e \in Objects \ {r} : made'[e] = made[e]
  PROVE  Cal!BornPush(q)' /\ Cal!Claimed(q)'
PROOF
<1>1. Cal!BornPush(q) /\ Cal!Claimed(q) /\ Cal!LinkFits(q)  BY CalendarHolds
<1>2. Cal!BornPush(q)'  BY <1>1 DEF Cal!BornPush, Grown
<1>3. CASE push[q].at = "link"
  <2>1. PICK e \in Objects : e = push[q].ext  BY <1>1, <1>3 DEF Cal!BornPush
  <2>2. e \in raced \/ rows[q].ext = e \/ made[e] = q  BY <1>1, <1>3, <2>1 DEF Cal!Claimed
  <2>3. rows[q].ext \in {None, e} /\ (rows[q].ext = None => e = q)
    BY <1>1, <1>3, <2>1 DEF Cal!LinkFits
  <2>4. e \in raced' \/ rows'[q].ext = e \/ made'[e] = q
    BY <2>2, <2>3 DEF SameRow
  <2>5. QED  BY <1>2, <2>1, <2>4 DEF Cal!Claimed
<1>4. CASE push[q].at # "link"  BY <1>2, <1>4 DEF Cal!Claimed
<1>5. QED  BY <1>3, <1>4

LEMMA PushUnsyncedStep ==
  ASSUME CalendarKnown, NEW s \in Syncs, Cal!PushUnsynced(s) PROVE Cal!CalendarInv'
PROOF
<1>1. PICK r \in sync[s].todo :
        LET todo == sync[s].todo \ {r}
            gone == rows[r].at = "absent"
            new == IF objects[r].there THEN objects[r]
                   ELSE [there |-> TRUE, stamp |-> objects[r].stamp + 1, form |-> "plain"]
        IN /\ sync[s].at = "push" /\ new.stamp <= MaxStamp
           /\ objects' = [objects EXCEPT ![r] = new]
           /\ made' = IF gone THEN made ELSE [made EXCEPT ![r] = r]
           /\ \/ /\ ~gone /\ Cal!RowsOf(r) \subseteq {r}
                 /\ rows' = [rows EXCEPT ![r] = [@ EXCEPT !.ext = r, !.seen = new.stamp]]
                 /\ sync' = [sync EXCEPT ![s] = IF todo = {} THEN Cal!NoSync
                                                ELSE [sync[s] EXCEPT !.todo = todo]]
                 /\ UNCHANGED raced
              \/ /\ sync' = [sync EXCEPT ![s] = Cal!NoSync]
                 /\ raced' = IF gone THEN raced ELSE raced \cup {r}
                 /\ UNCHANGED rows
           /\ UNCHANGED <<shown, push>>
           /\ Cal!Appear
  BY DEF Cal!PushUnsynced
<1>2. PICK z : z = IF objects[r].there THEN objects[r]
                   ELSE [there |-> TRUE, stamp |-> objects[r].stamp + 1, form |-> "plain"]
  OBVIOUS
<1>3. PICK todo : todo = sync[s].todo \ {r}  OBVIOUS
<1>4. /\ sync[s].at = "push" /\ z.stamp <= MaxStamp
      /\ objects' = [objects EXCEPT ![r] = z]
      /\ made' = IF rows[r].at = "absent" THEN made ELSE [made EXCEPT ![r] = r]
      /\ UNCHANGED <<shown, push>> /\ Cal!Appear
  BY <1>1, <1>2
<1>5. /\ Service = "caldav" /\ sync[s].todo \subseteq Rows /\ r \in Rows /\ r \in Objects
      /\ rows[r].at = "absent" \/ rows[r].ext \in {None, r}
  BY <1>4, CalendarHolds, Parts DEF Cal!Waits
<1>6. z \in ObjectState /\ z.there /\ z.stamp > 0 /\ z.stamp \in 0..MaxStamp
  <2>1. /\ objects[r] \in ObjectState /\ Cal!BornObject(r)
        /\ MaxStamp \in Nat /\ "plain" \in Forms
    BY <1>5, CalendarHolds, Parts
  <2>2. CASE objects[r].there
    BY <1>2, <2>1, <2>2 DEF ObjectState, Cal!BornObject
  <2>3. CASE ~objects[r].there
    <3>1. z = [there |-> TRUE, stamp |-> objects[r].stamp + 1, form |-> "plain"]
      BY <1>2, <2>3
    <3>2. objects[r].stamp \in 0..MaxStamp  BY <2>1 DEF ObjectState
    <3>3. z.there /\ z.stamp = objects[r].stamp + 1  BY <3>1
    <3>4. z.stamp \in 0..MaxStamp /\ z.stamp > 0  BY <1>4, <2>1, <3>2, <3>3
    <3>5. z \in ObjectState  BY <2>1, <3>1, <3>3, <3>4 DEF ObjectState
    <3>6. QED  BY <3>3, <3>4, <3>5
  <2>4. QED  BY <2>2, <2>3
<1>7. objects'[r] = z /\ \A e \in Objects \ {r} : objects'[e] = objects[e]
  BY <1>4, <1>5, Parts
<1>8. Grown /\ \A e \in Objects : Cal!BornObject(e)'
  <2>1. \A e \in Objects : Cal!BornObject(e)  BY CalendarHolds
  <2>2. QED  BY <1>6, <1>7, <2>1 DEF Grown, Cal!BornObject
<1>9. late' \in [Syncs -> SUBSET Objects] /\ \A t \in Syncs : SightKept(t)
  BY <1>4, Appears, Parts
<1>10. /\ objects' \in [Objects -> ObjectState] /\ shown' \subseteq Objects
       /\ push' \in [Rows -> PushState] /\ made' \in [Objects -> Rows \cup {None}]
  <2>1. objects \in [Objects -> ObjectState] /\ made \in [Objects -> Rows \cup {None}]
    BY Parts
  <2>2. objects' \in [Objects -> ObjectState]  BY <1>4, <1>6, <2>1
  <2>3. made' \in [Objects -> Rows \cup {None}]  BY <1>4, <1>5, <2>1
  <2>4. shown' \subseteq Objects /\ push' \in [Rows -> PushState]  BY <1>4, Parts
  <2>5. QED  BY <2>2, <2>3, <2>4
<1>11. /\ \A e \in Objects \ {r} : made'[e] = made[e]
       /\ made'[r] = IF rows[r].at = "absent" THEN made[r] ELSE r
  BY <1>4, <1>5, Parts
<1>12. CASE /\ rows[r].at # "absent" /\ Cal!RowsOf(r) \subseteq {r}
            /\ rows' = [rows EXCEPT ![r] = [@ EXCEPT !.ext = r, !.seen = z.stamp]]
            /\ sync' = [sync EXCEPT ![s] = IF todo = {} THEN Cal!NoSync
                                           ELSE [sync[s] EXCEPT !.todo = todo]]
            /\ UNCHANGED raced
  <2>1. PICK y1, y : y1 = [rows[r] EXCEPT !.ext = r] /\ y = [y1 EXCEPT !.seen = z.stamp]
    OBVIOUS
  <2>2. rows[r] \in RowState /\ sync[s] \in SyncState  BY <1>5, Parts
  <2>3. y \in RowState /\ y.at = rows[r].at /\ y.ext = r
    BY <1>5, <1>6, <2>1, <2>2 DEF RowState
  <2>4. rows' = [rows EXCEPT ![r] = y]  BY <1>12, <2>1
  <2>5. rows'[r] = y /\ \A q \in Rows \ {r} : rows'[q] = rows[q]  BY <1>5, <2>4, Parts
  <2>6. \A q \in Rows : push'[q] = push[q]  BY <1>4
  <2>7. made'[r] = r  BY <1>11, <1>12
  <2>8. Takes(r, r)
    BY <1>5, <1>6, <1>7, <1>8, <1>11, <1>12, <2>3, <2>5, <2>6, <2>7 DEF Takes
  <2>9. PICK x : x = IF todo = {} THEN Cal!NoSync ELSE [sync[s] EXCEPT !.todo = todo]
    OBVIOUS
  <2>10. sync' = [sync EXCEPT ![s] = x]  BY <1>12, <2>9
  <2>11. sync'[s] = x  BY <2>10, Parts
  <2>12. x \in SyncState /\ SyncOwes(s)'
    <3>1. CASE todo = {}
      <4>1. x = Cal!NoSync  BY <2>9, <3>1
      <4>2. QED  BY <2>11, <4>1, IdleOwes, NoneTyped DEF CalendarKnown
    <3>2. CASE todo # {}
      <4>1. x = [sync[s] EXCEPT !.todo = todo]  BY <2>9, <3>2
      <4>2. todo \subseteq Rows /\ r \notin todo  BY <1>3, <1>5
      <4>3. x \in SyncState /\ x.at = "push" /\ x.todo = todo
        BY <1>4, <2>2, <4>1, <4>2 DEF SyncState
      <4>4. \A q \in todo : rows'[q].at = "absent" \/ rows'[q].ext \in {None, q}
        <5>1. \A q \in sync[s].todo : rows[q].at = "absent" \/ rows[q].ext \in {None, q}
          BY <1>4, CalendarHolds DEF Cal!Waits
        <5>2. QED  BY <1>3, <2>5, <4>2, <5>1
      <4>5. Cal!Waits(s)'  BY <1>5, <2>11, <4>2, <4>3, <4>4 DEF Cal!Waits
      <4>6. Cal!BornSync(s)' /\ Cal!Sees(s)'
        BY <2>11, <4>3 DEF Cal!BornSync, Cal!Sees
      <4>7. QED  BY <4>3, <4>5, <4>6 DEF SyncOwes
    <3>3. QED  BY <3>1, <3>2
  <2>13. ASSUME NEW t \in Syncs PROVE SyncOwes(t)'
    <3>1. CASE t = s  BY <2>12, <3>1
    <3>2. CASE t # s
      <4>1. sync'[t] = sync[t]  BY <1>5, <2>10, <3>2, Parts
      <4>2. QED  BY <1>5, <1>9, <2>8, <4>1, SyncBeside DEF SyncOwes
    <3>3. QED  BY <3>1, <3>2
  <2>14. ASSUME NEW q \in Rows
         PROVE  Cal!BornRow(q)' /\ Cal!BornPush(q)' /\ Cal!Claimed(q)' /\ Cal!LinkFits(q)' /\ Cal!Reached(q)'
    <3>1. push'[q] = push[q] /\ Cal!BornRow(q)'  BY <1>5, <2>6, <2>8, Taken
    <3>2. CASE q # r
      <4>1. Cal!BornPush(q)' /\ Cal!Claimed(q)'  BY <1>5, <2>8, <3>2, Taken
      <4>2. SameRow(q)  BY <2>5, <3>2 DEF SameRow
      <4>3. objects'[q].stamp = objects[q].stamp  BY <1>5, <1>7, <3>2, Parts
      <4>4. raced \subseteq raced'  BY <1>12
      <4>5. QED  BY <3>1, <4>1, <4>2, <4>3, <4>4, PushesStandBy
    <3>3. CASE q = r
      <4>1. Cal!LinkFits(r)  BY <1>5, CalendarHolds
      <4>2. push[r].at = "link" => push[r].ext = r
        BY <1>5, <1>12, <4>1, Parts DEF Cal!LinkFits
      <4>3. Cal!BornPush(r)'  BY <1>5, <1>6, <1>7, <3>1, <3>3, <4>2 DEF Cal!BornPush
      <4>4. Cal!Claimed(r)'
        <5>1. push'[r].at = "link" => push'[r].ext = r  BY <3>1, <3>3, <4>2
        <5>2. QED  BY <2>7, <5>1 DEF Cal!Claimed
      <4>5. Cal!LinkFits(r)'  BY <1>12, <2>3, <2>5, <3>1, <3>3, <4>2 DEF Cal!LinkFits
      <4>6. Cal!Reached(r)'  BY <1>5, <2>3, <2>5, Parts DEF Cal!Reached
      <4>7. QED  BY <3>1, <3>3, <4>3, <4>4, <4>5, <4>6
    <3>4. QED  BY <3>2, <3>3
  <2>15. Cal!TypeOK'
    <3>1. rows' \in [Rows -> RowState]  BY <2>3, <2>4, Parts
    <3>2. sync' \in [Syncs -> SyncState]  BY <2>10, <2>12, Parts
    <3>3. raced' \subseteq Objects  BY <1>12, Parts
    <3>4. QED  BY <1>9, <1>10, <3>1, <3>2, <3>3, TypesNext
  <2>16. \A e \in Objects : Cal!OneRow(e)' /\ Cal!Kept(e)'  BY <1>5, <2>8, Taken
  <2>17. QED  BY <1>8, <2>13, <2>14, <2>15, <2>16 DEF Cal!CalendarInv, SyncOwes
<1>13. CASE /\ sync' = [sync EXCEPT ![s] = Cal!NoSync]
            /\ raced' = IF rows[r].at = "absent" THEN raced ELSE raced \cup {r}
            /\ UNCHANGED rows
  <2>1. raced \subseteq raced' /\ raced' \subseteq Objects  BY <1>5, <1>13, Parts
  <2>2. sync'[s] = Cal!NoSync /\ Cal!NoSync \in SyncState
    BY <1>13, Parts, NoneTyped DEF CalendarKnown
  <2>3. \A t \in Syncs : (sync'[t] = sync[t] /\ SightKept(t)) \/ SyncOwes(t)'
    BY <1>9, <1>13, <2>2, IdleOwes, Parts
  <2>4. Cal!TypeOK'
    <3>1. rows' \in [Rows -> RowState]  BY <1>13, Parts
    <3>2. sync' \in [Syncs -> SyncState]  BY <1>13, <2>2, Parts
    <3>3. QED  BY <1>9, <1>10, <2>1, <3>1, <3>2, TypesNext
  <2>5. Cal!Reached(r)'  BY <1>13 DEF Cal!Reached
  <2>6. \A q \in Rows \ {r} : objects'[q].stamp = objects[q].stamp
    BY <1>5, <1>7, Parts
  <2>7. \A q \in Rows : push'[q] = push[q]  BY <1>4
  <2>8. RowsShrink /\ \A q \in Rows : SameRow(q)  BY <1>13, RowsAlone
  <2>9. ASSUME NEW e \in Objects, made'[e] = made[e] PROVE MadeStays(e)
    <3>1. made[e] \in Rows \cup {None}  BY Fields
    <3>2. QED  BY <2>7, <2>8, <2>9, <3>1 DEF MadeStays
  <2>10. CASE rows[r].at = "absent"
    <3>1. \A e \in Objects : made'[e] = made[e]  BY <1>11, <2>10
    <3>2. \A q \in Rows : PushStays(q)  BY <2>7, <2>8, <3>1 DEF PushStays
    <3>3. \A e \in Objects : MadeStays(e)  BY <2>9, <3>1
    <3>4. QED  BY <1>8, <2>1, <2>3, <2>4, <2>5, <2>6, <2>7, <2>8, <3>2, <3>3, ShrinkStep
  <2>11. CASE rows[r].at # "absent"
    <3>1. r \in raced' /\ made'[r] = r  BY <1>11, <1>13, <2>11
    <3>2. Cal!OneRow(r)'  BY <3>1 DEF Cal!OneRow
    <3>3. rows'[r].at # "absent" /\ objects'[r].stamp > 0  BY <1>6, <1>7, <1>13, <2>11
    <3>4. Cal!Kept(r)'  BY <3>1, <3>3 DEF Cal!Kept
    <3>5. \A e \in Objects : MadeStays(e) \/ (Cal!OneRow(e)' /\ Cal!Kept(e)')
      BY <1>11, <2>9, <3>2, <3>4
    <3>6. \A q \in Rows \ {r} : Cal!BornPush(q)' /\ Cal!Claimed(q)'
      BY <1>5, <1>8, <1>11, <2>1, <2>7, <2>8, OthersClaim
    <3>7. Cal!BornPush(r)' /\ Cal!Claimed(r)'
      <4>1. Cal!BornPush(r) /\ Cal!Claimed(r) /\ Cal!LinkFits(r)  BY <1>5, CalendarHolds
      <4>2. push'[r] = push[r]  BY <1>5, <2>7
      <4>3. push[r].at = "link" => push[r].ext = r
        BY <1>5, <2>11, <4>1, Parts DEF Cal!LinkFits
      <4>4. Cal!BornPush(r)'  BY <1>5, <1>6, <1>7, <4>2, <4>3 DEF Cal!BornPush
      <4>5. Cal!Claimed(r)'  BY <3>1, <4>2, <4>3 DEF Cal!Claimed
      <4>6. QED  BY <4>4, <4>5
    <3>8. \A q \in Rows : Cal!BornPush(q)' /\ Cal!Claimed(q)'  BY <3>6, <3>7
    <3>9. QED  BY <1>8, <2>1, <2>3, <2>4, <2>5, <2>6, <2>7, <2>8, <3>5, <3>8, ShrinkStep
  <2>12. QED  BY <2>10, <2>11
<1>14. QED  BY <1>1, <1>2, <1>3, <1>12, <1>13

(***************************************************************************)
(* Requests                                                                 *)
(***************************************************************************)
LEMMA PushedTyped ==
  ASSUME Cal!CalendarAssumption PROVE Cal!Pushed \in PushState /\ Cal!Pushed.at \in {"idle", "call"}
PROOF BY NoneTyped DEF Cal!Pushed, PushState

\* A step of a request that leaves the rows alone.
LEMMA PushMoves ==
  ASSUME CalendarKnown, NEW r \in Rows, NEW y \in PushState, push' = [push EXCEPT ![r] = y],
         UNCHANGED <<rows, shown, sync>>, Grown,
         objects' \in [Objects -> ObjectState], \A o \in Objects : Cal!BornObject(o)',
         made' \in [Objects -> Rows \cup {None}],
         \A o \in Objects : MadeStays(o) \/ (Cal!OneRow(o)' /\ Cal!Kept(o)'),
         raced \subseteq raced', raced' \subseteq Objects,
         late' \in [Syncs -> SUBSET Objects], \A s \in Syncs : SightKept(s),
         Cal!BornPush(r)', Cal!Claimed(r)', Cal!LinkFits(r)', Cal!Reached(r)',
         \A q \in Rows \ {r} : PushStays(q) \/ (Cal!BornPush(q)' /\ Cal!Claimed(q)'),
         \A q \in Rows \ {r} : objects'[q].stamp = objects[q].stamp \/ Cal!Reached(q)'
  PROVE  Cal!CalendarInv'
PROOF
<1>1. push' \in [Rows -> PushState] /\ \A q \in Rows \ {r} : push'[q] = push[q]  BY Parts
<1>2. Cal!TypeOK'  BY <1>1, Parts, TypesNext
<1>3. RowsShrink /\ \A q \in Rows : SameRow(q)  BY RowsAlone
<1>4. \A s \in Syncs : sync'[s] = sync[s] /\ SightKept(s)  OBVIOUS
<1>5. QED  BY <1>1, <1>2, <1>3, <1>4, ShrinkStep

\* A request gives up, or begins a step that holds no event.
LEMMA PushSettles ==
  ASSUME CalendarKnown, NEW r \in Rows, NEW y \in PushState, push' = [push EXCEPT ![r] = y],
         y.at # "link", y.at # "idle" => rows[r].at # "absent", push[r].at # "link",
         UNCHANGED <<rows, objects, shown, sync, made, raced>>,
         late' \in [Syncs -> SUBSET Objects], \A s \in Syncs : SightKept(s)
  PROVE  Cal!CalendarInv'
PROOF
<1>1. push'[r] = y /\ Cal!Reached(r) /\ \A q \in Rows \ {r} : push'[q] = push[q]
  BY CalendarHolds, Parts
<1>2. Cal!BornPush(r)' /\ Cal!Claimed(r)' /\ Cal!LinkFits(r)'
  BY <1>1 DEF Cal!BornPush, Cal!Claimed, Cal!LinkFits
<1>3. Cal!Reached(r)'  BY <1>1 DEF Cal!Reached
<1>4. \A q \in Rows : SameRow(q)  BY RowsAlone
<1>5. (\A o \in Objects : MadeStays(o)) /\ \A q \in Rows \ {r} : PushStays(q)
  BY <1>1, <1>4, MadeAlone
<1>6. QED  BY <1>2, <1>3, <1>5, ObjectsAlone, Parts, PushMoves

LEMMA CallFailsStep == ASSUME CalendarKnown, NEW r \in Rows, Cal!CallFails(r) PROVE Cal!CalendarInv'
PROOF
<1>1. /\ push[r].at = "call" /\ push' = [push EXCEPT ![r] = Cal!NoPush]
      /\ UNCHANGED <<rows, objects, shown, sync, made, raced, late>>
  BY DEF Cal!CallFails
<1>2. late' \in [Syncs -> SUBSET Objects] /\ \A s \in Syncs : SightKept(s)
  BY <1>1, SightAlone, Parts
<1>3. Cal!NoPush \in PushState /\ Cal!NoPush.at = "idle"  BY NoneTyped DEF CalendarKnown
<1>4. QED  BY <1>1, <1>2, <1>3, PushSettles

LEMMA CreateStep == ASSUME CalendarKnown, NEW r \in Rows, Cal!Create(r) PROVE Cal!CalendarInv'
PROOF
<1>1. /\ rows[r].at = "absent" /\ push[r].at = "idle"
      /\ Service = "caldav" => objects[r].stamp = 0
      /\ rows' = [rows EXCEPT ![r] = [Cal!NoRow EXCEPT !.at = "live"]]
      /\ push' = [push EXCEPT ![r] = Cal!Pushed]
      /\ UNCHANGED <<objects, shown, sync, made, raced, late>>
  BY DEF Cal!Create, Cal!Free
<1>2. PICK y : y = [Cal!NoRow EXCEPT !.at = "live"]  OBVIOUS
<1>3. y \in RowState /\ y.at = "live" /\ y.ext = None
  BY <1>2, NoneTyped DEF CalendarKnown, RowState, Cal!NoRow
<1>4. rows' = [rows EXCEPT ![r] = y]  BY <1>1, <1>2
<1>5. rows'[r] = y /\ \A q \in Rows \ {r} : rows'[q] = rows[q]  BY <1>4, Parts
<1>6. Cal!Pushed \in PushState /\ Cal!Pushed.at \in {"idle", "call"}
  BY PushedTyped DEF CalendarKnown
<1>7. push'[r] = Cal!Pushed /\ \A q \in Rows \ {r} : push'[q] = push[q]  BY <1>1, Parts
<1>8. Cal!BornPush(r)' /\ Cal!Claimed(r)' /\ Cal!LinkFits(r)'
  BY <1>3, <1>5, <1>6, <1>7 DEF Cal!BornPush, Cal!Claimed, Cal!LinkFits
<1>9. Cal!Reached(r)'
  <2>1. Service = "caldav" => ~(objects[r].stamp > 0)  BY <1>1
  <2>2. QED  BY <1>1, <2>1 DEF Cal!Reached
<1>10. RowsShrink  BY <1>3, <1>5 DEF RowsShrink
<1>11. \A q \in Rows \ {r} : SameRow(q)  BY <1>5 DEF SameRow
<1>12. \A s \in Syncs : sync'[s] = sync[s] /\ SightKept(s)  BY <1>1, SightAlone
<1>13. Cal!TypeOK'
  <2>1. rows' \in [Rows -> RowState]  BY <1>3, <1>4, Parts
  <2>2. push' \in [Rows -> PushState]  BY <1>1, <1>6, Parts
  <2>3. QED  BY <1>1, <2>1, <2>2, Parts, TypesNext
<1>14. (\A o \in Objects : MadeStays(o)) /\ \A q \in Rows \ {r} : PushStays(q)
  BY <1>1, <1>7, <1>11, MadeAlone
<1>15. QED
  BY <1>1, <1>7, <1>8, <1>9, <1>10, <1>11, <1>12, <1>13, <1>14, ObjectsAlone, ShrinkStep

LEMMA EditStep == ASSUME CalendarKnown, NEW r \in Rows, Cal!Edit(r) PROVE Cal!CalendarInv'
PROOF
<1>1. PICK at \in {"live", "cancelled"} : rows' = [rows EXCEPT ![r] = [@ EXCEPT !.at = at]]
  BY DEF Cal!Edit
<1>2. /\ rows[r].at # "absent" /\ push[r].at = "idle"
      /\ push' = [push EXCEPT ![r] = Cal!Pushed]
      /\ UNCHANGED <<objects, shown, sync, made, raced, late>>
  BY DEF Cal!Edit
<1>3. PICK y : y = [rows[r] EXCEPT !.at = at]  OBVIOUS
<1>4. y \in RowState /\ y.at = at /\ y.ext = rows[r].ext
  <2>1. rows[r] \in RowState  BY Parts
  <2>2. QED  BY <1>3, <2>1 DEF RowState
<1>5. rows' = [rows EXCEPT ![r] = y]  BY <1>1, <1>3
<1>6. rows'[r] = y /\ \A q \in Rows \ {r} : rows'[q] = rows[q]  BY <1>5, Parts
<1>7. Cal!Pushed \in PushState /\ Cal!Pushed.at \in {"idle", "call"}
  BY PushedTyped DEF CalendarKnown
<1>8. push'[r] = Cal!Pushed /\ \A q \in Rows \ {r} : push'[q] = push[q]  BY <1>2, Parts
<1>9. \A q \in Rows : SameRow(q)  BY <1>2, <1>4, <1>6 DEF SameRow
<1>10. RowsShrink  BY <1>9 DEF RowsShrink, SameRow
<1>11. Cal!BornPush(r)' /\ Cal!Claimed(r)' /\ Cal!LinkFits(r)'
  BY <1>4, <1>6, <1>7, <1>8 DEF Cal!BornPush, Cal!Claimed, Cal!LinkFits
<1>12. Cal!Reached(r)'
  <2>1. Cal!Reached(r)  BY CalendarHolds
  <2>2. QED  BY <1>2, <1>4, <1>6, <2>1 DEF Cal!Reached
<1>13. \A s \in Syncs : sync'[s] = sync[s] /\ SightKept(s)  BY <1>2, SightAlone
<1>14. Cal!TypeOK'
  <2>1. rows' \in [Rows -> RowState]  BY <1>4, <1>5, Parts
  <2>2. push' \in [Rows -> PushState]  BY <1>2, <1>7, Parts
  <2>3. QED  BY <1>2, <2>1, <2>2, Parts, TypesNext
<1>15. (\A o \in Objects : MadeStays(o)) /\ \A q \in Rows \ {r} : PushStays(q)
  BY <1>2, <1>8, <1>9, MadeAlone
<1>16. QED
  BY <1>2, <1>8, <1>9, <1>10, <1>11, <1>12, <1>13, <1>14, <1>15, ObjectsAlone, ShrinkStep

LEMMA RemoveRowStep == ASSUME CalendarKnown, NEW r \in Rows, Cal!RemoveRow(r) PROVE Cal!CalendarInv'
PROOF
<1>1. /\ rows' = [rows EXCEPT ![r] = Cal!NoRow] /\ push' = [push EXCEPT ![r] = Cal!NoPush]
      /\ made' = [o \in Objects |-> IF made[o] = r THEN None ELSE made[o]]
      /\ push[r].at = "remove" /\ UNCHANGED <<objects, shown, sync, raced, late>>
  BY DEF Cal!RemoveRow
<1>2. /\ Cal!NoRow \in RowState /\ Cal!NoRow.at = "absent"
      /\ Cal!NoPush \in PushState /\ Cal!NoPush.at = "idle"
  BY NoneTyped DEF CalendarKnown
<1>3. rows'[r] = Cal!NoRow /\ \A q \in Rows \ {r} : rows'[q] = rows[q]  BY <1>1, Parts
<1>4. push'[r] = Cal!NoPush /\ \A q \in Rows \ {r} : push'[q] = push[q]  BY <1>1, Parts
<1>5. RowsShrink  BY <1>2, <1>3 DEF RowsShrink
<1>6. \A q \in Rows \ {r} : SameRow(q)  BY <1>3 DEF SameRow
<1>7. Cal!BornPush(r)' /\ Cal!Claimed(r)' /\ Cal!LinkFits(r)' /\ Cal!Reached(r)'
  BY <1>2, <1>3, <1>4 DEF Cal!BornPush, Cal!Claimed, Cal!LinkFits, Cal!Reached
<1>8. \A s \in Syncs : sync'[s] = sync[s] /\ SightKept(s)  BY <1>1, SightAlone
<1>9. Cal!TypeOK'
  <2>1. rows' \in [Rows -> RowState] /\ push' \in [Rows -> PushState]
    BY <1>1, <1>2, Parts
  <2>2. made' \in [Objects -> Rows \cup {None}]  BY <1>1, Parts
  <2>3. QED  BY <1>1, <2>1, <2>2, Parts, TypesNext
<1>10. ASSUME NEW o \in Objects PROVE MadeStays(o) \/ made'[o] = None
  <2>1. CASE made[o] \in Rows \ {r}  BY <1>1, <1>4, <1>6, <2>1, Parts DEF MadeStays
  <2>2. CASE made[o] \in {r, None}  BY <1>1, <2>2
  <2>3. QED  BY <2>1, <2>2, Fields
<1>11. \A q \in Rows \ {r} : PushStays(q)  BY <1>1, <1>4, <1>6 DEF PushStays
<1>12. QED
  BY <1>1, <1>4, <1>5, <1>6, <1>7, <1>8, <1>9, <1>10, <1>11, ObjectsAlone, ShrinkStep

LEMMA RemoveObjectStep ==
  ASSUME CalendarKnown, NEW r \in Rows, Cal!RemoveObject(r) PROVE Cal!CalendarInv'
PROOF
<1>1. /\ rows[r].at # "absent" /\ push[r].at = "idle"
      /\ push' = [push EXCEPT ![r] = [Cal!NoPush EXCEPT !.at = "remove"]]
      /\ UNCHANGED <<rows, shown, sync, made, raced, late>>
  BY DEF Cal!RemoveObject
<1>2. PICK y : y = [Cal!NoPush EXCEPT !.at = "remove"]  OBVIOUS
<1>3. y \in PushState /\ y.at = "remove"  BY <1>2, NoneTyped DEF CalendarKnown, PushState
<1>4. push' = [push EXCEPT ![r] = y]  BY <1>1, <1>2
<1>5. push'[r] = y  BY <1>4, Parts
<1>6. /\ objects' \in [Objects -> ObjectState]
      /\ \A o \in Objects : /\ objects'[o].stamp = objects[o].stamp
                            /\ objects'[o].form = objects[o].form
                            /\ objects'[o].there => objects[o].there
  <2>1. CASE UNCHANGED objects  BY <2>1, Parts
  <2>2. CASE /\ rows[r].ext # None
             /\ objects' = [objects EXCEPT ![rows[r].ext] = [@ EXCEPT !.there = FALSE]]
    <3>1. PICK o \in Objects : o = rows[r].ext  BY <2>2, Fields
    <3>2. PICK z : z = [objects[o] EXCEPT !.there = FALSE]  OBVIOUS
    <3>3. /\ z \in ObjectState /\ ~z.there /\ z.stamp = objects[o].stamp
          /\ z.form = objects[o].form
      <4>1. objects[o] \in ObjectState  BY Parts
      <4>2. QED  BY <3>2, <4>1 DEF ObjectState
    <3>4. objects' = [objects EXCEPT ![o] = z]  BY <2>2, <3>1, <3>2
    <3>5. objects'[o] = z /\ \A e \in Objects \ {o} : objects'[e] = objects[e]
      BY <3>4, Parts
    <3>6. objects' \in [Objects -> ObjectState]  BY <3>3, <3>4, Parts
    <3>7. QED  BY <3>3, <3>5, <3>6
  <2>3. QED  BY <2>1, <2>2 DEF Cal!RemoveObject
<1>7. Grown /\ \A o \in Objects : Cal!BornObject(o)'
  <2>1. \A o \in Objects : Cal!BornObject(o)  BY CalendarHolds
  <2>2. QED  BY <1>6, <2>1 DEF Grown, Cal!BornObject
<1>8. \A s \in Syncs : SightKept(s)
  <2>1. Cal!Noted' \subseteq Cal!Noted
    BY <1>1, <1>6, Parts DEF Cal!Noted, Cal!Legible, Cal!Visible
  <2>2. QED  BY <1>1, <2>1 DEF SightKept
<1>9. Cal!BornPush(r)' /\ Cal!Claimed(r)' /\ Cal!LinkFits(r)'
  BY <1>1, <1>3, <1>5 DEF Cal!BornPush, Cal!Claimed, Cal!LinkFits
<1>10. Cal!Reached(r)'
  <2>1. Cal!Reached(r)  BY CalendarHolds
  <2>2. Service = "caldav" => objects'[r].stamp = objects[r].stamp  BY <1>6, Parts
  <2>3. QED  BY <1>1, <2>1, <2>2 DEF Cal!Reached
<1>11. \A q \in Rows \ {r} : objects'[q].stamp = objects[q].stamp \/ Cal!Reached(q)'
  <2>1. CASE Service = "caldav"  BY <1>6, <2>1, Parts
  <2>2. CASE Service # "caldav"  BY <2>2 DEF Cal!Reached
  <2>3. QED  BY <2>1, <2>2
<1>12. /\ raced \subseteq raced' /\ raced' \subseteq Objects
       /\ late' \in [Syncs -> SUBSET Objects]
  BY <1>1, Parts
<1>13. \A q \in Rows \ {r} : push'[q] = push[q]  BY <1>4
<1>14. \A q \in Rows : SameRow(q)  BY <1>1, RowsAlone
<1>15. (\A o \in Objects : MadeStays(o)) /\ \A q \in Rows \ {r} : PushStays(q)
  BY <1>1, <1>13, <1>14, MadeAlone
<1>16. made' \in [Objects -> Rows \cup {None}]  BY <1>1, Parts
<1>17. QED
  BY <1>1, <1>3, <1>4, <1>6, <1>7, <1>8, <1>9, <1>10, <1>11, <1>12, <1>15, <1>16, PushMoves

\* One object is written, and what it was is remembered by its stamp.
ObjectWritten(o, form) ==
  /\ objects[o].stamp < MaxStamp
  /\ objects' = [objects EXCEPT ![o] = [there |-> TRUE, stamp |-> @.stamp + 1, form |-> form]]

LEMMA Written ==
  ASSUME CalendarKnown, NEW o \in Objects, NEW form \in Forms, ObjectWritten(o, form)
  PROVE  /\ objects' \in [Objects -> ObjectState]
         /\ objects'[o].stamp = objects[o].stamp + 1 /\ objects'[o].stamp > 0
         /\ \A e \in Objects \ {o} : objects'[e] = objects[e]
         /\ Grown /\ \A e \in Objects : Cal!BornObject(e)'
PROOF
<1>1. objects[o].stamp \in 0..MaxStamp /\ MaxStamp \in Nat  BY Fields, Parts
<1>2. PICK z : z = [there |-> TRUE, stamp |-> objects[o].stamp + 1, form |-> form]  OBVIOUS
<1>3. /\ z \in ObjectState /\ z.there /\ z.stamp = objects[o].stamp + 1 /\ z.stamp > 0
  BY <1>1, <1>2 DEF ObjectState, ObjectWritten
<1>4. objects' = [objects EXCEPT ![o] = z]  BY <1>2 DEF ObjectWritten
<1>5. objects'[o] = z /\ \A e \in Objects \ {o} : objects'[e] = objects[e]  BY <1>4, Parts
<1>6. objects' \in [Objects -> ObjectState]  BY <1>3, <1>4, Parts
<1>7. \A e \in Objects : Cal!BornObject(e)  BY CalendarHolds
<1>8. Grown /\ \A e \in Objects : Cal!BornObject(e)'
  BY <1>3, <1>5, <1>7 DEF Grown, Cal!BornObject
<1>9. QED  BY <1>3, <1>5, <1>6, <1>8

LEMMA CallStep == ASSUME CalendarKnown, NEW r \in Rows, Cal!Call(r) PROVE Cal!CalendarInv'
PROOF
<1>1. push[r].at = "call" /\ UNCHANGED <<rows, shown, sync>> /\ Cal!Appear  BY DEF Cal!Call
<1>2. late' \in [Syncs -> SUBSET Objects] /\ \A s \in Syncs : SightKept(s)
  BY <1>1, Appears, Parts
<1>3. Cal!NoPush \in PushState /\ Cal!NoPush.at = "idle"  BY NoneTyped DEF CalendarKnown
<1>4. CASE rows[r].at # "live"
  <2>1. push' = [push EXCEPT ![r] = Cal!NoPush] /\ UNCHANGED <<objects, made, raced>>
    BY <1>4 DEF Cal!Call
  <2>2. QED  BY <1>1, <1>2, <1>3, <2>1, PushSettles
<1>5. CASE rows[r].at = "live"
  <2>1. PICK o \in Cal!Target(r) :
          /\ objects[o].stamp < MaxStamp
          /\ objects' = [objects EXCEPT ![o] =
               [there |-> TRUE, stamp |-> @.stamp + 1, form |-> "plain"]]
          /\ made' = IF rows[r].ext = None THEN [made EXCEPT ![o] = r] ELSE made
          /\ \/ /\ push' = [push EXCEPT ![r] =
                     [at |-> "link", ext |-> o, stamp |-> objects[o].stamp + 1]]
                /\ UNCHANGED raced
             \/ /\ push' = [push EXCEPT ![r] = Cal!NoPush]
                /\ raced' = IF rows[r].ext = None THEN raced \cup {o} ELSE raced
    BY <1>5 DEF Cal!Call
  <2>2. /\ o \in Objects /\ rows[r].ext \in {None, o}
        /\ rows[r].ext = None => \/ Service = "caldav" /\ o = r
                                 \/ Service # "caldav" /\ objects[o].stamp = 0
    BY Fields, Parts DEF Cal!Target
  <2>3. ObjectWritten(o, "plain") /\ "plain" \in Forms  BY <2>1, Parts DEF ObjectWritten
  <2>4. /\ objects' \in [Objects -> ObjectState]
        /\ objects'[o].stamp = objects[o].stamp + 1 /\ objects'[o].stamp > 0
        /\ \A e \in Objects \ {o} : objects'[e] = objects[e]
        /\ Grown /\ \A e \in Objects : Cal!BornObject(e)'
    BY <2>2, <2>3, Written
  <2>5. /\ Cal!OneRow(o) /\ Cal!BornRow(r)
        /\ \A q \in Rows : Cal!BornRow(q) /\ Cal!Reached(q)
    BY <2>2, CalendarHolds
  <2>6. raced \subseteq raced' /\ raced' \subseteq Objects  BY <2>1, <2>2, Parts
  <2>7. /\ made' \in [Objects -> Rows \cup {None}]
        /\ \A e \in Objects \ {o} : made'[e] = made[e]
        /\ made'[o] = IF rows[r].ext = None THEN r ELSE made[o]
    BY <2>1, <2>2, Parts
  <2>8. PICK y \in PushState :
          /\ push' = [push EXCEPT ![r] = y]
          /\ \/ y.at = "link" /\ y.ext = o /\ UNCHANGED raced
             \/ y.at = "idle" /\ raced' = IF rows[r].ext = None THEN raced \cup {o} ELSE raced
    <3>1. CASE /\ push' = [push EXCEPT ![r] =
                     [at |-> "link", ext |-> o, stamp |-> objects[o].stamp + 1]]
               /\ UNCHANGED raced
      <4>1. PICK y : y = [at |-> "link", ext |-> o, stamp |-> objects[o].stamp + 1]
        OBVIOUS
      <4>2. objects[o].stamp + 1 \in 0..MaxStamp  BY <2>1, <2>2, Fields, Parts
      <4>3. y \in PushState /\ y.at = "link" /\ y.ext = o
        BY <2>2, <4>1, <4>2 DEF PushState
      <4>4. push' = [push EXCEPT ![r] = y]  BY <3>1, <4>1
      <4>5. QED  BY <3>1, <4>3, <4>4
    <3>2. CASE /\ push' = [push EXCEPT ![r] = Cal!NoPush]
               /\ raced' = IF rows[r].ext = None THEN raced \cup {o} ELSE raced
      BY <1>3, <3>2
    <3>3. QED  BY <2>1, <3>1, <3>2
  <2>9. push'[r] = y /\ \A q \in Rows \ {r} : push'[q] = push[q]  BY <2>8, Parts
  <2>10. \A q \in Rows : SameRow(q)  BY <1>1, RowsAlone
  <2>11. ASSUME NEW e \in Objects, made'[e] = made[e] PROVE MadeStays(e)
    <3>1. made[e] \in Rows \cup {None}  BY Fields
    <3>2. QED  BY <1>1, <2>9, <2>10, <2>11, <3>1 DEF MadeStays
  <2>12. ASSUME rows[r].ext = None, o \notin raced
         PROVE  Cal!RowsOf(o) = {} /\ \A q \in Rows : push[q].at = "link" => push[q].ext # o
    <3>1. ~(objects[o].stamp > 0)  BY <1>1, <1>5, <2>2, <2>12, TargetUnborn
    <3>2. QED  BY <2>2, <3>1, Unborn
  <2>13. ASSUME NEW e \in Objects PROVE MadeStays(e) \/ (Cal!OneRow(e)' /\ Cal!Kept(e)')
    <3>1. CASE e # o \/ rows[r].ext # None  BY <2>7, <2>11, <3>1
    <3>2. CASE e = o /\ rows[r].ext = None
      <4>1. made'[o] = r  BY <2>7, <3>2
      <4>2. ASSUME o \notin raced' PROVE Cal!ShownBy(o)' = {r} /\ r \in Cal!InHand(o)'
        <5>1. o \notin raced  BY <2>6, <4>2
        <5>2. Cal!RowsOf(o)' = {}  BY <1>1, <2>12, <3>2, <5>1 DEF Cal!RowsOf
        <5>3. Cal!ShownBy(o)' = {r}  BY <4>1, <5>2 DEF Cal!ShownBy
        <5>4. y.at = "link" /\ y.ext = o  BY <2>8, <3>2, <4>2
        <5>5. QED  BY <2>9, <5>3, <5>4 DEF Cal!InHand
      <4>3. Cal!OneRow(o)'  BY <4>2 DEF Cal!OneRow
      <4>4. rows'[r].at # "absent"  BY <1>1, <1>5
      <4>5. Cal!Kept(o)'  BY <2>4, <4>1, <4>2, <4>4 DEF Cal!Kept
      <4>6. QED  BY <3>2, <4>3, <4>5
    <3>3. QED  BY <3>1, <3>2
  <2>14. ASSUME NEW q \in Rows \ {r} PROVE PushStays(q) \/ (Cal!BornPush(q)' /\ Cal!Claimed(q)')
    <3>1. push'[q] = push[q] /\ SameRow(q)  BY <2>9, <2>10
    <3>2. CASE rows[r].ext # None  BY <2>7, <3>1, <3>2 DEF PushStays
    <3>3. CASE Service = "caldav" /\ rows[r].ext = None
      <4>1. o = r  BY <2>2, <3>3
      <4>2. Cal!BornPush(q)' /\ Cal!Claimed(q)'
        BY <2>4, <2>6, <2>7, <3>1, <3>3, <4>1, OthersClaim
      <4>3. QED  BY <4>2
    <3>4. CASE Service # "caldav" /\ rows[r].ext = None
      <4>1. ~(objects[o].stamp > 0)  BY <2>2, <3>4
      <4>2. made[o] = None  BY <2>2, <4>1, Unborn
      <4>3. QED  BY <2>7, <3>1, <4>2, Parts DEF PushStays
    <3>5. QED  BY <3>2, <3>3, <3>4
  <2>15. ASSUME NEW q \in Rows \ {r}
         PROVE  objects'[q].stamp = objects[q].stamp \/ Cal!Reached(q)'
    <3>1. CASE Service # "caldav"  BY <3>1 DEF Cal!Reached
    <3>2. CASE Service = "caldav" /\ q # o  BY <2>4, <3>2, Parts
    <3>3. CASE Service = "caldav" /\ q = o
      <4>1. rows[r].ext = q /\ objects[q].stamp > 0
        BY <1>5, <2>2, <2>5, <3>3, Parts DEF Cal!BornRow
      <4>2. push'[q] = push[q] /\ Cal!Reached(q)  BY <2>5, <2>9
      <4>3. QED  BY <1>1, <2>6, <4>1, <4>2 DEF Cal!Reached
    <3>4. QED  BY <3>1, <3>2, <3>3
  <2>16. Cal!BornPush(r)' /\ Cal!Claimed(r)' /\ Cal!LinkFits(r)'
    <3>1. Cal!BornPush(r)'  BY <2>2, <2>4, <2>8, <2>9 DEF Cal!BornPush
    <3>2. rows'[r].ext = o \/ made'[o] = r  BY <1>1, <2>2, <2>7
    <3>3. Cal!Claimed(r)'  BY <2>8, <2>9, <3>2 DEF Cal!Claimed
    <3>4. Cal!LinkFits(r)'  BY <1>1, <1>5, <2>2, <2>8, <2>9 DEF Cal!LinkFits
    <3>5. QED  BY <3>1, <3>3, <3>4
  <2>17. Cal!Reached(r)'  BY <1>1, <2>2, <2>8, <2>9 DEF Cal!Reached
  <2>18. QED
    BY <1>1, <1>2, <2>4, <2>6, <2>7, <2>8, <2>13, <2>14, <2>15, <2>16, <2>17, PushMoves
<1>6. QED  BY <1>4, <1>5

LEMMA LinkRowStep == ASSUME CalendarKnown, NEW r \in Rows, Cal!LinkRow(r) PROVE Cal!CalendarInv'
PROOF
<1>1. PICK o : o = push[r].ext  OBVIOUS
<1>2. /\ push[r].at = "link" /\ push' = [push EXCEPT ![r] = Cal!NoPush]
      /\ UNCHANGED <<objects, shown, sync, made, raced, late>>
  BY DEF Cal!LinkRow
<1>3. Cal!BornPush(r) /\ Cal!LinkFits(r) /\ Cal!Claimed(r)  BY CalendarHolds
<1>4. /\ o \in Objects /\ objects[o].stamp > 0 /\ rows[r].at # "absent"
      /\ rows[r].ext \in {None, o} /\ (Service = "caldav" /\ rows[r].ext = None => o = r)
  BY <1>1, <1>2, <1>3 DEF Cal!BornPush, Cal!LinkFits
<1>5. push'[r] = Cal!NoPush /\ \A q \in Rows \ {r} : push'[q] = push[q]  BY <1>2, Parts
<1>6. Cal!NoPush \in PushState /\ Cal!NoPush.at = "idle"  BY NoneTyped DEF CalendarKnown
<1>7. Cal!BornPush(r)' /\ Cal!Claimed(r)' /\ Cal!LinkFits(r)'
  BY <1>5, <1>6 DEF Cal!BornPush, Cal!Claimed, Cal!LinkFits
<1>8. \A s \in Syncs : sync'[s] = sync[s] /\ SightKept(s)  BY <1>2, SightAlone
<1>9. push' \in [Rows -> PushState]  BY <1>2, <1>6, Parts
<1>10. CASE Cal!RowsOf(o) \subseteq {r}
  <2>1. rows' = [rows EXCEPT ![r] = [@ EXCEPT !.ext = o, !.seen = push[r].stamp]]
    BY <1>1, <1>10 DEF Cal!LinkRow
  <2>2. PICK y1, y : y1 = [rows[r] EXCEPT !.ext = o] /\ y = [y1 EXCEPT !.seen = push[r].stamp]
    OBVIOUS
  <2>3. y \in RowState /\ y.at = rows[r].at /\ y.ext = o
    <3>1. rows[r] \in RowState /\ push[r].stamp \in 0..MaxStamp  BY Parts, Fields
    <3>2. QED  BY <1>4, <2>2, <3>1 DEF RowState
  <2>4. rows' = [rows EXCEPT ![r] = y]  BY <2>1, <2>2
  <2>5. rows'[r] = y /\ \A q \in Rows \ {r} : rows'[q] = rows[q]  BY <2>4, Parts
  <2>6. o \in raced \/ made[o] \in {None, r}
    <3>1. Cal!OneRow(o) /\ made[o] \in Rows \cup {None}  BY <1>4, CalendarHolds, Fields
    <3>2. o \in raced \/ rows[r].ext = o \/ made[o] = r  BY <1>1, <1>2, <1>3 DEF Cal!Claimed
    <3>3. ASSUME o \notin raced, rows[r].ext = o, made[o] # None PROVE made[o] = r
      <4>1. r \in Cal!ShownBy(o)  BY <1>4, <3>3 DEF Cal!ShownBy, Cal!RowsOf
      <4>2. made[o] \in Cal!ShownBy(o)  BY <3>1, <3>3 DEF Cal!ShownBy
      <4>3. QED  BY <3>1, <3>3, <4>1, <4>2 DEF Cal!OneRow
    <3>4. QED  BY <3>2, <3>3
  <2>7. Takes(r, o)
    BY <1>1, <1>2, <1>4, <1>5, <1>10, <2>3, <2>5, <2>6, ObjectsAlone DEF Takes
  <2>8. ASSUME NEW s \in Syncs PROVE SyncOwes(s)'
    <3>1. sync[s].at = "push" /\ r \in sync[s].todo => o = r
      <4>1. Cal!Waits(s)  BY CalendarHolds
      <4>2. QED  BY <1>4, <4>1, Parts DEF Cal!Waits
    <3>2. QED  BY <1>4, <1>8, <2>7, <3>1, SyncBeside DEF SyncOwes
  <2>9. ASSUME NEW q \in Rows
        PROVE  Cal!BornRow(q)' /\ Cal!BornPush(q)' /\ Cal!Claimed(q)' /\ Cal!LinkFits(q)' /\ Cal!Reached(q)'
    <3>1. Cal!BornRow(q)'  BY <1>4, <2>7, Taken
    <3>2. CASE q = r
      <4>1. Cal!Reached(r)'  BY <1>4, <2>3, <2>5, Parts DEF Cal!Reached
      <4>2. QED  BY <1>7, <3>1, <3>2, <4>1
    <3>3. CASE q # r
      <4>1. Cal!BornPush(q)' /\ Cal!Claimed(q)'  BY <1>4, <2>7, <3>3, Taken
      <4>2. SameRow(q)  BY <2>5, <3>3 DEF SameRow
      <4>3. Cal!LinkFits(q)' /\ Cal!Reached(q)'  BY <1>2, <1>5, <3>3, <4>2, PushesStandBy
      <4>4. QED  BY <3>1, <4>1, <4>3
    <3>4. QED  BY <3>2, <3>3
  <2>10. Cal!TypeOK'
    <3>1. rows' \in [Rows -> RowState]  BY <2>3, <2>4, Parts
    <3>2. QED  BY <1>2, <1>9, <3>1, Parts, TypesNext
  <2>11. \A e \in Objects : Cal!BornObject(e)' /\ Cal!OneRow(e)' /\ Cal!Kept(e)'
    BY <1>2, <1>4, <2>7, ObjectsAlone, Taken
  <2>12. QED  BY <2>8, <2>9, <2>10, <2>11 DEF Cal!CalendarInv, SyncOwes
<1>11. CASE ~(Cal!RowsOf(o) \subseteq {r})
  <2>1. UNCHANGED rows  BY <1>1, <1>11 DEF Cal!LinkRow
  <2>2. RowsShrink /\ \A q \in Rows : SameRow(q)  BY <2>1, RowsAlone
  <2>3. PICK q \in Rows \ {r} : q \in Cal!RowsOf(o)  BY <1>11 DEF Cal!RowsOf
  <2>4. made[o] = r => o \in raced
    <3>1. made[o] = r => q \in Cal!ShownBy(o) /\ r \in Cal!ShownBy(o)
      BY <2>3 DEF Cal!ShownBy
    <3>2. Cal!OneRow(o)  BY <1>4, CalendarHolds
    <3>3. QED  BY <2>3, <3>1, <3>2 DEF Cal!OneRow
  <2>5. rows[r].ext = None \/ o \in raced
    <3>1. rows[r].ext = o => q \in Cal!ShownBy(o) /\ r \in Cal!ShownBy(o)
      BY <1>4, <2>3 DEF Cal!ShownBy, Cal!RowsOf
    <3>2. Cal!OneRow(o)  BY <1>4, CalendarHolds
    <3>3. QED  BY <1>4, <2>3, <3>1, <3>2 DEF Cal!OneRow
  <2>6. ASSUME NEW e \in Objects PROVE MadeStays(e) \/ (Cal!OneRow(e)' /\ Cal!Kept(e)')
    <3>1. Cal!OneRow(e) /\ Cal!Kept(e) /\ made[e] \in Rows \cup {None}
      BY CalendarHolds, Fields
    <3>2. CASE made[e] # r  BY <1>2, <1>5, <2>2, <3>1, <3>2 DEF MadeStays
    <3>3. CASE made[e] = r
      <4>1. Cal!OneRow(e)'
        BY <1>2, <2>1, <3>1 DEF Cal!OneRow, Cal!ShownBy, Cal!RowsOf
      <4>2. rows[r].at # "absent" /\ objects[e].stamp > 0  BY <1>4, <3>1, <3>3, Parts DEF Cal!Kept
      <4>3. e \in raced \/ rows[r].ext = e \/ r \in Cal!InHand(e)
        BY <3>1, <3>3, Parts DEF Cal!Kept
      <4>4. r \in Cal!InHand(e) => e = o  BY <1>1 DEF Cal!InHand
      <4>5. e \in raced \/ rows[r].ext = e  BY <2>4, <3>3, <4>3, <4>4
      <4>6. Cal!Kept(e)'  BY <1>2, <2>1, <3>3, <4>2, <4>5 DEF Cal!Kept
      <4>7. QED  BY <4>1, <4>6
    <3>4. QED  BY <3>2, <3>3
  <2>7. \A e \in Rows \ {r} : PushStays(e)  BY <1>2, <1>5, <2>2 DEF PushStays
  <2>8. Cal!Reached(r)'
    <3>1. ASSUME Service = "caldav", rows[r].ext = None PROVE r \in raced
      <4>1. o = r  BY <1>4, <3>1
      <4>2. made[o] = r \/ o \in raced  BY <1>1, <1>2, <1>3, <3>1, <1>4, Parts DEF Cal!Claimed
      <4>3. QED  BY <2>4, <4>1, <4>2
    <3>2. QED  BY <1>2, <2>1, <3>1 DEF Cal!Reached
  <2>9. Cal!TypeOK'  BY <1>2, <1>9, <2>1, Parts, TypesNext
  <2>10. QED
    BY <1>2, <1>5, <1>7, <1>8, <2>2, <2>6, <2>7, <2>8, <2>9, ObjectsAlone, ShrinkStep
<1>12. QED  BY <1>10, <1>11

(***************************************************************************)
(* The provider                                                             *)
(***************************************************************************)
\* A step at the provider leaves rows, runs and requests as they are.
LEMMA ProviderMoves ==
  ASSUME CalendarKnown, UNCHANGED <<rows, sync, push, made, raced>>, Grown,
         objects' \in [Objects -> ObjectState], \A o \in Objects : Cal!BornObject(o)',
         shown' \subseteq Objects,
         late' \in [Syncs -> SUBSET Objects], \A s \in Syncs : SightKept(s),
         \A r \in Rows : objects'[r].stamp = objects[r].stamp \/ Cal!Reached(r)'
  PROVE  Cal!CalendarInv'
PROOF
<1>1. Cal!TypeOK'  BY Parts, TypesNext
<1>2. RowsShrink /\ \A r \in Rows : SameRow(r)  BY RowsAlone
<1>3. \A s \in Syncs : sync'[s] = sync[s] /\ SightKept(s)  OBVIOUS
<1>4. \A r \in Rows : push'[r] = push[r]  OBVIOUS
<1>5. (\A o \in Objects : MadeStays(o)) /\ \A r \in Rows : PushStays(r)
  BY <1>2, <1>4, MadeAlone
<1>6. QED  BY <1>1, <1>2, <1>3, <1>4, <1>5, ShrinkStep

LEMMA CalendarWriteStep ==
  ASSUME CalendarKnown, NEW o \in Objects, Cal!Write(o)
  PROVE  Cal!CalendarInv'
PROOF
<1>1. /\ objects[o].there \/ (objects[o].stamp = 0 /\ o \notin Rows)
      /\ UNCHANGED <<rows, shown, sync, push, made, raced>> /\ Cal!Appear
      /\ \E form \in Forms : ObjectWritten(o, form)
  BY DEF Cal!Write, ObjectWritten
<1>2. late' \in [Syncs -> SUBSET Objects] /\ \A s \in Syncs : SightKept(s)
  BY <1>1, Appears, Parts
<1>3. /\ objects' \in [Objects -> ObjectState]
      /\ \A e \in Objects \ {o} : objects'[e] = objects[e]
      /\ Grown /\ \A e \in Objects : Cal!BornObject(e)'
  BY <1>1, Written
<1>4. ASSUME NEW r \in Rows PROVE objects'[r].stamp = objects[r].stamp \/ Cal!Reached(r)'
  <2>1. CASE Service # "caldav"  BY <2>1 DEF Cal!Reached
  <2>2. CASE Service = "caldav" /\ r # o  BY <1>3, <2>2, Parts
  <2>3. CASE r = o
    <3>1. objects[r].stamp > 0 /\ Cal!Reached(r)  BY <1>1, <2>3, CalendarHolds DEF Cal!BornObject
    <3>2. QED  BY <1>1, <3>1 DEF Cal!Reached
  <2>4. QED  BY <2>1, <2>2, <2>3
<1>5. QED  BY <1>1, <1>2, <1>3, <1>4, Parts, ProviderMoves

LEMMA DeleteStep == ASSUME CalendarKnown, NEW o \in Objects, Cal!Delete(o) PROVE Cal!CalendarInv'
PROOF
<1>1. /\ objects' = [objects EXCEPT ![o] = [@ EXCEPT !.there = FALSE]]
      /\ UNCHANGED <<rows, shown, sync, push, made, raced, late>>
  BY DEF Cal!Delete
<1>2. PICK z : z = [objects[o] EXCEPT !.there = FALSE]  OBVIOUS
<1>3. /\ z \in ObjectState /\ ~z.there /\ z.stamp = objects[o].stamp
      /\ z.form = objects[o].form
  <2>1. objects[o] \in ObjectState  BY Parts
  <2>2. QED  BY <1>2, <2>1 DEF ObjectState
<1>4. objects' = [objects EXCEPT ![o] = z]  BY <1>1, <1>2
<1>5. objects'[o] = z /\ \A e \in Objects \ {o} : objects'[e] = objects[e]  BY <1>4, Parts
<1>6. objects' \in [Objects -> ObjectState]  BY <1>3, <1>4, Parts
<1>7. Grown /\ \A e \in Objects : Cal!BornObject(e)'
  <2>1. \A e \in Objects : Cal!BornObject(e)  BY CalendarHolds
  <2>2. QED  BY <1>3, <1>5, <2>1 DEF Grown, Cal!BornObject
<1>8. \A s \in Syncs : SightKept(s)
  <2>1. \A e \in Objects : (objects'[e].there => objects[e].there)
                            /\ objects'[e].form = objects[e].form
    BY <1>3, <1>5
  <2>2. Cal!Noted' \subseteq Cal!Noted
    BY <1>1, <2>1, Parts DEF Cal!Noted, Cal!Legible, Cal!Visible
  <2>3. QED  BY <1>1, <2>2 DEF SightKept
<1>9. \A r \in Rows : objects'[r].stamp = objects[r].stamp \/ Cal!Reached(r)'
  <2>1. CASE Service = "caldav"  BY <1>3, <1>5, <2>1, Parts
  <2>2. CASE Service # "caldav"  BY <2>2 DEF Cal!Reached
  <2>3. QED  BY <2>1, <2>2
<1>10. QED  BY <1>1, <1>6, <1>7, <1>8, <1>9, Parts, ProviderMoves

LEMMA TurnStep == ASSUME CalendarKnown, NEW o \in Objects, Cal!Turn(o) PROVE Cal!CalendarInv'
PROOF
<1>1. UNCHANGED <<rows, objects, sync, push, made, raced>> /\ Cal!Appear  BY DEF Cal!Turn
<1>2. shown' \subseteq Objects  BY Parts DEF Cal!Turn
<1>3. late' \in [Syncs -> SUBSET Objects] /\ \A s \in Syncs : SightKept(s)
  BY <1>1, <1>2, Appears
<1>4. QED  BY <1>1, <1>2, <1>3, ObjectsAlone, Parts, ProviderMoves

LEMMA IdleStep == ASSUME CalendarKnown, UNCHANGED Cal!vars PROVE Cal!CalendarInv'
PROOF
<1>1. UNCHANGED <<rows, objects, shown, sync, push, made, raced, late>>  BY DEF Cal!vars
<1>2. \A s \in Syncs : SightKept(s)  BY <1>1, SightAlone
<1>3. QED  BY <1>1, <1>2, ObjectsAlone, Parts, ProviderMoves

(***************************************************************************)
(* Theorems                                                                 *)
(***************************************************************************)
LEMMA CalendarStepKnown == CalendarKnown /\ [Cal!Next]_(Cal!vars) => CalendarKnown'
PROOF
<1>1. SUFFICES ASSUME CalendarKnown, [Cal!Next]_(Cal!vars) PROVE Cal!CalendarInv'
  BY DEF CalendarKnown, Cal!CalendarAssumption
<1>2. CASE UNCHANGED Cal!vars  BY <1>1, <1>2, IdleStep
<1>3. ASSUME NEW s \in Syncs,
             \/ Cal!Fetch(s) \/ Cal!Look(s) \/ Cal!Store(s) \/ Cal!CancelAbsent(s)
             \/ Cal!PushUnsynced(s) \/ Cal!SyncFails(s)
      PROVE  Cal!CalendarInv'
  BY <1>1, <1>3, FetchStep, LookStep, StoreStep, CancelAbsentStep, PushUnsyncedStep,
     SyncFailsStep
<1>4. ASSUME NEW r \in Rows,
             \/ Cal!Create(r) \/ Cal!Edit(r) \/ Cal!Call(r) \/ Cal!CallFails(r)
             \/ Cal!LinkRow(r) \/ Cal!RemoveObject(r) \/ Cal!RemoveRow(r)
      PROVE  Cal!CalendarInv'
  BY <1>1, <1>4, CreateStep, EditStep, CallStep, CallFailsStep, LinkRowStep, RemoveObjectStep,
     RemoveRowStep
<1>5. ASSUME NEW o \in Objects, Cal!Write(o) \/ Cal!Delete(o) \/ Cal!Turn(o) PROVE Cal!CalendarInv'
  BY <1>1, <1>5, CalendarWriteStep, DeleteStep, TurnStep
<1>6. QED  BY <1>1, <1>2, <1>3, <1>4, <1>5 DEF Cal!Next

LEMMA CalendarInvHolds == Cal!CalendarAssumption /\ Cal!Spec => []CalendarKnown
PROOF
<1>1. Cal!CalendarAssumption /\ Cal!Init => CalendarKnown  BY CalendarInitKnown
<1>2. CalendarKnown /\ [Cal!Next]_(Cal!vars) => CalendarKnown'  BY CalendarStepKnown
<1>3. QED  BY <1>1, <1>2, PTL DEF Cal!Spec

\* Rows, events at the provider, runs and requests keep their types
\* (calendar-sync.service.ts, calendar.service.ts).
THEOREM CalendarsTyped == ASSUME Cal!CalendarAssumption PROVE Cal!Spec => []Cal!TypeOK
PROOF
<1>1. CalendarKnown => Cal!TypeOK  BY DEF CalendarKnown, Cal!CalendarInv
<1>2. QED  BY <1>1, CalendarInvHolds, PTL

\* However many runs and requests are at work, the rows that name an event and the row it
\* was made for are one, unless a run took the event in before the push that made it had
\* noted its id, or the answer to that push was lost
\* (calendar-sync.service.ts:489, 597, 784).
THEOREM EventsHaveOneRow == ASSUME Cal!CalendarAssumption PROVE Cal!Spec => []Cal!OneRowPerEvent
PROOF
<1>1. CalendarKnown => Cal!OneRowPerEvent
  <2>1. SUFFICES ASSUME CalendarKnown, NEW o \in Objects \ raced
                 PROVE  Cal!Cardinality(Cal!ShownBy(o)) <= 1
    BY DEF Cal!OneRowPerEvent
  <2>2. \A q, r \in Cal!ShownBy(o) : q = r  BY <2>1, CalendarHolds DEF Cal!OneRow
  <2>3. CASE Cal!ShownBy(o) = {}  BY <2>3, FS_EmptySet, SameCounts
  <2>4. CASE Cal!ShownBy(o) # {}
    <3>1. PICK r \in Cal!ShownBy(o) : TRUE  BY <2>4
    <3>2. Cal!ShownBy(o) = {r}  BY <2>2, <3>1
    <3>3. Cardinality({r}) = 1  BY FS_Singleton
    <3>4. QED  BY <3>2, <3>3, SameCounts
  <2>5. QED  BY <2>3, <2>4
<1>2. QED  BY <1>1, CalendarInvHolds, PTL

\* A run that cancels rows cancels none whose event it could have noted when it asked and
\* could still, whatever requests and other runs did meanwhile; over CalDAV one that
\* cannot be parsed is not noted (calendar-sync.service.ts:380-392, 1487).
THEOREM RunsCancelOnlyAbsent ==
  ASSUME Cal!CalendarAssumption
  PROVE  Cal!Spec => Cal!CancelsOnlyAbsent
PROOF
<1>1. ASSUME CalendarKnown, [Cal!Next]_(Cal!vars) PROVE Cal!CancelsAbsent
  <2>1. SUFFICES ASSUME NEW r \in Rows, rows[r].at = "live", rows'[r].at = "cancelled",
                        NEW s \in Syncs, sync[s].at = "items", sync[s] # sync'[s]
                 PROVE  rows[r].ext \notin Cal!Noted \ late[s]
    BY DEF Cal!CancelsAbsent
  <2>2. rows'[r] # rows[r] /\ sync' # sync  BY <2>1
  <2>3. ASSUME NEW t \in Syncs, Cal!CancelAbsent(t)
        PROVE  rows[r].ext \notin Cal!Noted \ late[s]
    <3>1. t = s  BY <1>1, <2>1, <2>3, Parts DEF Cal!CancelAbsent
    <3>2. r \in Cal!Absent(t)  BY <2>2, <2>3 DEF Cal!CancelAbsent
    <3>3. rows[r].ext \in Objects /\ sync[s].got[rows[r].ext] = 0
      BY <1>1, <3>1, <3>2, Fields DEF Cal!Absent
    <3>4. Cal!Sees(s)  BY <1>1, CalendarHolds
    <3>5. QED  BY <2>1, <3>3, <3>4 DEF Cal!Sees
  <2>4. ASSUME NEW t \in Syncs, Cal!Store(t) PROVE FALSE
    <3>1. sync[t].at = "write"  BY <2>4 DEF Cal!Store
    <3>2. PICK x : sync' = [sync EXCEPT ![t] = x]
      <4>1. PICK x1 : x1 = [sync[t] EXCEPT !.at = "items",
                              !.todo = sync[t].todo \ {sync[t].item},
                              !.item = None, !.found = None]
        OBVIOUS
      <4>2. \/ sync' = [sync EXCEPT ![t] = x1] \/ sync' = [sync EXCEPT ![t] = Cal!NoSync]
        BY <2>4, <4>1 DEF Cal!Store
      <4>3. QED  BY <4>2
    <3>3. QED  BY <1>1, <2>1, <3>1, <3>2, Parts
  <2>5. ASSUME NEW t \in Syncs, Cal!PushUnsynced(t) PROVE FALSE
    <3>1. PICK x : sync[t].at = "push" /\ sync' = [sync EXCEPT ![t] = x]
      <4>1. PICK q \in sync[t].todo :
              LET todo == sync[t].todo \ {q}
              IN /\ sync[t].at = "push"
                 /\ \/ sync' = [sync EXCEPT ![t] = IF todo = {} THEN Cal!NoSync
                                                   ELSE [sync[t] EXCEPT !.todo = todo]]
                    \/ sync' = [sync EXCEPT ![t] = Cal!NoSync]
        BY <2>5 DEF Cal!PushUnsynced
      <4>2. QED  BY <4>1
    <3>2. QED  BY <1>1, <2>1, <3>1, Parts
  <2>6. ASSUME NEW t \in Syncs, Cal!Fetch(t) \/ Cal!Look(t) \/ Cal!SyncFails(t) PROVE FALSE
    BY <2>2, <2>6 DEF Cal!Fetch, Cal!Look, Cal!SyncFails
  <2>7. ASSUME NEW q \in Rows,
               \/ Cal!Create(q) \/ Cal!Edit(q) \/ Cal!Call(q) \/ Cal!CallFails(q)
               \/ Cal!LinkRow(q) \/ Cal!RemoveObject(q) \/ Cal!RemoveRow(q)
        PROVE  FALSE
    BY <2>2, <2>7
       DEF Cal!Create, Cal!Edit, Cal!Call, Cal!CallFails, Cal!LinkRow, Cal!RemoveObject,
           Cal!RemoveRow
  <2>8. ASSUME NEW o \in Objects, Cal!Write(o) \/ Cal!Delete(o) \/ Cal!Turn(o) PROVE FALSE
    BY <2>2, <2>8 DEF Cal!Write, Cal!Delete, Cal!Turn
  <2>9. CASE UNCHANGED Cal!vars  BY <2>2, <2>9 DEF Cal!vars
  <2>10. QED  BY <1>1, <2>3, <2>4, <2>5, <2>6, <2>7, <2>8, <2>9 DEF Cal!Next
<1>2. QED  BY <1>1, CalendarInvHolds, PTL DEF Cal!Spec, Cal!CancelsOnlyAbsent
=============================================================================
